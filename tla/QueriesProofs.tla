---------------------------- MODULE QueriesProofs ----------------------------
(***************************************************************************)
(* Proofs about Queries.                                                   *)
(***************************************************************************)
EXTENDS Queries, TLAPS, SequenceTheorems, FiniteSetTheorems, DateRangeProofs

-----------------------------------------------------------------------------
(* Induction over the natural numbers, of sets. *)

LEMMA Least == ASSUME NEW T \in SUBSET Nat, T # {} PROVE \E x \in T : \A y \in T : x <= y
  <1>1. IsWellFoundedOn(OpToRel(<, Nat), Nat)
    BY NatLessThanWellFounded
  <1>2. PICK x \in T : \A y \in T : ~ (<<y, x>> \in OpToRel(<, Nat))
    BY <1>1, WFMin
  <1>3. \A y \in T : ~ (y < x)
    BY <1>2 DEF OpToRel
  <1> QED
    BY <1>3

LEMMA Induction == ASSUME NEW T, 0 \in T, \A n \in Nat : n \in T => n + 1 \in T PROVE Nat \subseteq T
  <1> SUFFICES ASSUME NEW m \in Nat, m \notin T PROVE FALSE
    OBVIOUS
  <1>1. PICK x \in Nat \ T : \A y \in Nat \ T : x <= y
    BY Least
  <1>2. x # 0
    BY <1>1
  <1>3. x - 1 \in Nat /\ x - 1 \in T
    BY <1>1, <1>2
  <1> QED
    BY <1>1, <1>3

-----------------------------------------------------------------------------
(* Sums of a function over finite sets, SumFunctionOnSet. *)

Pick(s) == CHOOSE x \in s : TRUE

\* g has the sums of f over the subsets of S with at most n elements.
SmallSets(S, n) == {s \in SUBSET S : Cardinality(s) <= n}

AreSums(g, f, R) == g = [s \in R |-> IF s = {} THEN 0 ELSE f[Pick(s)] + g[s \ {Pick(s)}]]

LEMMA SmallerSet ==
    ASSUME NEW S, IsFiniteSet(S), NEW n \in Nat, NEW s \in SmallSets(S, n + 1), s # {}
    PROVE  Pick(s) \in s /\ s \ {Pick(s)} \in SmallSets(S, n)
  <1>1. Pick(s) \in s
    BY DEF Pick
  <1>2. IsFiniteSet(s) /\ Cardinality(s) \in Nat /\ Cardinality(s) <= n + 1
    BY FS_Subset, FS_CardinalityType DEF SmallSets
  <1>3. Cardinality(s \ {Pick(s)}) = Cardinality(s) - 1
    BY <1>1, <1>2, FS_RemoveElement
  <1> QED
    BY <1>1, <1>2, <1>3 DEF SmallSets

LEMMA SumsOfSmallSets ==
    ASSUME NEW f, NEW S, IsFiniteSet(S), NEW n \in Nat
    PROVE  \E g : AreSums(g, f, SmallSets(S, n))
  <1> DEFINE Up == {k \in Nat : \E g : AreSums(g, f, SmallSets(S, k))}
  <1>1. 0 \in Up
    <2> DEFINE g == [s \in SmallSets(S, 0) |-> 0]
    <2>1. \A s \in SmallSets(S, 0) : s = {}
      <3> SUFFICES ASSUME NEW s \in SmallSets(S, 0) PROVE s = {}
        OBVIOUS
      <3>1. IsFiniteSet(s) /\ Cardinality(s) \in Nat /\ Cardinality(s) <= 0
        BY FS_Subset, FS_CardinalityType DEF SmallSets
      <3> QED
        BY <3>1, FS_EmptySet
    <2>2. AreSums(g, f, SmallSets(S, 0))
      BY <2>1, Zenon DEF AreSums
    <2> QED
      BY <2>2
  <1>2. ASSUME NEW k \in Nat, NEW g, AreSums(g, f, SmallSets(S, k))
        PROVE  \E h : AreSums(h, f, SmallSets(S, k + 1))
    <2> DEFINE F == SmallSets(S, k)
               R == SmallSets(S, k + 1)
               h == [s \in R |-> IF s = {} THEN 0 ELSE f[Pick(s)] + g[s \ {Pick(s)}]]
    <2>1. F \subseteq R
      <3> SUFFICES ASSUME NEW s \in F PROVE s \in R
        OBVIOUS
      <3>1. IsFiniteSet(s) /\ Cardinality(s) \in Nat /\ Cardinality(s) <= k
        BY FS_Subset, FS_CardinalityType DEF SmallSets
      <3> QED
        BY <3>1 DEF SmallSets
    <2>2. \A s \in R : s # {} => s \ {Pick(s)} \in F
      BY SmallerSet
    <2> HIDE DEF F, R
    <2>3. \A s \in F : g[s] = IF s = {} THEN 0 ELSE f[Pick(s)] + g[s \ {Pick(s)}]
      BY <1>2, Zenon DEF AreSums, F
    <2>4. \A s \in F : h[s] = g[s]
      BY <2>1, <2>3, Zenon
    <2>5. \A s \in R : s # {} => g[s \ {Pick(s)}] = h[s \ {Pick(s)}]
      BY <2>2, <2>4, Zenon
    <2>6. h = [s \in R |-> IF s = {} THEN 0 ELSE f[Pick(s)] + h[s \ {Pick(s)}]]
      <3>1. \A s \in R : (IF s = {} THEN 0 ELSE f[Pick(s)] + g[s \ {Pick(s)}])
                            = (IF s = {} THEN 0 ELSE f[Pick(s)] + h[s \ {Pick(s)}])
        <4> HIDE DEF h
        <4> QED
          BY <2>5
      <3> HIDE DEF h
      <3>2. h = [s \in R |-> IF s = {} THEN 0 ELSE f[Pick(s)] + g[s \ {Pick(s)}]]
        BY DEF h
      <3> QED
        BY <3>1, <3>2, Zenon
    <2> HIDE DEF h
    <2> QED
      BY <2>6, Zenon DEF AreSums, R
  <1>3. Nat \subseteq Up
    <2>1. \A k \in Nat : k \in Up => k + 1 \in Up
      BY <1>2
    <2> HIDE DEF Up
    <2> QED
      BY <1>1, <2>1, Induction
  <1> QED
    BY <1>3

SumsOfAll(g, f, S) == AreSums(g, f, SUBSET S)

\* The sum of a finite set is the value of one element and the sum of the others.
LEMMA SumOf ==
    ASSUME NEW f, NEW S, IsFiniteSet(S)
    PROVE  \E g : /\ SumsOfAll(g, f, S)
                  /\ SumFunctionOnSet(f, S) = g[S]
  <1>1. Cardinality(S) \in Nat /\ \A s \in SUBSET S : Cardinality(s) <= Cardinality(S)
    BY FS_CardinalityType, FS_Subset
  <1>2. SmallSets(S, Cardinality(S)) = SUBSET S
    BY <1>1 DEF SmallSets
  <1>3. \E g : SumsOfAll(g, f, S)
    BY <1>1, <1>2, SumsOfSmallSets DEF SumsOfAll
  <1> DEFINE iter == CHOOSE g : g = [s \in SUBSET S |->
                         IF s = {} THEN 0 ELSE f[Pick(s)] + g[s \ {Pick(s)}]]
  <1>4. SumsOfAll(iter, f, S)
    BY <1>3, Zenon DEF SumsOfAll, AreSums
  <1>5. SumFunctionOnSet(f, S) = iter[S]
    BY DEF SumFunctionOnSet, FoldFunctionOnSet, MapThenFoldSet, Pick
  <1> QED
    BY <1>4, <1>5

LEMMA OneLess ==
    ASSUME NEW s, IsFiniteSet(s), NEW n \in Nat, Cardinality(s) = n + 1
    PROVE  s # {} /\ \A x \in s : Cardinality(s \ {x}) = n
  <1>1. s # {}
    <2>1. Cardinality(s) # 0
      OBVIOUS
    <2> QED
      BY <2>1, FS_EmptySet
  <1>2. ASSUME NEW x \in s PROVE Cardinality(s \ {x}) = n
    <2>1. Cardinality(s \ {x}) = IF x \in s THEN Cardinality(s) - 1 ELSE Cardinality(s)
      BY FS_RemoveElement
    <2> QED
      BY <2>1
  <1> QED
    BY <1>1, <1>2

LEMMA SumsAgree ==
    ASSUME NEW f, NEW S, NEW g, SumsOfAll(g, f, S), NEW s, s \subseteq S, IsFiniteSet(s),
           NEW h, SumsOfAll(h, f, s)
    PROVE  g[s] = h[s]
  <1> DEFINE Same == {n \in Nat : \A t \in SUBSET s : Cardinality(t) = n => g[t] = h[t]}
  <1>1. \A t \in SUBSET s : /\ g[t] = IF t = {} THEN 0 ELSE f[Pick(t)] + g[t \ {Pick(t)}]
                            /\ h[t] = IF t = {} THEN 0 ELSE f[Pick(t)] + h[t \ {Pick(t)}]
    <2>1. \A t \in SUBSET s : t \in SUBSET S
      OBVIOUS
    <2> QED
      BY <2>1, Zenon DEF SumsOfAll, AreSums
  <1>2. \A t \in SUBSET s : IsFiniteSet(t)
    BY FS_Subset
  <1>3. 0 \in Same
    <2>1. \A t \in SUBSET s : Cardinality(t) = 0 => t = {}
      BY <1>2, FS_EmptySet
    <2> QED
      BY <1>1, <2>1
  <1>4. ASSUME NEW n \in Nat, n \in Same PROVE n + 1 \in Same
    <2> SUFFICES ASSUME NEW t \in SUBSET s, Cardinality(t) = n + 1 PROVE g[t] = h[t]
      OBVIOUS
    <2>1. t # {}
      BY <1>2, OneLess
    <2>2. Pick(t) \in t
      BY <2>1 DEF Pick
    <2>3. Cardinality(t \ {Pick(t)}) = n /\ t \ {Pick(t)} \in SUBSET s
      BY <1>2, <2>2, OneLess
    <2>4. g[t \ {Pick(t)}] = h[t \ {Pick(t)}]
      BY <1>4, <2>3
    <2> QED
      BY <1>1, <2>1, <2>4
  <1>5. Nat \subseteq Same
    <2>1. \A n \in Nat : n \in Same => n + 1 \in Same
      BY <1>4
    <2> HIDE DEF Same
    <2> QED
      BY <1>3, <2>1, Induction
  <1> QED
    BY <1>5, FS_CardinalityType

LEMMA PartialSum ==
    ASSUME NEW f, NEW S, IsFiniteSet(S), NEW g, SumsOfAll(g, f, S), NEW s \in SUBSET S
    PROVE  g[s] = SumFunctionOnSet(f, s)
  <1>1. IsFiniteSet(s)
    BY FS_Subset
  <1>2. PICK h : SumsOfAll(h, f, s) /\ SumFunctionOnSet(f, s) = h[s]
    BY <1>1, SumOf
  <1>3. g[s] = h[s]
    BY <1>1, <1>2, SumsAgree
  <1> QED
    BY <1>2, <1>3

LEMMA SumStep ==
    ASSUME NEW f, NEW S, IsFiniteSet(S)
    PROVE  /\ SumFunctionOnSet(f, {}) = 0
           /\ S # {} => /\ Pick(S) \in S
                        /\ SumFunctionOnSet(f, S) =
                              f[Pick(S)] + SumFunctionOnSet(f, S \ {Pick(S)})
  <1>1. SumFunctionOnSet(f, {}) = 0
    <2>1. PICK g : SumsOfAll(g, f, {}) /\ SumFunctionOnSet(f, {}) = g[{}]
      BY SumOf, FS_EmptySet
    <2>2. {} \in SUBSET {}
      OBVIOUS
    <2>3. g[{}] = IF {} = {} THEN 0 ELSE f[Pick({})] + g[{} \ {Pick({})}]
      BY <2>1, <2>2, Zenon DEF SumsOfAll, AreSums
    <2> QED
      BY <2>1, <2>3
  <1>2. ASSUME S # {}
        PROVE  /\ Pick(S) \in S
               /\ SumFunctionOnSet(f, S) = f[Pick(S)] + SumFunctionOnSet(f, S \ {Pick(S)})
    <2>1. Pick(S) \in S
      BY <1>2 DEF Pick
    <2> DEFINE R == S \ {Pick(S)}
    <2>2. IsFiniteSet(R) /\ R \subseteq S
      BY FS_RemoveElement
    <2> HIDE DEF R
    <2>3. PICK g : SumsOfAll(g, f, S)
      BY SumOf
    <2>4. S \in SUBSET S /\ R \in SUBSET S
      BY <2>2
    <2>5. g[S] = SumFunctionOnSet(f, S) /\ g[R] = SumFunctionOnSet(f, R)
      BY <2>3, <2>4, PartialSum
    <2>6. g[S] = f[Pick(S)] + g[R]
      <3>1. S \in SUBSET S
        OBVIOUS
      <3>2. g[S] = IF S = {} THEN 0 ELSE f[Pick(S)] + g[S \ {Pick(S)}]
        BY <2>3, <3>1, Zenon DEF SumsOfAll, AreSums
      <3> QED
        BY <1>2, <3>2 DEF R
    <2> QED
      BY <2>1, <2>5, <2>6 DEF R
  <1> QED
    BY <1>1, <1>2

\* Induction over the subsets of a finite set.
LEMMA FiniteInduction ==
    ASSUME NEW S, IsFiniteSet(S), NEW T, {} \in T,
           \A s \in SUBSET S : \A x \in S \ s : s \in T => s \cup {x} \in T
    PROVE  S \in T
  <1> DEFINE Up == {n \in Nat : \A s \in SUBSET S : Cardinality(s) = n => s \in T}
  <1>1. 0 \in Up
    BY FS_Subset, FS_EmptySet
  <1>2. ASSUME NEW n \in Nat, n \in Up PROVE n + 1 \in Up
    <2> SUFFICES ASSUME NEW s \in SUBSET S, Cardinality(s) = n + 1 PROVE s \in T
      OBVIOUS
    <2>1. IsFiniteSet(s)
      BY FS_Subset
    <2>2. PICK x : x \in s
      BY <2>1, OneLess
    <2>3. Cardinality(s \ {x}) = n
      BY <2>1, <2>2, OneLess
    <2>4. s \ {x} \in T
      BY <1>2, <2>3
    <2>5. (s \ {x}) \cup {x} = s /\ x \in S \ (s \ {x}) /\ s \ {x} \in SUBSET S
      BY <2>2
    <2> QED
      BY <2>4, <2>5
  <1>3. Nat \subseteq Up
    <2>1. \A n \in Nat : n \in Up => n + 1 \in Up
      BY <1>2
    <2> HIDE DEF Up
    <2> QED
      BY <1>1, <2>1, Induction
  <1> QED
    BY <1>3, FS_CardinalityType

LEMMA SumType ==
    ASSUME NEW f, NEW S, IsFiniteSet(S), \A x \in S : f[x] \in Int
    PROVE  SumFunctionOnSet(f, S) \in Int
  <1> DEFINE Up == {n \in Nat : \A s \in SUBSET S : Cardinality(s) = n => SumFunctionOnSet(f, s) \in Int}
  <1>0. \A s \in SUBSET S : IsFiniteSet(s)
    BY FS_Subset
  <1>1. 0 \in Up
    <2>1. \A s \in SUBSET S : Cardinality(s) = 0 => s = {}
      BY <1>0, FS_EmptySet
    <2>2. SumFunctionOnSet(f, {}) = 0
      BY SumStep
    <2> QED
      BY <2>1, <2>2
  <1>2. ASSUME NEW n \in Nat, n \in Up PROVE n + 1 \in Up
    <2> SUFFICES ASSUME NEW s \in SUBSET S, Cardinality(s) = n + 1 PROVE SumFunctionOnSet(f, s) \in Int
      OBVIOUS
    <2>1. s # {}
      BY <1>0, OneLess
    <2>2. Pick(s) \in s /\ SumFunctionOnSet(f, s) = f[Pick(s)] + SumFunctionOnSet(f, s \ {Pick(s)})
      BY <1>0, <2>1, SumStep
    <2>3. Cardinality(s \ {Pick(s)}) = n /\ s \ {Pick(s)} \in SUBSET S
      BY <1>0, <2>2, OneLess
    <2> QED
      BY <1>2, <2>2, <2>3
  <1>3. Nat \subseteq Up
    <2>1. \A n \in Nat : n \in Up => n + 1 \in Up
      BY <1>2
    <2> HIDE DEF Up
    <2> QED
      BY <1>1, <2>1, Induction
  <1> QED
    BY <1>3, FS_CardinalityType

\* The order in which a sum is taken does not matter: any element can be the last.
LEMMA SumRemove ==
    ASSUME NEW f, NEW S, IsFiniteSet(S), \A x \in S : f[x] \in Int, NEW x \in S
    PROVE  SumFunctionOnSet(f, S) = f[x] + SumFunctionOnSet(f, S \ {x})
  <1> DEFINE Sum(s) == SumFunctionOnSet(f, s)
             Up == {n \in Nat : \A s \in SUBSET S : Cardinality(s) = n =>
                                   \A y \in s : Sum(s) = f[y] + Sum(s \ {y})}
  <1>0. \A s \in SUBSET S : IsFiniteSet(s) /\ Sum(s) \in Int
    <2> SUFFICES ASSUME NEW s \in SUBSET S PROVE IsFiniteSet(s) /\ Sum(s) \in Int
      OBVIOUS
    <2>1. IsFiniteSet(s) /\ \A y \in s : f[y] \in Int
      BY FS_Subset
    <2> QED
      BY <2>1, SumType
  <1>1. 0 \in Up
    BY <1>0, FS_EmptySet
  <1>2. ASSUME NEW n \in Nat, n \in Up PROVE n + 1 \in Up
    <2> SUFFICES ASSUME NEW s \in SUBSET S, Cardinality(s) = n + 1, NEW y \in s
                 PROVE  Sum(s) = f[y] + Sum(s \ {y})
      OBVIOUS
    <2> DEFINE p == Pick(s)
    <2>1. p \in s /\ Sum(s) = f[p] + Sum(s \ {p})
      BY <1>0, SumStep
    <2> HIDE DEF p
    <2>2. CASE p = y
      BY <2>1, <2>2
    <2>3. CASE p # y
      <3>1. /\ Cardinality(s \ {p}) = n /\ s \ {p} \in SUBSET S /\ y \in s \ {p}
            /\ Cardinality(s \ {y}) = n /\ s \ {y} \in SUBSET S /\ p \in s \ {y}
        BY <1>0, <2>1, <2>3, OneLess
      <3>2. /\ Sum(s \ {p}) = f[y] + Sum((s \ {p}) \ {y})
            /\ Sum(s \ {y}) = f[p] + Sum((s \ {y}) \ {p})
        BY <1>2, <3>1
      <3>3. (s \ {p}) \ {y} = (s \ {y}) \ {p}
        OBVIOUS
      <3>4. /\ f[p] \in Int /\ f[y] \in Int /\ Sum((s \ {y}) \ {p}) \in Int
        BY <1>0, <2>1
      <3> HIDE DEF Sum
      <3>5. Sum((s \ {p}) \ {y}) = Sum((s \ {y}) \ {p})
        BY <3>3
      <3> QED
        BY <2>1, <3>2, <3>4, <3>5
    <2> QED
      BY <2>2, <2>3
  <1>3. Nat \subseteq Up
    <2>1. \A n \in Nat : n \in Up => n + 1 \in Up
      BY <1>2
    <2> HIDE DEF Up
    <2> QED
      BY <1>1, <2>1, Induction
  <1> QED
    BY <1>3, FS_CardinalityType

LEMMA SumAdd ==
    ASSUME NEW f, NEW S, IsFiniteSet(S), NEW x, x \notin S, \A y \in S \cup {x} : f[y] \in Int
    PROVE  SumFunctionOnSet(f, S \cup {x}) = f[x] + SumFunctionOnSet(f, S)
  <1>1. IsFiniteSet(S \cup {x}) /\ (S \cup {x}) \ {x} = S
    BY FS_AddElement
  <1>2. SumFunctionOnSet(f, S \cup {x}) = f[x] + SumFunctionOnSet(f, (S \cup {x}) \ {x})
    BY <1>1, SumRemove
  <1> QED
    BY <1>1, <1>2

LEMMA SumSame ==
    ASSUME NEW f, NEW g, NEW S, IsFiniteSet(S), \A x \in S : f[x] \in Int /\ f[x] = g[x]
    PROVE  SumFunctionOnSet(f, S) = SumFunctionOnSet(g, S)
  <1> DEFINE Same == {s \in SUBSET S : SumFunctionOnSet(f, s) = SumFunctionOnSet(g, s)}
  <1>1. {} \in Same
    BY SumStep
  <1>2. ASSUME NEW s \in SUBSET S, NEW x \in S \ s, s \in Same PROVE s \cup {x} \in Same
    <2>1. IsFiniteSet(s) /\ x \notin s /\ \A y \in s \cup {x} : f[y] \in Int /\ g[y] \in Int
      BY FS_Subset
    <2>2. /\ SumFunctionOnSet(f, s \cup {x}) = f[x] + SumFunctionOnSet(f, s)
          /\ SumFunctionOnSet(g, s \cup {x}) = g[x] + SumFunctionOnSet(g, s)
      BY <2>1, SumAdd
    <2>3. f[x] = g[x] /\ s \cup {x} \in SUBSET S
      OBVIOUS
    <2> QED
      BY <1>2, <2>2, <2>3
  <1> HIDE DEF Same
  <1>3. S \in Same
    BY <1>1, <1>2, FiniteInduction
  <1> QED
    BY <1>3 DEF Same

LEMMA SumUnion ==
    ASSUME NEW f, NEW A, NEW B, IsFiniteSet(A), IsFiniteSet(B), \A x \in A : x \notin B,
           \A x \in A \cup B : f[x] \in Int
    PROVE  SumFunctionOnSet(f, A \cup B) = SumFunctionOnSet(f, A) + SumFunctionOnSet(f, B)
  <1> DEFINE Sum(s) == SumFunctionOnSet(f, s)
             Adds == {b \in SUBSET B : Sum(A \cup b) = Sum(A) + Sum(b)}
  <1>1. \A b \in SUBSET B : IsFiniteSet(b) /\ IsFiniteSet(A \cup b)
    BY FS_Subset, FS_Union
  <1>2. Sum(A) \in Int /\ \A b \in SUBSET B : Sum(b) \in Int
    <2>1. Sum(A) \in Int
      BY SumType
    <2>2. ASSUME NEW b \in SUBSET B PROVE Sum(b) \in Int
      <3>1. \A x \in b : f[x] \in Int
        OBVIOUS
      <3> QED
        BY <1>1, <3>1, SumType
    <2> QED
      BY <2>1, <2>2
  <1>3. {} \in Adds
    <2>1. A \cup {} = A /\ Sum({}) = 0
      BY SumStep
    <2> QED
      BY <1>2, <2>1
  <1>4. ASSUME NEW b \in SUBSET B, NEW x \in B \ b, b \in Adds PROVE b \cup {x} \in Adds
    <2>1. /\ x \notin b /\ x \notin A \cup b /\ f[x] \in Int
          /\ \A y \in b \cup {x} : f[y] \in Int
          /\ \A y \in (A \cup b) \cup {x} : f[y] \in Int
      OBVIOUS
    <2>2. Sum(b \cup {x}) = f[x] + Sum(b) /\ Sum((A \cup b) \cup {x}) = f[x] + Sum(A \cup b)
      BY <1>1, <2>1, SumAdd
    <2>3. Sum(A \cup (b \cup {x})) = Sum((A \cup b) \cup {x})
      <3>1. A \cup (b \cup {x}) = (A \cup b) \cup {x}
        OBVIOUS
      <3> QED
        BY <3>1, Zenon
    <2>4. Sum(A \cup b) = Sum(A) + Sum(b) /\ Sum(b) \in Int
      BY <1>2, <1>4
    <2> HIDE DEF Sum
    <2>5. Sum(A \cup (b \cup {x})) = Sum(A) + Sum(b \cup {x})
      BY <1>2, <2>1, <2>2, <2>3, <2>4
    <2> QED
      BY <2>5
  <1>5. B \in Adds
    <2> HIDE DEF Adds
    <2> QED
      BY <1>3, <1>4, FiniteInduction
  <1> QED
    BY <1>5

\* A sum over disjoint parts is the sum of their sums.
LEMMA SumParts ==
    ASSUME NEW P, IsFiniteSet(P), \A p \in P : IsFiniteSet(p),
           \A p, r \in P : p # r => \A x \in p : x \notin r,
           NEW f, \A x \in UNION P : f[x] \in Int,
           NEW g, \A p \in P : g[p] = SumFunctionOnSet(f, p)
    PROVE  SumFunctionOnSet(f, UNION P) = SumFunctionOnSet(g, P)
  <1> DEFINE Sum(s) == SumFunctionOnSet(f, s)
             Adds == {r \in SUBSET P : Sum(UNION r) = SumFunctionOnSet(g, r)}
  <1>1. {} \in Adds
    <2>1. UNION {} = {} /\ Sum({}) = 0 /\ SumFunctionOnSet(g, {}) = 0
      BY SumStep
    <2> QED
      BY <2>1
  <1>2. \A p \in P : g[p] \in Int
    <2> SUFFICES ASSUME NEW p \in P PROVE g[p] \in Int
      OBVIOUS
    <2>1. IsFiniteSet(p) /\ \A x \in p : f[x] \in Int
      OBVIOUS
    <2>2. SumFunctionOnSet(f, p) \in Int
      BY <2>1, SumType
    <2> QED
      BY <2>2
  <1>3. ASSUME NEW r \in SUBSET P, NEW p \in P \ r, r \in Adds PROVE r \cup {p} \in Adds
    <2>1. IsFiniteSet(r) /\ IsFiniteSet(UNION r)
      <3>1. IsFiniteSet(r)
        BY FS_Subset
      <3>2. \A t \in r : IsFiniteSet(t)
        OBVIOUS
      <3> QED
        BY <3>1, <3>2, FS_UNION
    <2>2. SumFunctionOnSet(g, r \cup {p}) = g[p] + SumFunctionOnSet(g, r)
      BY <1>2, <2>1, SumAdd
    <2>3. UNION (r \cup {p}) = p \cup UNION r
      OBVIOUS
    <2>4. Sum(p \cup UNION r) = Sum(p) + Sum(UNION r)
      <3>1. \A x \in p : x \notin UNION r
        OBVIOUS
      <3>2. \A x \in p \cup UNION r : f[x] \in Int
        OBVIOUS
      <3> QED
        BY <2>1, <3>1, <3>2, SumUnion
    <2>5. Sum(UNION (r \cup {p})) = Sum(p) + Sum(UNION r)
      BY <2>3, <2>4, Zenon
    <2>6. Sum(UNION r) = SumFunctionOnSet(g, r) /\ Sum(p) = g[p]
      BY <1>3
    <2> HIDE DEF Sum
    <2> QED
      BY <2>2, <2>5, <2>6
  <1> HIDE DEF Adds
  <1>4. P \in Adds
    BY <1>1, <1>3, FiniteInduction
  <1> QED
    BY <1>4 DEF Adds

\* A sum over the images of the elements of a set, no two with the same image.
LEMMA SumImage ==
    ASSUME NEW S, IsFiniteSet(S), NEW h, \A x, y \in S : h[x] = h[y] => x = y,
           NEW f, NEW g, \A x \in S : g[x] \in Int /\ f[h[x]] = g[x]
    PROVE  SumFunctionOnSet(f, {h[x] : x \in S}) = SumFunctionOnSet(g, S)
  <1> DEFINE Image(s) == {h[x] : x \in s}
             Same == {s \in SUBSET S : /\ IsFiniteSet(Image(s))
                                       /\ SumFunctionOnSet(f, Image(s)) = SumFunctionOnSet(g, s)}
  <1>1. {} \in Same
    <2>1. Image({}) = {}
      OBVIOUS
    <2>2. SumFunctionOnSet(f, {}) = 0 /\ SumFunctionOnSet(g, {}) = 0 /\ IsFiniteSet({})
      BY SumStep, FS_EmptySet
    <2> QED
      BY <2>1, <2>2
  <1>2. ASSUME NEW s \in SUBSET S, NEW x \in S \ s, s \in Same PROVE s \cup {x} \in Same
    <2>1. Image(s \cup {x}) = Image(s) \cup {h[x]}
      OBVIOUS
    <2>2. h[x] \notin Image(s)
      OBVIOUS
    <2>3. IsFiniteSet(Image(s)) /\ SumFunctionOnSet(f, Image(s)) = SumFunctionOnSet(g, s)
      BY <1>2
    <2>4. \A y \in Image(s) \cup {h[x]} : f[y] \in Int
      OBVIOUS
    <2>5. IsFiniteSet(s) /\ \A y \in s \cup {x} : g[y] \in Int
      BY FS_Subset
    <2>6. SumFunctionOnSet(g, s \cup {x}) = g[x] + SumFunctionOnSet(g, s)
      BY <2>5, SumAdd
    <2> HIDE DEF Image
    <2>7. /\ SumFunctionOnSet(f, Image(s) \cup {h[x]}) = f[h[x]] + SumFunctionOnSet(f, Image(s))
          /\ IsFiniteSet(Image(s) \cup {h[x]})
      BY <2>2, <2>3, <2>4, SumAdd, FS_AddElement
    <2>8. f[h[x]] = g[x]
      OBVIOUS
    <2> QED
      BY <2>1, <2>3, <2>6, <2>7, <2>8
  <1> HIDE DEF Same
  <1>3. S \in Same
    BY <1>1, <1>2, FiniteInduction
  <1> QED
    BY <1>3 DEF Same

\* A sum over a part is one over the whole in which the others count nothing.
LEMMA SumWhere ==
    ASSUME NEW S, IsFiniteSet(S), NEW R \in SUBSET S,
           NEW f, \A x \in R : f[x] \in Int, NEW g, \A x \in S : g[x] = IF x \in R THEN f[x] ELSE 0
    PROVE  SumFunctionOnSet(f, R) = SumFunctionOnSet(g, S)
  <1>1. IsFiniteSet(R) /\ IsFiniteSet(S \ R) /\ S = R \cup (S \ R) /\ \A x \in R : x \notin S \ R
    BY FS_Subset
  <1>2. \A x \in S : g[x] \in Int
    OBVIOUS
  <1>3. SumFunctionOnSet(g, R \cup (S \ R)) = SumFunctionOnSet(g, R) + SumFunctionOnSet(g, S \ R)
    BY <1>1, <1>2, SumUnion
  <1>4. SumFunctionOnSet(f, R) = SumFunctionOnSet(g, R)
    BY <1>1, SumSame
  <1>5. SumFunctionOnSet(g, S \ R) = 0
    <2> DEFINE Nothing == {s \in SUBSET (S \ R) : SumFunctionOnSet(g, s) = 0}
    <2>1. {} \in Nothing
      BY SumStep
    <2>2. ASSUME NEW s \in SUBSET (S \ R), NEW x \in (S \ R) \ s, s \in Nothing PROVE s \cup {x} \in Nothing
      <3>1. IsFiniteSet(s) /\ x \notin s /\ \A y \in s \cup {x} : g[y] \in Int
        BY <1>1, <1>2, FS_Subset
      <3>2. SumFunctionOnSet(g, s \cup {x}) = g[x] + SumFunctionOnSet(g, s)
        BY <3>1, SumAdd
      <3>3. g[x] = 0 /\ s \cup {x} \in SUBSET (S \ R)
        OBVIOUS
      <3> QED
        BY <2>2, <3>2, <3>3
    <2> HIDE DEF Nothing
    <2>3. S \ R \in Nothing
      BY <1>1, <2>1, <2>2, FiniteInduction
    <2> QED
      BY <2>3 DEF Nothing
  <1>6. SumFunctionOnSet(g, R) \in Int
    BY <1>1, <1>2, SumType
  <1>7. SumFunctionOnSet(g, S) = SumFunctionOnSet(g, R \cup (S \ R))
    <2>1. S = R \cup (S \ R)
      OBVIOUS
    <2> QED
      BY <2>1, Zenon
  <1> QED
    BY <1>3, <1>4, <1>5, <1>6, <1>7

LEMMA CardinalityIsSum ==
    ASSUME NEW S, IsFiniteSet(S), NEW g, \A x \in S : g[x] = 1
    PROVE  SumFunctionOnSet(g, S) = Cardinality(S)
  <1> DEFINE Same == {s \in SUBSET S : SumFunctionOnSet(g, s) = Cardinality(s)}
  <1>1. {} \in Same
    BY SumStep, FS_EmptySet
  <1>2. ASSUME NEW s \in SUBSET S, NEW x \in S \ s, s \in Same PROVE s \cup {x} \in Same
    <2>1. IsFiniteSet(s) /\ x \notin s /\ \A y \in s \cup {x} : g[y] \in Int
      BY FS_Subset
    <2>2. SumFunctionOnSet(g, s \cup {x}) = g[x] + SumFunctionOnSet(g, s)
      BY <2>1, SumAdd
    <2>3. Cardinality(s \cup {x}) = Cardinality(s) + 1 /\ Cardinality(s) \in Nat
      BY <2>1, FS_AddElement, FS_CardinalityType
    <2>4. g[x] = 1 /\ s \cup {x} \in SUBSET S
      OBVIOUS
    <2> QED
      BY <1>2, <2>2, <2>3, <2>4
  <1> HIDE DEF Same
  <1>3. S \in Same
    BY <1>1, <1>2, FiniteInduction
  <1> QED
    BY <1>3 DEF Same

-----------------------------------------------------------------------------
(* Conditions without an OR at their surface: AND joins them as it should. *)

Single(text) == \E a \in Seq(BOOLEAN) : text = <<a>>

LEMMA AtomIsSingle == ASSUME NEW b \in BOOLEAN PROVE Single(Atom(b)) /\ (True(Atom(b)) <=> b)
  <1>1. <<b>> \in Seq(BOOLEAN) /\ DOMAIN <<b>> = {1} /\ <<b>>[1] = b
    OBVIOUS
  <1>2. DOMAIN <<<<b>>>> = {1} /\ <<<<b>>>>[1] = <<b>>
    OBVIOUS
  <1> QED
    BY <1>1, <1>2 DEF Single, Atom, True

LEMMA AloneInSeq == ASSUME NEW x PROVE <<>> \o <<x>> \o <<>> = <<x>>
  <1>1. <<x>> \in Seq({x})
    OBVIOUS
  <1> QED
    BY <1>1, ConcatEmptySeq

LEMMA OfPairOfAlternatives ==
    ASSUME NEW a \in Seq(BOOLEAN), NEW b \in Seq(BOOLEAN)
    PROVE  (\A j \in DOMAIN (a \o b) : (a \o b)[j])
              <=> (\A j \in DOMAIN a : a[j]) /\ (\A j \in DOMAIN b : b[j])
  <1> DEFINE c == a \o b
  <1>1. /\ DOMAIN a = 1 .. Len(a) /\ DOMAIN b = 1 .. Len(b)
        /\ DOMAIN c = 1 .. (Len(a) + Len(b))
        /\ Len(a) \in Nat /\ Len(b) \in Nat
    OBVIOUS
  <1>2. \A j \in 1 .. Len(a) : c[j] = a[j] /\ j \in 1 .. (Len(a) + Len(b))
    OBVIOUS
  <1>3. \A j \in 1 .. Len(b) : c[Len(a) + j] = b[j] /\ Len(a) + j \in 1 .. (Len(a) + Len(b))
    OBVIOUS
  <1>4. ASSUME NEW j \in 1 .. (Len(a) + Len(b))
        PROVE  j \in 1 .. Len(a) \/ \E k \in 1 .. Len(b) : j = Len(a) + k
    <2>1. j \in 1 .. Len(a) \/ (j - Len(a) \in 1 .. Len(b) /\ j = Len(a) + (j - Len(a)))
      BY <1>1
    <2> QED
      BY <2>1
  <1> HIDE DEF c
  <1>5. (\A j \in DOMAIN c : c[j]) <=> (\A j \in DOMAIN a : a[j]) /\ (\A j \in DOMAIN b : b[j])
    BY <1>1, <1>2, <1>3, <1>4, Zenon
  <1> QED
    BY <1>5, Zenon DEF c

LEMMA AndOfSingles ==
    ASSUME NEW s, NEW t, Single(s), Single(t)
    PROVE  Single(And(s, t)) /\ (True(And(s, t)) <=> True(s) /\ True(t))
  <1>1. PICK a \in Seq(BOOLEAN) : s = <<a>>
    BY DEF Single
  <1>2. PICK b \in Seq(BOOLEAN) : t = <<b>>
    BY DEF Single
  <1>3. Front(s) = <<>> /\ Last(s) = a
    BY <1>1 DEF Front, Last
  <1>4. Head(t) = b /\ Tail(t) = <<>>
    BY <1>2
  <1>5. And(s, t) = <<a \o b>>
    <2>1. And(s, t) = <<>> \o <<a \o b>> \o <<>>
      BY <1>3, <1>4, Zenon DEF And
    <2> QED
      BY <2>1, AloneInSeq
  <1>6. a \o b \in Seq(BOOLEAN)
    OBVIOUS
  <1>7. ASSUME NEW c PROVE True(<<c>>) <=> \A j \in DOMAIN c : c[j]
    BY DEF True
  <1>8. Single(And(s, t))
    BY <1>5, <1>6, Zenon DEF Single
  <1>9. True(s) <=> \A j \in DOMAIN a : a[j]
    BY <1>1, <1>7, Zenon
  <1>10. True(t) <=> \A j \in DOMAIN b : b[j]
    BY <1>2, <1>7, Zenon
  <1>11. True(And(s, t)) <=> \A j \in DOMAIN (a \o b) : (a \o b)[j]
    BY <1>5, <1>7, Zenon
  <1>12. (\A j \in DOMAIN (a \o b) : (a \o b)[j])
            <=> (\A j \in DOMAIN a : a[j]) /\ (\A j \in DOMAIN b : b[j])
    BY OfPairOfAlternatives, Zenon
  <1> QED
    BY <1>8, <1>9, <1>10, <1>11, <1>12, Zenon

\* What AndJoin computes on the way.
IsJoined(j, texts, n) ==
    j = [k \in 0 .. n |-> IF k = 0 THEN Atom(TRUE) ELSE And(j[k - 1], texts[k])]

LEMMA JoinedStart == ASSUME NEW texts PROVE \E j : IsJoined(j, texts, 0)
  <1> DEFINE j == [k \in 0 .. 0 |-> Atom(TRUE)]
  <1>1. \A k \in 0 .. 0 : k = 0
    OBVIOUS
  <1>2. IsJoined(j, texts, 0)
    BY <1>1, Zenon DEF IsJoined
  <1> QED
    BY <1>2, Zenon

LEMMA JoinedStep ==
    ASSUME NEW texts, NEW n \in Nat, NEW j, IsJoined(j, texts, n)
    PROVE  \E l : IsJoined(l, texts, n + 1)
  <1> DEFINE l == [k \in 0 .. (n + 1) |-> IF k = n + 1 THEN And(j[n], texts[n + 1]) ELSE j[k]]
  <1>1. \A k \in 0 .. n : j[k] = IF k = 0 THEN Atom(TRUE) ELSE And(j[k - 1], texts[k])
    BY Zenon DEF IsJoined
  <1>2. \A k \in 0 .. n : k \in 0 .. (n + 1) /\ k # n + 1
    OBVIOUS
  <1>3. \A k \in 0 .. n : l[k] = j[k]
    BY <1>2, Zenon
  <1>4. n + 1 \in 0 .. (n + 1) /\ n \in 0 .. n /\ (n + 1) - 1 = n /\ n + 1 # 0
    OBVIOUS
  <1>5. l[n + 1] = And(j[n], texts[n + 1])
    BY <1>4, Zenon
  <1>6. \A k \in 0 .. (n + 1) : k = n + 1 \/ (k \in 0 .. n /\ (k # 0 => k - 1 \in 0 .. n))
    OBVIOUS
  <1> HIDE DEF l
  <1>7. \A k \in 0 .. (n + 1) : l[k] = IF k = 0 THEN Atom(TRUE) ELSE And(l[k - 1], texts[k])
    <2> TAKE k \in 0 .. (n + 1)
    <2>1. CASE k = n + 1
      BY <1>3, <1>4, <1>5, <2>1, Zenon
    <2>2. CASE k \in 0 .. n /\ (k # 0 => k - 1 \in 0 .. n)
      BY <1>1, <1>3, <2>2, Zenon
    <2> QED
      BY <1>6, <2>1, <2>2
  <1>8. l = [k \in 0 .. (n + 1) |-> l[k]]
    BY Zenon DEF l
  <1>9. IsJoined(l, texts, n + 1)
    BY <1>7, <1>8, Zenon DEF IsJoined
  <1> QED
    BY <1>9, Zenon

LEMMA AndJoinOfSingles ==
    ASSUME NEW texts, Len(texts) \in Nat, \A i \in 1 .. Len(texts) : Single(texts[i])
    PROVE  /\ Single(AndJoin(texts))
           /\ True(AndJoin(texts)) <=> \A i \in 1 .. Len(texts) : True(texts[i])
  <1> DEFINE N  == Len(texts)
             Up == {n \in Nat : \E j : IsJoined(j, texts, n)}
  <1>1. \E j : IsJoined(j, texts, N)
    <2>1. 0 \in Up
      BY JoinedStart
    <2>2. \A n \in Nat : n \in Up => n + 1 \in Up
      BY JoinedStep
    <2>3. Nat \subseteq Up
      <3> HIDE DEF Up
      <3> QED
        BY <2>1, <2>2, Induction
    <2> QED
      BY <2>3
  <1> DEFINE joined == CHOOSE j : IsJoined(j, texts, N)
  <1>2. IsJoined(joined, texts, N)
    BY <1>1, Zenon
  <1>3. AndJoin(texts) = joined[N]
    BY Zenon DEF AndJoin, IsJoined
  <1> HIDE DEF joined
  <1>4. \A k \in 0 .. N : joined[k] = IF k = 0 THEN Atom(TRUE) ELSE And(joined[k - 1], texts[k])
    BY <1>2, Zenon DEF IsJoined
  <1> DEFINE AllTrue(n) == \A i \in 1 .. n : True(texts[i])
             Right == {n \in Nat : n <= N => Single(joined[n]) /\ (True(joined[n]) <=> AllTrue(n))}
  <1>5. 0 \in Right
    <2>1. joined[0] = Atom(TRUE)
      <3>1. 0 \in 0 .. N
        OBVIOUS
      <3> QED
        BY <1>4, <3>1, Zenon
    <2>2. AllTrue(0)
      OBVIOUS
    <2>3. Single(Atom(TRUE)) /\ True(Atom(TRUE))
      BY AtomIsSingle
    <2> QED
      BY <2>1, <2>2, <2>3, Zenon
  <1>6. ASSUME NEW n \in Nat, n \in Right PROVE n + 1 \in Right
    <2> HIDE DEF AllTrue
    <2> SUFFICES ASSUME n + 1 <= N
                 PROVE  Single(joined[n + 1]) /\ (True(joined[n + 1]) <=> AllTrue(n + 1))
      OBVIOUS
    <2>1. n <= N /\ n + 1 \in 1 .. N /\ n + 1 \in 0 .. N /\ n + 1 # 0 /\ (n + 1) - 1 = n
      OBVIOUS
    <2>2. Single(joined[n]) /\ Single(texts[n + 1]) /\ (True(joined[n]) <=> AllTrue(n))
      BY <1>6, <2>1
    <2>3. joined[n + 1] = And(joined[n], texts[n + 1])
      BY <1>4, <2>1, Zenon
    <2>4. Single(joined[n + 1]) /\ (True(joined[n + 1]) <=> True(joined[n]) /\ True(texts[n + 1]))
      BY <2>2, <2>3, AndOfSingles
    <2>5. AllTrue(n + 1) <=> AllTrue(n) /\ True(texts[n + 1])
      BY DEF AllTrue
    <2> QED
      BY <2>2, <2>4, <2>5
  <1>7. N \in Right
    <2> HIDE DEF Right
    <2> QED
      BY <1>5, <1>6, Induction
  <1> QED
    BY <1>3, <1>7

-----------------------------------------------------------------------------
(* What is sent. *)

LEMMA IsAQuery == ASSUME NEW q \in Queried PROVE IsQuery(q)
  BY QueriedAssumption

\* What is listed is named by a pair.
LEMMA PathsOf ==
    ASSUME NEW q, IsQuery(q)
    PROVE  /\ \A p \in ToSet(q.measures) \cup ToSet(q.dimensions) \cup TimePaths(q) : p = <<p[1], p[2]>>
           /\ \A p \in Grouped(q) : p \in ToSet(q.dimensions) /\ p \notin TimePaths(q)
           /\ \A i \in DOMAIN q.timeDimensions : q.timeDimensions[i].path \in TimePaths(q)
           /\ Buckets(q) \subseteq DOMAIN q.timeDimensions
           /\ DOMAIN q.timeDimensions = 1 .. Len(q.timeDimensions) /\ Len(q.timeDimensions) \in Nat
  BY DEF IsQuery, Grouped, TimePaths, Buckets, IsList

LEMMA MaxIs ==
    ASSUME NEW n \in Nat, NEW S \in SUBSET (1 .. n), S # {}
    PROVE  Max(S) \in S /\ \A x \in S : x <= Max(S)
  <1> DEFINE T == {n - x : x \in S}
  <1>1. T \in SUBSET Nat /\ T # {}
    <2>1. \A x \in S : x \in 1 .. n
      OBVIOUS
    <2>2. \A x \in 1 .. n : n - x \in Nat
      OBVIOUS
    <2>3. \A x \in S : n - x \in Nat /\ n - x \in T
      BY <2>1, <2>2
    <2> HIDE DEF T
    <2>4. T # {}
      BY <2>3
    <2>5. T \subseteq Nat
      BY <2>3 DEF T
    <2> QED
      BY <2>4, <2>5
  <1>2. PICK t \in T : \A y \in T : t <= y
    BY <1>1, Least
  <1>3. PICK x \in S : t = n - x
    BY <1>2
  <1>4. ASSUME NEW y \in S PROVE x >= y
    <2>1. n - y \in T
      OBVIOUS
    <2>2. x \in 1 .. n /\ y \in 1 .. n
      OBVIOUS
    <2> QED
      BY <1>2, <1>3, <2>1, <2>2
  <1>5. \E z \in S : \A y \in S : z >= y
    BY <1>4
  <1> HIDE DEF T
  <1>6. Max(S) \in S /\ \A y \in S : Max(S) >= y
    BY <1>5, Zenon DEF Max
  <1>7. \A y \in S : y \in Int
    OBVIOUS
  <1> QED
    BY <1>6, <1>7

\* The column that a path names, when it names one.
BucketsOf(q, path) == {i \in Buckets(q) : q.timeDimensions[i].path = path}

LEMMA BucketNamed ==
    ASSUME NEW q, IsQuery(q), NEW i \in DOMAIN q.timeDimensions
    PROVE  NameOf(Bucket(q.timeDimensions[i])) = q.timeDimensions[i].path
  <1> DEFINE path == q.timeDimensions[i].path
             column == Bucket(q.timeDimensions[i])
  <1>1. path = <<path[1], path[2]>>
    BY PathsOf
  <1>2. column[1] = path[1] /\ column[2] = path[2]
    BY DEF Bucket
  <1> QED
    BY <1>1, <1>2, Zenon DEF NameOf

LEMMA ColumnIs ==
    ASSUME NEW q, IsQuery(q), NEW path
    PROVE  \/ /\ BucketsOf(q, path) = {} /\ ColumnOf(q, path) = path
           \/ \E i \in BucketsOf(q, path) :
                 /\ \A j \in BucketsOf(q, path) : j <= i
                 /\ ColumnOf(q, path) = Bucket(q.timeDimensions[i])
                 /\ ColumnOf(q, path) \in Outputs(q) /\ NameOf(ColumnOf(q, path)) = path
  <1>1. CASE BucketsOf(q, path) = {}
    BY <1>1 DEF ColumnOf, BucketsOf
  <1>2. CASE BucketsOf(q, path) # {}
    <2> DEFINE i == Max(BucketsOf(q, path))
    <2>1. BucketsOf(q, path) \in SUBSET (1 .. Len(q.timeDimensions)) /\ Len(q.timeDimensions) \in Nat
      BY PathsOf DEF BucketsOf
    <2>2. i \in BucketsOf(q, path) /\ \A j \in BucketsOf(q, path) : j <= i
      BY <1>2, <2>1, MaxIs
    <2>3. ColumnOf(q, path) = Bucket(q.timeDimensions[i])
      BY <1>2 DEF ColumnOf, BucketsOf
    <2> HIDE DEF i
    <2>4. i \in Buckets(q) /\ i \in DOMAIN q.timeDimensions /\ q.timeDimensions[i].path = path
      BY <2>2, PathsOf DEF BucketsOf
    <2>5. Bucket(q.timeDimensions[i]) \in Outputs(q)
      BY <2>4 DEF Outputs
    <2> QED
      BY <2>2, <2>3, <2>4, <2>5, BucketNamed
  <1> QED
    BY <1>1, <1>2

\* A column is a path, which no bucket has, or a bucket.
LEMMA ColumnsAre ==
    ASSUME NEW q, IsQuery(q), NEW column \in Outputs(q)
    PROVE  \/ /\ column = <<column[1], column[2]>> /\ column \notin TimePaths(q)
              /\ column \in ToSet(q.measures) \cup Grouped(q)
              /\ NameOf(column) = column /\ Len(column) = 2
           \/ \E i \in Buckets(q) : /\ column = Bucket(q.timeDimensions[i]) /\ Len(column) = 3
                                    /\ NameOf(column) = q.timeDimensions[i].path
  <1>1. CASE column \in ToSet(q.measures) \cup Grouped(q)
    <2>1. column = <<column[1], column[2]>>
      BY <1>1, PathsOf
    <2>2. column \notin TimePaths(q)
      BY <1>1 DEF IsQuery, Grouped
    <2>3. Len(<<column[1], column[2]>>) = 2
      OBVIOUS
    <2> QED
      BY <1>1, <2>1, <2>2, <2>3, Zenon DEF NameOf
  <1>2. CASE \E i \in Buckets(q) : column = Bucket(q.timeDimensions[i])
    <2>1. PICK i \in Buckets(q) : column = Bucket(q.timeDimensions[i])
      BY <1>2
    <2>2. i \in DOMAIN q.timeDimensions
      BY PathsOf
    <2>3. Len(column) = 3
      BY <2>1 DEF Bucket
    <2> QED
      BY <2>1, <2>2, <2>3, BucketNamed
  <1> QED
    BY <1>1, <1>2 DEF Outputs

LEMMA ColumnNamed ==
    ASSUME NEW q, IsQuery(q), NEW column \in Outputs(q)
    PROVE  /\ ColumnOf(q, NameOf(column)) \in Outputs(q)
           /\ NameOf(ColumnOf(q, NameOf(column))) = NameOf(column)
  <1> DEFINE path == NameOf(column)
  <1>1. CASE BucketsOf(q, path) = {} /\ ColumnOf(q, path) = path
    <2>1. \A i \in Buckets(q) : q.timeDimensions[i].path # path
      BY <1>1 DEF BucketsOf
    <2>2. path = column
      BY <2>1, ColumnsAre
    <2> QED
      BY <1>1, <2>2
  <1> HIDE DEF path
  <1> QED
    BY <1>1, ColumnIs DEF path

\* The rows that are sent are the rows of the answer, masked.
THEOREM Sent == Spec => []SentAsAnswered
  <1>1. SentAsAnswered
    <2> SUFFICES ASSUME NEW q \in Queried, NEW ctx \in Contexts,
                        AskedOfBase(q, ctx), NEW row \in Rows(q, ctx, source)
                 PROVE  LET sent == SentRow(q, ctx, row)
                        IN  /\ \A key \in DOMAIN sent :
                                  \E column \in Outputs(q) :
                                      /\ NameOf(column) = NameOf(key) /\ (Len(key) = 3 => column = key)
                                      /\ sent[key] = ApplyMask(row[column], MaskFor(NameOf(key), ctx))
                            /\ Annotated(q) \ {p \in TimePaths(q) : ColumnOf(q, p) = p} \subseteq DOMAIN sent
      BY DEF SentAsAnswered
    <2> DEFINE names == {NameOf(column) : column \in Outputs(q)}
               masked == MaskRow(q, ctx, Fetched(q, row))
               buckets == {LastOf(q, path) : path \in names \cap TimePaths(q)}
               twice == {Bucket(td) : td \in {t \in buckets : t.granularity # None}}
               sent == SentRow(q, ctx, row)
    <2>1. IsQuery(q)
      BY IsAQuery
    <2>2. /\ DOMAIN masked = names
          /\ \A p \in names : masked[p] = ApplyMask(row[ColumnOf(q, p)], MaskFor(p, ctx))
      BY DEF MaskRow, Fetched
    <2> HIDE DEF masked
    <2>3. sent = [key \in names \cup twice |-> masked[NameOf(key)]]
      BY <2>2, Zenon DEF SentRow, PresentRow, masked
    <2> HIDE DEF sent
    <2>4. \A p \in names : /\ NameOf(p) = p /\ Len(p) = 2
                           /\ ColumnOf(q, p) \in Outputs(q) /\ NameOf(ColumnOf(q, p)) = p
      <3> TAKE p \in names
      <3>1. PICK column \in Outputs(q) : p = NameOf(column)
        OBVIOUS
      <3>2. NameOf(NameOf(column)) = NameOf(column) /\ Len(NameOf(column)) = 2
        BY DEF NameOf
      <3> QED
        BY <2>1, <3>1, <3>2, ColumnNamed
    <2>5. ASSUME NEW key \in twice
          PROVE  NameOf(key) \in names /\ ColumnOf(q, NameOf(key)) = key
      <3>1. PICK path \in names \cap TimePaths(q) :
               LastOf(q, path).granularity # None /\ key = Bucket(LastOf(q, path))
        OBVIOUS
      <3> DEFINE all == {i \in DOMAIN q.timeDimensions : q.timeDimensions[i].path = path}
                 last == Max(all)
      <3>2. all \in SUBSET (1 .. Len(q.timeDimensions)) /\ all # {} /\ Len(q.timeDimensions) \in Nat
        BY <2>1, PathsOf DEF TimePaths
      <3>3. last \in all /\ \A i \in all : i <= last
        BY <3>2, MaxIs
      <3>4. LastOf(q, path) = q.timeDimensions[last]
        BY DEF LastOf
      <3> HIDE DEF last
      <3>5. last \in BucketsOf(q, path)
        BY <3>1, <3>3, <3>4 DEF BucketsOf, Buckets
      <3>6. BucketsOf(q, path) \subseteq all
        BY DEF BucketsOf, Buckets
      <3>7. PICK i \in BucketsOf(q, path) :
               (\A j \in BucketsOf(q, path) : j <= i) /\ ColumnOf(q, path) = Bucket(q.timeDimensions[i])
        BY <2>1, <3>5, ColumnIs
      <3>8. i = last
        BY <3>2, <3>3, <3>5, <3>6, <3>7
      <3>9. NameOf(key) = path
        BY <2>1, <3>1, <3>3, <3>4, BucketNamed
      <3> QED
        BY <3>1, <3>4, <3>7, <3>8, <3>9
    <2>6. ASSUME NEW key \in names \cup twice
          PROVE  \E column \in Outputs(q) :
                    /\ NameOf(column) = NameOf(key) /\ (Len(key) = 3 => column = key)
                    /\ sent[key] = ApplyMask(row[column], MaskFor(NameOf(key), ctx))
      <3>1. NameOf(key) \in names
        BY <2>4, <2>5
      <3>2. sent[key] = ApplyMask(row[ColumnOf(q, NameOf(key))], MaskFor(NameOf(key), ctx))
        BY <2>2, <2>3, <3>1
      <3>3. Len(key) = 3 => ColumnOf(q, NameOf(key)) = key
        BY <2>4, <2>5
      <3> QED
        BY <2>4, <3>1, <3>2, <3>3
    <2>7. Annotated(q) \ {p \in TimePaths(q) : ColumnOf(q, p) = p} \subseteq names
      <3>1. ASSUME NEW p \in ToSet(q.measures) \cup Grouped(q) PROVE p \in names
        <4>1. p = <<p[1], p[2]>> /\ p \in Outputs(q)
          BY <2>1, PathsOf DEF Outputs
        <4> QED
          BY <4>1, Zenon DEF NameOf
      <3>2. ASSUME NEW p \in TimePaths(q), ColumnOf(q, p) # p PROVE p \in names
        BY <2>1, <3>2, ColumnIs
      <3> QED
        BY <3>1, <3>2 DEF Annotated, Grouped
    <2> QED
      BY <2>3, <2>6, <2>7 DEF sent
  <1> QED
    BY <1>1, PTL

-----------------------------------------------------------------------------
(* Which cubes a query joins. *)

LEMMA ListOf == ASSUME NEW s, IsList(s)
                PROVE  Len(s) \in Nat /\ DOMAIN s = 1 .. Len(s) /\ ToSet(s) = {s[i] : i \in DOMAIN s}
  BY DEF IsList, ToSet

LEMMA RuledBy ==
    ASSUME NEW q, NEW c
    PROVE  c \in RuledCubes(q) <=>
              \E p : /\ p[1] = c
                    /\ \/ \E m \in ToSet(q.measures) \cup Selected(q) : p \in Resolved(m)
                       \/ p \in Grouped(q) \cup TimePaths(q)
  BY DEF RuledCubes

LEMMA RuledAreJoined == ASSUME NEW q PROVE RuledCubes(q) \subseteq JoinedCubes(q)
  BY DEF JoinedCubes

LEMMA JoinedAreCubes ==
    ASSUME NEW q, NEW ctx, Renders(q, ctx)
    PROVE  JoinedCubes(q) \subseteq DOMAIN registry
  <1> DEFINE named == ToSet(q.measures) \cup Grouped(q) \cup TimePaths(q) \cup FilterPaths(q.filters)
  <1>1. \A p \in named \cup ToSet(q.segments) : p[1] \in DOMAIN registry
    BY DEF Renders, Resolves
  <1>2. \A m \in named \cup Selected(q) : \A p \in Resolved(m) : p[1] \in DOMAIN registry
    BY DEF Renders, Resolves
  <1>3. RuledCubes(q) \subseteq DOMAIN registry
    BY <1>1, <1>2, RuledBy
  <1>4. \A p \in ToSet(q.segments) \cup UNION {Resolved(f) : f \in FilterPaths(q.filters)} :
           p[1] \in DOMAIN registry
    BY <1>1, <1>2
  <1> HIDE DEF named
  <1> QED
    BY <1>3, <1>4 DEF JoinedCubes

LEMMA SelfResolved == ASSUME NEW p PROVE p \in Resolved(p)
  BY DEF Resolved

LEMMA PrimaryIsRuled ==
    ASSUME NEW q, IsQuery(q), Outputs(q) # {}
    PROVE  Primary(q) \in RuledCubes(q)
  <1>1. CASE q.measures # <<>>
    <2>1. q.measures[1] \in ToSet(q.measures)
      <3>1. IsList(q.measures)
        BY DEF IsQuery
      <3>2. 1 \in DOMAIN q.measures
        BY <1>1, <3>1 DEF IsList
      <3> QED
        BY <3>1, <3>2, ListOf
    <2>2. q.measures[1] \in Resolved(q.measures[1])
      BY SelfResolved
    <2>3. Primary(q) = q.measures[1][1]
      BY <1>1 DEF Primary
    <2> QED
      BY <2>1, <2>2, <2>3, RuledBy
  <1>2. CASE q.measures = <<>> /\ Grouped(q) # {}
    <2> DEFINE IsFirst(i) == /\ q.dimensions[i] \in Grouped(q)
                             /\ \A j \in 1 .. (i - 1) : q.dimensions[j] \notin Grouped(q)
               first == CHOOSE i \in DOMAIN q.dimensions : IsFirst(i)
               among == {i \in DOMAIN q.dimensions : q.dimensions[i] \in Grouped(q)}
    <2>1. /\ Len(q.dimensions) \in Nat /\ DOMAIN q.dimensions = 1 .. Len(q.dimensions)
          /\ ToSet(q.dimensions) = {q.dimensions[i] : i \in DOMAIN q.dimensions}
      BY ListOf DEF IsQuery
    <2>2. among # {} /\ among \in SUBSET Nat
      BY <1>2, <2>1 DEF Grouped
    <2>3. PICK i \in among : \A j \in among : i <= j
      BY <2>2, Least
    <2>4. IsFirst(i) /\ i \in DOMAIN q.dimensions
      BY <2>1, <2>3
    <2>5. IsFirst(first)
      BY <2>4, Zenon
    <2>6. Primary(q) = q.dimensions[first][1]
      BY <1>2 DEF Primary
    <2> QED
      BY <2>5, <2>6, RuledBy
  <1>3. CASE q.measures = <<>> /\ Grouped(q) = {}
    <2>1. ToSet(q.measures) = {}
      BY <1>3 DEF ToSet
    <2>2. \E i \in DOMAIN q.timeDimensions : TRUE
      BY <1>3, <2>1 DEF Outputs, Buckets
    <2>3. 1 \in DOMAIN q.timeDimensions
      BY <2>2, ListOf DEF IsQuery
    <2>4. q.timeDimensions[1].path \in TimePaths(q)
      BY <2>3 DEF TimePaths
    <2>5. Primary(q) = q.timeDimensions[1].path[1]
      BY <1>3 DEF Primary
    <2> QED
      BY <2>4, <2>5, RuledBy
  <1> QED
    BY <1>1, <1>2, <1>3

LEMMA PrimaryIsJoined ==
    ASSUME NEW q, IsQuery(q), NEW ctx, Asked(q, ctx)
    PROVE  Primary(q) \in JoinedCubes(q)
  BY PrimaryIsRuled, RuledAreJoined DEF Asked, Runs

-----------------------------------------------------------------------------
(* Filters. *)

\* The levels of a filter, up to the n-th.
AreLevels(b, f, n) ==
    b = [k \in 0 .. n |-> IF k = 0 THEN {f}
                          ELSE UNION {ToSet(Children(g)) : g \in {h \in b[k - 1] : Composite(h)}}]

LEMMA LevelsStart == ASSUME NEW f PROVE \E b : AreLevels(b, f, 0)
  <1> DEFINE b == [k \in 0 .. 0 |-> {f}]
  <1>1. \A k \in 0 .. 0 : k = 0
    OBVIOUS
  <1>2. AreLevels(b, f, 0)
    BY <1>1, Zenon DEF AreLevels
  <1> QED
    BY <1>2, Zenon

LEMMA LevelsStep ==
    ASSUME NEW f, NEW n \in Nat, NEW b, AreLevels(b, f, n)
    PROVE  \E l : AreLevels(l, f, n + 1)
  <1> DEFINE Below(S) == UNION {ToSet(Children(g)) : g \in {h \in S : Composite(h)}}
             l == [k \in 0 .. (n + 1) |-> IF k = n + 1 THEN Below(b[n]) ELSE b[k]]
  <1>1. \A k \in 0 .. n : b[k] = IF k = 0 THEN {f} ELSE Below(b[k - 1])
    BY Zenon DEF AreLevels
  <1>2. \A k \in 0 .. n : k \in 0 .. (n + 1) /\ k # n + 1
    OBVIOUS
  <1>3. \A k \in 0 .. n : l[k] = b[k]
    BY <1>2, Zenon
  <1>4. n + 1 \in 0 .. (n + 1) /\ n \in 0 .. n /\ (n + 1) - 1 = n /\ n + 1 # 0
    OBVIOUS
  <1>5. l[n + 1] = Below(b[n])
    BY <1>4, Zenon
  <1>6. \A k \in 0 .. (n + 1) : k = n + 1 \/ (k \in 0 .. n /\ (k # 0 => k - 1 \in 0 .. n))
    OBVIOUS
  <1> HIDE DEF l, Below
  <1>7. \A k \in 0 .. (n + 1) : l[k] = IF k = 0 THEN {f} ELSE Below(l[k - 1])
    <2> TAKE k \in 0 .. (n + 1)
    <2>1. CASE k = n + 1
      BY <1>3, <1>4, <1>5, <2>1, Zenon
    <2>2. CASE k \in 0 .. n /\ (k # 0 => k - 1 \in 0 .. n)
      BY <1>1, <1>3, <2>2, Zenon
    <2> QED
      BY <1>6, <2>1, <2>2
  <1>8. l = [k \in 0 .. (n + 1) |-> l[k]]
    BY Zenon DEF l
  <1>9. AreLevels(l, f, n + 1)
    BY <1>7, <1>8, Zenon DEF AreLevels, Below
  <1> QED
    BY <1>9, Zenon

\* A filter is the first of its nodes.
LEMMA NodeOfItself == ASSUME NEW f PROVE f \in Nodes(f)
  <1> DEFINE Up == {n \in Nat : \E b : AreLevels(b, f, n)}
  <1>1. \E b : AreLevels(b, f, MaxNesting)
    <2>1. 0 \in Up
      BY LevelsStart
    <2>2. \A n \in Nat : n \in Up => n + 1 \in Up
      BY LevelsStep
    <2>3. Nat \subseteq Up
      <3> HIDE DEF Up
      <3> QED
        BY <2>1, <2>2, Induction
    <2> QED
      BY <2>3, NestingAssumption
  <1> DEFINE b == CHOOSE l : AreLevels(l, f, MaxNesting)
  <1>2. AreLevels(b, f, MaxNesting)
    BY <1>1, Zenon
  <1>3. Nodes(f) = UNION {b[n] : n \in 0 .. MaxNesting}
    BY Zenon DEF Nodes, AreLevels
  <1> HIDE DEF b
  <1>4. 0 \in 0 .. MaxNesting
    BY NestingAssumption
  <1>5. b[0] = {f}
    BY <1>2, <1>4, Zenon DEF AreLevels
  <1> QED
    BY <1>3, <1>4, <1>5

LEMMA OperatorIsSingle ==
    ASSUME NEW op \in Operators, op # "notInDateRange", NEW v, NEW values
    PROVE  Single(OperatorText(op, v, values))
  <1> DEFINE known == v # None
             range == ResolveDateRange(values[1], now)
  <1>1. \A b \in BOOLEAN : Single(Atom(b))
    BY AtomIsSingle
  <1>2. CASE op = "inDateRange"
    <2>1. OperatorText(op, v, values) = DateText(op, known, v, range)
      BY <1>2 DEF OperatorText, DateOperators
    <2> HIDE DEF known, range
    <2> DEFINE x == known /\ v >= range[1]
               y == known /\ v <= range[2]
    <2>2. DateText(op, known, v, range) = <<<<x, y>>>>
      BY <1>2 DEF DateText
    <2>3. x \in BOOLEAN /\ y \in BOOLEAN
      OBVIOUS
    <2> HIDE DEF x, y
    <2>4. <<x, y>> \in Seq(BOOLEAN)
      BY <2>3
    <2> QED
      BY <2>1, <2>2, <2>4 DEF Single
  <1>3. CASE op = "beforeDate" \/ op = "afterDate"
    <2>1. OperatorText(op, v, values) = DateText(op, known, v, range)
      BY <1>3 DEF OperatorText, DateOperators
    <2> HIDE DEF known, range
    <2>2. \/ DateText(op, known, v, range) = Atom(known /\ v < range[1])
          \/ DateText(op, known, v, range) = Atom(known /\ v > range[1])
      BY <1>3 DEF DateText
    <2> QED
      BY <1>1, <2>1, <2>2
  <1>4. CASE op \notin DateOperators
    <2>1. \E b \in BOOLEAN : OperatorText(op, v, values) = Atom(b)
      BY <1>4 DEF OperatorText, Operators, MeasureFilterOps
    <2> QED
      BY <1>1, <2>1
  <1> QED
    BY <1>2, <1>3, <1>4 DEF Operators, DateOperators

\* A filter of known operators that is not bare may be joined to others by AND.
LEMMA CompiledIsSingle ==
    ASSUME NEW f, ~Bare(f), \A leaf \in Leaves(f) : leaf.operator \in Operators, NEW textOf,
           \A leaf \in Leaves(f) : \E v : textOf[leaf] = OperatorText(leaf.operator, v, leaf.values)
    PROVE  Single(CompileFilter(f, textOf))
  <1>1. CASE Composite(f)
    <2>1. \E texts : CompileFilter(f, textOf) = Composed(f, texts)
      BY <1>1, Zenon DEF CompileFilter
    <2>2. \A texts : \E b \in BOOLEAN : Composed(f, texts) = Atom(b)
      BY DEF Composed, Parens, True
    <2> QED
      BY <2>1, <2>2, AtomIsSingle
  <1>2. CASE ~Composite(f)
    <2>1. f \in Leaves(f)
      BY <1>2, NodeOfItself DEF Leaves
    <2>2. f.operator \in Operators /\ f.operator # "notInDateRange"
      BY <1>2, <2>1 DEF Bare
    <2>3. CompileFilter(f, textOf) = textOf[f]
      BY <1>2, Zenon DEF CompileFilter
    <2>4. PICK v : textOf[f] = OperatorText(f.operator, v, f.values)
      BY <2>1
    <2> QED
      BY <2>2, <2>3, <2>4, OperatorIsSingle
  <1> QED
    BY <1>1, <1>2

\* As a filter of dimensions that renders may.
LEMMA FilterIsSingle ==
    ASSUME NEW f, ~IsMeasureFilter(f), FilterRenders(f), ~Bare(f), NEW row
    PROVE  Single(RowText(f, row))
  <1> DEFINE textOf == [leaf \in Leaves(f) |->
                           OperatorText(leaf.operator, ValueIn(row, leaf.member), leaf.values)]
  <1>1. \A leaf \in Leaves(f) : leaf.operator \in Operators
    BY DEF FilterRenders
  <1>2. \A leaf \in Leaves(f) : \E v : textOf[leaf] = OperatorText(leaf.operator, v, leaf.values)
    BY Zenon
  <1>3. RowText(f, row) = CompileFilter(f, textOf)
    BY Zenon DEF RowText
  <1> HIDE DEF textOf
  <1> QED
    BY <1>1, <1>2, <1>3, CompiledIsSingle

-----------------------------------------------------------------------------
(* The conditions of a statement. *)

Ruled(q, ctx, row) ==
    \A c \in RuledCubes(q) : \A rule \in ToSet(RowLevel(registry[c], ctx)) : Meets(row[c], rule)

Selects(q, ctx, row) == True(AndJoin(WhereTexts(q, ctx, row)))

\* A condition with one alternative.
LEMMA ConditionIsSingle ==
    ASSUME NEW condition, IsList(condition), Len(condition) = 1, NEW row
    PROVE  /\ Single(AlternativesText(condition, row))
           /\ True(AlternativesText(condition, row)) <=> Meets(row, condition)
  <1>1. DOMAIN condition = {1}
    BY DEF IsList
  <1> DEFINE b == Equals(row, condition[1])
  <1>2. AlternativesText(condition, row) = [i \in {1} |-> <<Equals(row, condition[i])>>]
    BY <1>1, Zenon DEF AlternativesText
  <1>3. [i \in {1} |-> <<Equals(row, condition[i])>>] = <<<<b>>>>
    OBVIOUS
  <1>4. b \in BOOLEAN
    BY DEF Equals
  <1>5. Meets(row, condition) <=> b
    BY <1>1 DEF Meets
  <1> HIDE DEF b
  <1>6. Single(Atom(b)) /\ (True(Atom(b)) <=> b)
    BY <1>4, AtomIsSingle
  <1> QED
    BY <1>2, <1>3, <1>5, <1>6, Zenon DEF Atom

\* Rules that have one each.
LEMMA RulesAreSingle ==
    ASSUME NEW c \in DOMAIN registry, NEW ctx \in Contexts, NEW row,
           \A rule \in ToSet(RowLevel(registry[c], ctx)) : Len(rule) = 1
    PROVE  /\ Single(RulesText(registry[c], ctx, row))
           /\ True(RulesText(registry[c], ctx, row))
                 <=> \A rule \in ToSet(RowLevel(registry[c], ctx)) : Meets(row, rule)
  <1> DEFINE rules == RowLevel(registry[c], ctx)
             texts == [i \in DOMAIN rules |-> AlternativesText(rules[i], row)]
  <1>1. IsList(rules) /\ \A rule \in ToSet(rules) : IsList(rule) /\ Len(rule) = 1
    BY ConditionsAssumption
  <1>2. RulesText(registry[c], ctx, row) = AndJoin(texts)
    BY Zenon DEF RulesText
  <1> HIDE DEF rules
  <1>3. Len(rules) \in Nat /\ DOMAIN rules = 1 .. Len(rules) /\ ToSet(rules) = {rules[i] : i \in DOMAIN rules}
    BY <1>1, ListOf
  <1>4. \A i \in DOMAIN rules : rules[i] \in ToSet(rules)
    BY <1>3
  <1>5. \A i \in DOMAIN rules : Single(texts[i]) /\ (True(texts[i]) <=> Meets(row, rules[i]))
    BY <1>1, <1>4, ConditionIsSingle, Zenon
  <1>6. DOMAIN texts = 1 .. Len(rules) /\ Len(texts) = Len(rules)
    BY <1>3
  <1> HIDE DEF texts
  <1>7. /\ Single(AndJoin(texts))
        /\ True(AndJoin(texts)) <=> \A i \in 1 .. Len(texts) : True(texts[i])
    BY <1>3, <1>5, <1>6, AndJoinOfSingles
  <1>8. (\A i \in 1 .. Len(texts) : True(texts[i])) <=> \A rule \in ToSet(rules) : Meets(row, rule)
    BY <1>3, <1>4, <1>5, <1>6
  <1> QED
    BY <1>2, <1>7, <1>8, Zenon DEF rules

\* A finite set is listed whole.
LEMMA ListedSet ==
    ASSUME NEW S, IsFiniteSet(S)
    PROVE  LET s == SetToSeq(S)
           IN  /\ Len(s) \in Nat /\ DOMAIN s = 1 .. Len(s)
               /\ \A i \in DOMAIN s : s[i] \in S
               /\ \A x \in S : \E i \in DOMAIN s : s[i] = x
  <1> DEFINE n == Cardinality(S)
             s == SetToSeq(S)
  <1>1. n \in Nat /\ ExistsBijection(1 .. n, S)
    BY FS_CardinalityType
  <1>2. \E f \in [1 .. n -> S] : IsInjective(f)
    BY <1>1 DEF ExistsBijection, Bijection, Injection
  <1>3. s \in [1 .. n -> S] /\ IsInjective(s)
    BY <1>2, Zenon DEF SetToSeq
  <1> HIDE DEF s
  <1>4. s \in Injection(1 .. n, S)
    BY <1>3 DEF Injection
  <1>5. Cardinality(1 .. n) = n
    BY <1>1, FS_Interval
  <1>6. s \in Surjection(1 .. n, S)
    BY <1>4, <1>5, FS_Injection, Zenon
  <1>7. Len(s) = n /\ DOMAIN s = 1 .. n
    BY <1>1, <1>3
  <1>8. \A x \in S : \E i \in 1 .. n : s[i] = x
    BY <1>6 DEF Surjection
  <1>9. \A i \in 1 .. n : s[i] \in S
    BY <1>3
  <1> QED
    BY <1>1, <1>7, <1>8, <1>9, Zenon DEF s

\* Whether the conditions of a statement are ones that AND joins as it should.
SinglyJoined(q, ctx) ==
    /\ IsQuery(q) /\ NoneBare(q, ctx) /\ RuledCubes(q) \subseteq DOMAIN registry
    /\ \A p \in ToSet(q.segments) : IsList(Member(p).alternatives)
    /\ \A f \in ToSet(q.filters) : FilterRenders(f)

LEMMA PartsOfAsked ==
    ASSUME NEW q, IsQuery(q), NEW ctx, Asked(q, ctx), NoneBare(q, ctx)
    PROVE  SinglyJoined(q, ctx)
  <1>1. \A f \in ToSet(q.filters) : FilterRenders(f)
    BY DEF Asked, Renders
  <1>2. RuledCubes(q) \subseteq DOMAIN registry
    BY RuledAreJoined, JoinedAreCubes DEF Asked
  <1>3. ASSUME NEW p \in ToSet(q.segments) PROVE IsList(Member(p).alternatives)
    <2>1. Kind(p) = "segment" /\ Resolves(p)
      BY DEF Asked, Renders, Runs
    <2>2. p[2] \in DOMAIN Cube(p).segments /\ p[1] \in DOMAIN registry
      BY <2>1 DEF Kind, KindIn, Resolves, NamesIn, Cube
    <2>3. Member(p) = Cube(p).segments[p[2]]
      BY <2>1, Zenon DEF Member, MemberIn, Kind
    <2> QED
      BY <2>2, <2>3, ConditionsAssumption DEF Cube
  <1> QED
    BY <1>1, <1>2, <1>3 DEF SinglyJoined

LEMMA AllRulesAreSingle ==
    ASSUME NEW q, NEW ctx \in Contexts, SinglyJoined(q, ctx), NEW row
    PROVE  /\ Single(AllRulesText(q, ctx, row))
           /\ True(AllRulesText(q, ctx, row)) <=> Ruled(q, ctx, row)
  <1> DEFINE cubes == {c \in RuledCubes(q) : RowLevel(registry[c], ctx) # <<>>}
             ruled == SetToSeq(cubes)
             texts == [i \in DOMAIN ruled |-> RulesText(registry[ruled[i]], ctx, row[ruled[i]])]
             Meet(c) == \A rule \in ToSet(RowLevel(registry[c], ctx)) : Meets(row[c], rule)
  <1>1. AllRulesText(q, ctx, row) = AndJoin(texts)
    BY Zenon DEF AllRulesText
  <1>2. cubes \subseteq DOMAIN registry /\ cubes \subseteq RuledCubes(q)
    BY DEF SinglyJoined
  <1>3. \A c \in RuledCubes(q) \ cubes : Meet(c)
    BY DEF ToSet
  <1>4. IsFiniteSet(cubes)
    BY <1>2, UniverseAssumption, FS_Subset
  <1>5. \A c \in cubes : /\ Single(RulesText(registry[c], ctx, row[c]))
                         /\ True(RulesText(registry[c], ctx, row[c])) <=> Meet(c)
    BY <1>2, RulesAreSingle DEF SinglyJoined, NoneBare
  <1> HIDE DEF cubes
  <1>6. /\ Len(ruled) \in Nat /\ DOMAIN ruled = 1 .. Len(ruled)
        /\ \A i \in DOMAIN ruled : ruled[i] \in cubes
        /\ \A c \in cubes : \E i \in DOMAIN ruled : ruled[i] = c
    BY <1>4, ListedSet, Zenon
  <1> HIDE DEF ruled, Meet
  <1>7. DOMAIN texts = 1 .. Len(ruled) /\ Len(texts) = Len(ruled)
    BY <1>6
  <1>8. \A i \in DOMAIN ruled : Single(texts[i]) /\ (True(texts[i]) <=> Meet(ruled[i]))
    BY <1>5, <1>6, Zenon
  <1> HIDE DEF texts
  <1>9. /\ Single(AndJoin(texts))
        /\ True(AndJoin(texts)) <=> \A i \in 1 .. Len(texts) : True(texts[i])
    BY <1>6, <1>7, <1>8, AndJoinOfSingles
  <1>10. (\A i \in 1 .. Len(texts) : True(texts[i])) <=> \A c \in cubes : Meet(c)
    BY <1>6, <1>7, <1>8
  <1>11. (\A c \in cubes : Meet(c)) <=> \A c \in RuledCubes(q) : Meet(c)
    BY <1>2, <1>3
  <1>12. Ruled(q, ctx, row) <=> \A c \in RuledCubes(q) : Meet(c)
    BY Zenon DEF Ruled, Meet
  <1> QED
    BY <1>1, <1>9, <1>10, <1>11, <1>12, Zenon

Singles == {<<a>> : a \in Seq(BOOLEAN)}

LEMMA SingleIn == ASSUME NEW t PROVE Single(t) <=> t \in Singles
  BY DEF Single, Singles

LEMMA ListOfSingles ==
    ASSUME NEW s, IsList(s), NEW t, DOMAIN t = DOMAIN s, t = [i \in DOMAIN s |-> t[i]],
           \A i \in DOMAIN s : Single(t[i])
    PROVE  t \in Seq(Singles)
  <1>1. Len(s) \in Nat /\ DOMAIN s = 1 .. Len(s)
    BY ListOf
  <1>2. \A i \in 1 .. Len(s) : t[i] \in Singles
    BY <1>1, SingleIn
  <1> HIDE DEF Singles
  <1>3. t \in [1 .. Len(s) -> Singles]
    BY <1>1, <1>2
  <1> QED
    BY <1>1, <1>3

\* The texts of a list all hold.
AllHold(texts) == \A i \in DOMAIN texts : True(texts[i])

LEMMA AllHoldJoined ==
    ASSUME NEW s \in Seq(Singles), NEW t \in Seq(Singles)
    PROVE  s \o t \in Seq(Singles) /\ (AllHold(s \o t) <=> AllHold(s) /\ AllHold(t))
  <1> HIDE DEF Singles
  <1> DEFINE c == s \o t
  <1>1. /\ DOMAIN s = 1 .. Len(s) /\ DOMAIN t = 1 .. Len(t)
        /\ DOMAIN c = 1 .. (Len(s) + Len(t))
        /\ Len(s) \in Nat /\ Len(t) \in Nat /\ c \in Seq(Singles)
    OBVIOUS
  <1>2. \A j \in 1 .. Len(s) : c[j] = s[j] /\ j \in 1 .. (Len(s) + Len(t))
    OBVIOUS
  <1>3. \A j \in 1 .. Len(t) : c[Len(s) + j] = t[j] /\ Len(s) + j \in 1 .. (Len(s) + Len(t))
    OBVIOUS
  <1>4. ASSUME NEW j \in 1 .. (Len(s) + Len(t))
        PROVE  j \in 1 .. Len(s) \/ \E k \in 1 .. Len(t) : j = Len(s) + k
    <2>1. j \in 1 .. Len(s) \/ (j - Len(s) \in 1 .. Len(t) /\ j = Len(s) + (j - Len(s)))
      BY <1>1
    <2> QED
      BY <2>1
  <1> HIDE DEF c
  <1>5. AllHold(c) <=> AllHold(s) /\ AllHold(t)
    <2>1. ASSUME AllHold(c), NEW j \in DOMAIN s PROVE True(s[j])
      BY <1>1, <1>2, <2>1 DEF AllHold
    <2>2. ASSUME AllHold(c), NEW j \in DOMAIN t PROVE True(t[j])
      BY <1>1, <1>3, <2>2 DEF AllHold
    <2>3. ASSUME AllHold(s), AllHold(t), NEW j \in DOMAIN c PROVE True(c[j])
      <3>1. CASE j \in 1 .. Len(s)
        BY <1>1, <1>2, <2>3, <3>1 DEF AllHold
      <3>2. CASE \E k \in 1 .. Len(t) : j = Len(s) + k
        BY <1>1, <1>3, <2>3, <3>2 DEF AllHold
      <3> QED
        BY <1>1, <1>4, <3>1, <3>2
    <2> QED
      BY <2>1, <2>2, <2>3, Zenon DEF AllHold
  <1> QED
    BY <1>1, <1>5, Zenon DEF c

LEMMA AndJoinHolds ==
    ASSUME NEW texts \in Seq(Singles)
    PROVE  Single(AndJoin(texts)) /\ (True(AndJoin(texts)) <=> AllHold(texts))
  <1>1. Len(texts) \in Nat /\ DOMAIN texts = 1 .. Len(texts) /\ \A i \in DOMAIN texts : texts[i] \in Singles
    <2> HIDE DEF Singles
    <2> QED
      OBVIOUS
  <1> QED
    BY <1>1, SingleIn, AndJoinOfSingles DEF AllHold

\* What the segments and the date ranges of a query say of a joined row.
InSegments(q, row) ==
    \A i \in DOMAIN q.segments :
        Meets(row[q.segments[i][1]], Member(q.segments[i]).alternatives)

InRanges(q, row) ==
    \A i \in DOMAIN q.timeDimensions : q.timeDimensions[i].dateRange # None =>
        True(OperatorText("inDateRange", ValueIn(row, q.timeDimensions[i].path),
                          <<q.timeDimensions[i].dateRange>>))

\* A row is selected when its rules, segments, ranges and filters all hold.
LEMMA SelectedWhen ==
    ASSUME NEW q, NEW ctx \in Contexts, SinglyJoined(q, ctx), NEW row
    PROVE  Selects(q, ctx, row) <=>
              /\ Ruled(q, ctx, row) /\ InSegments(q, row) /\ InRanges(q, row)
              /\ \A f \in ToSet(q.filters) : ~IsMeasureFilter(f) => True(RowText(f, row))
  <1> DEFINE first == AllRulesText(q, ctx, row)
             InRange(td) ==
                IF td.dateRange = None THEN Atom(TRUE)
                ELSE OperatorText("inDateRange", ValueIn(row, td.path), <<td.dateRange>>)
             Condition(f) == IF IsMeasureFilter(f) THEN Atom(TRUE) ELSE RowText(f, row)
             segments == [i \in DOMAIN q.segments |->
                             AlternativesText(Member(q.segments[i]).alternatives,
                                              row[q.segments[i][1]])]
             ranges == [i \in DOMAIN q.timeDimensions |-> InRange(q.timeDimensions[i])]
             filters == [i \in DOMAIN q.filters |-> Condition(q.filters[i])]
             texts == WhereTexts(q, ctx, row)
  <1>1. texts = <<first>> \o segments \o ranges \o filters
    BY Zenon DEF WhereTexts
  <1>2. first \in Singles /\ (True(first) <=> Ruled(q, ctx, row))
    BY AllRulesAreSingle, SingleIn
  <1>3. IsList(q.segments) /\ IsList(q.timeDimensions) /\ IsList(q.filters)
    BY DEF SinglyJoined, IsQuery
  <1>4. /\ segments \in Seq(Singles)
        /\ (\A i \in DOMAIN segments : True(segments[i])) <=> InSegments(q, row)
    <2>1. ASSUME NEW i \in DOMAIN q.segments
          PROVE  /\ Single(segments[i])
                 /\ True(segments[i])
                       <=> Meets(row[q.segments[i][1]], Member(q.segments[i]).alternatives)
      <3>1. q.segments[i] \in ToSet(q.segments)
        BY <1>3, ListOf
      <3>2. IsList(Member(q.segments[i]).alternatives) /\ Len(Member(q.segments[i]).alternatives) = 1
        BY <3>1 DEF SinglyJoined, NoneBare
      <3> QED
        BY <3>2, ConditionIsSingle, Zenon
    <2>2. segments \in Seq(Singles)
      BY <1>3, <2>1, ListOfSingles, Zenon
    <2> QED
      BY <2>1, <2>2, Zenon DEF InSegments
  <1>5. /\ ranges \in Seq(Singles)
        /\ (\A i \in DOMAIN ranges : True(ranges[i])) <=> InRanges(q, row)
    <2>1. Single(Atom(TRUE)) /\ True(Atom(TRUE))
      BY AtomIsSingle
    <2>2. "inDateRange" \in Operators /\ "inDateRange" # "notInDateRange"
      BY DEF Operators, DateOperators
    <2>3. \A td : Single(InRange(td))
      BY <2>1, <2>2, OperatorIsSingle
    <2>4. \A i \in DOMAIN q.timeDimensions : Single(ranges[i])
      BY <2>3, Zenon
    <2>5. ranges \in Seq(Singles)
      BY <1>3, <2>4, ListOfSingles, Zenon
    <2>6. \A td : True(InRange(td)) <=>
             (td.dateRange # None =>
                 True(OperatorText("inDateRange", ValueIn(row, td.path), <<td.dateRange>>)))
      BY <2>1, Zenon
    <2> QED
      BY <2>5, <2>6, Zenon DEF InRanges
  <1>6. /\ filters \in Seq(Singles)
        /\ (\A i \in DOMAIN filters : True(filters[i])) <=>
              \A f \in ToSet(q.filters) : ~IsMeasureFilter(f) => True(RowText(f, row))
    <2>1. Single(Atom(TRUE)) /\ True(Atom(TRUE))
      BY AtomIsSingle
    <2>2. ToSet(q.filters) = {q.filters[i] : i \in DOMAIN q.filters}
      BY <1>3, ListOf
    <2>3. \A f \in ToSet(q.filters) : Single(Condition(f))
      BY <2>1, FilterIsSingle DEF SinglyJoined, NoneBare
    <2>4. \A i \in DOMAIN q.filters : q.filters[i] \in ToSet(q.filters)
      BY <2>2
    <2>5. \A i \in DOMAIN q.filters : Single(filters[i])
      BY <2>3, <2>4, Zenon
    <2>6. filters \in Seq(Singles)
      BY <1>3, <2>5, ListOfSingles, Zenon
    <2>7. \A f : True(Condition(f)) <=> (~IsMeasureFilter(f) => True(RowText(f, row)))
      BY <2>1, Zenon
    <2>8. (\A i \in DOMAIN filters : True(filters[i])) <=> \A i \in DOMAIN q.filters : True(Condition(q.filters[i]))
      BY Zenon
    <2> HIDE DEF Condition, filters
    <2>9. (\A i \in DOMAIN q.filters : True(Condition(q.filters[i])))
             <=> \A f \in ToSet(q.filters) : True(Condition(f))
      BY <2>2
    <2> QED
      BY <2>6, <2>7, <2>8, <2>9
  <1> HIDE DEF first, segments, ranges, filters, texts, Singles
  <1>7. <<first>> \in Seq(Singles) /\ (AllHold(<<first>>) <=> True(first))
    BY <1>2 DEF AllHold
  <1>8. texts \in Seq(Singles) /\ (AllHold(texts) <=> /\ AllHold(<<first>>) /\ AllHold(segments)
                                                    /\ AllHold(ranges) /\ AllHold(filters))
    <2> DEFINE two == <<first>> \o segments
               three == two \o ranges
    <2>1. /\ <<first>> \in Seq(Singles) /\ segments \in Seq(Singles)
          /\ ranges \in Seq(Singles) /\ filters \in Seq(Singles)
      BY <1>4, <1>5, <1>6, <1>7, Zenon
    <2>2. two \in Seq(Singles) /\ (AllHold(two) <=> AllHold(<<first>>) /\ AllHold(segments))
      BY <2>1, AllHoldJoined, Zenon
    <2>3. three \in Seq(Singles) /\ (AllHold(three) <=> AllHold(two) /\ AllHold(ranges))
      BY <2>1, <2>2, AllHoldJoined, Zenon
    <2>4. /\ three \o filters \in Seq(Singles)
          /\ AllHold(three \o filters) <=> AllHold(three) /\ AllHold(filters)
      BY <2>1, <2>3, AllHoldJoined, Zenon
    <2>5. texts = three \o filters
      BY <1>1, Zenon
    <2> HIDE DEF two, three
    <2> QED
      BY <2>2, <2>3, <2>4, <2>5, Zenon
  <1>9. True(AndJoin(texts)) <=> AllHold(texts)
    BY <1>8, AndJoinHolds
  <1> QED
    BY <1>2, <1>4, <1>5, <1>6, <1>7, <1>8, <1>9, Zenon DEF Selects, AllHold, texts

LEMMA SelectedIsRuled ==
    ASSUME NEW q, IsQuery(q), NEW ctx \in Contexts, Asked(q, ctx), NoneBare(q, ctx), NEW row,
           Selects(q, ctx, row)
    PROVE  Ruled(q, ctx, row)
  BY PartsOfAsked, SelectedWhen, Zenon

-----------------------------------------------------------------------------
(* Rows that a caller may not see. *)

Beside(q, row, c, db) == IF c = Primary(q) THEN {row} ELSE Matches(row, Primary(q), c, db)

\* A joined row has a row of the primary cube, and of each other cube one that
\* is joined to it.
LEMMA JoinedRow ==
    ASSUME NEW q, NEW db, NEW joined
    PROVE  joined \in JoinedRows(q, db) <=>
              /\ joined = [c \in JoinedCubes(q) |-> joined[c]]
              /\ \E row \in db[Primary(q)] :
                    \A c \in JoinedCubes(q) : joined[c] \in Beside(q, row, c, db)
  <1> DEFINE J == JoinedCubes(q)
             All(row) == UNION {Beside(q, row, c, db) : c \in J}
  <1>1. joined \in JoinedRows(q, db) <=>
           \E row \in db[Primary(q)] : /\ joined \in [J -> All(row)]
                                      /\ \A c \in J : joined[c] \in Beside(q, row, c, db)
    <2>1. JoinedRows(q, db) =
             UNION {{l \in [J -> All(row)] : \A c \in J : l[c] \in Beside(q, row, c, db)} :
                       row \in db[Primary(q)]}
      BY Zenon DEF JoinedRows, Beside
    <2> HIDE DEF J, All
    <2> QED
      BY <2>1
  <1>2. ASSUME NEW row, \A c \in J : joined[c] \in Beside(q, row, c, db)
        PROVE  joined \in [J -> All(row)] <=> joined = [c \in J |-> joined[c]]
    <2>1. \A c \in J : joined[c] \in All(row)
      BY <1>2
    <2> HIDE DEF J, All
    <2> QED
      BY <2>1
  <1> HIDE DEF J, All
  <1> QED
    BY <1>1, <1>2 DEF J

LEMMA AllowedOf ==
    ASSUME NEW q, NEW ctx, NEW c \in DOMAIN registry
    PROVE  /\ \A row : row \in Allowed(q, ctx)[c] <=>
                  /\ row \in source[c]
                  /\ c \in RuledCubes(q) =>
                        \A rule \in ToSet(RowLevel(registry[c], ctx)) : Meets(row, rule)
  BY DEF Allowed

LEMMA NullMeetsNothing ==
    ASSUME NEW c \in DOMAIN registry, NEW ctx \in Contexts,
           NEW rule \in ToSet(RowLevel(registry[c], ctx))
    PROVE  ~Meets(NullRow(c), rule)
  <1>1. IsList(rule) /\ RuleColumns(registry[c], ctx) \subseteq registry[c].columns
    BY ConditionsAssumption
  <1>2. ASSUME NEW i \in DOMAIN rule PROVE rule[i][1] \in registry[c].columns
    <2>1. rule[i] \in ToSet(rule)
      BY <1>1, ListOf
    <2> QED
      BY <1>1, <2>1 DEF RuleColumns
  <1> QED
    BY <1>2 DEF Meets, Equals, NullRow

Found(row, from, to, db) ==
    LET on == registry[from].joins[to]
    IN  {other \in db[to] : row[on.left] # None /\ other[on.right] = row[on.left]}

LEMMA MatchesAre ==
    ASSUME NEW row, NEW from, NEW to, NEW db
    PROVE  Matches(row, from, to, db) =
              IF Found(row, from, to, db) = {} THEN {NullRow(to)} ELSE Found(row, from, to, db)
  BY DEF Matches, Found

\* A row that is selected is joined alike with the hidden rows and without.
LEMMA SameJoins ==
    ASSUME NEW q, NEW ctx \in Contexts, NEW row, NEW from, NEW c \in DOMAIN registry, NEW other,
           c \in RuledCubes(q) => \A rule \in ToSet(RowLevel(registry[c], ctx)) : Meets(other, rule)
    PROVE  other \in Matches(row, from, c, source)
              <=> other \in Matches(row, from, c, Allowed(q, ctx))
  <1> DEFINE found == Found(row, from, c, source)
             left  == Found(row, from, c, Allowed(q, ctx))
  <1>1. \A x : x \in left <=> x \in found /\ (c \in RuledCubes(q) =>
                                  \A rule \in ToSet(RowLevel(registry[c], ctx)) : Meets(x, rule))
    BY AllowedOf DEF Found
  <1> HIDE DEF found, left
  <1>2. other \in found <=> other \in left
    BY <1>1
  <1>3. CASE left # {}
    <2>1. found # {}
      BY <1>1, <1>3
    <2> QED
      BY <1>2, <1>3, <2>1, MatchesAre DEF found, left
  <1>4. CASE found = {}
    <2>1. left = {}
      BY <1>1, <1>4
    <2> QED
      BY <1>4, <2>1, MatchesAre DEF found, left
  <1>5. CASE found # {} /\ left = {}
    <2>1. c \in RuledCubes(q) /\ \E rule : rule \in ToSet(RowLevel(registry[c], ctx))
      BY <1>1, <1>5
    <2>2. other # NullRow(c)
      BY <2>1, NullMeetsNothing
    <2> QED
      BY <1>2, <1>5, <2>2, MatchesAre DEF found, left
  <1> QED
    BY <1>3, <1>4, <1>5

LEMMA SameSelection ==
    ASSUME NEW q \in Queried, NEW ctx \in Contexts, Asked(q, ctx), NoneBare(q, ctx)
    PROVE  SelectedRows(q, ctx, source) = SelectedRows(q, ctx, Allowed(q, ctx))
  <1>1. Primary(q) \in JoinedCubes(q) /\ Primary(q) \in DOMAIN registry
    BY IsAQuery, PrimaryIsJoined, JoinedAreCubes DEF Asked
  <1>2. ASSUME NEW joined, Selects(q, ctx, joined)
        PROVE  joined \in JoinedRows(q, source) <=> joined \in JoinedRows(q, Allowed(q, ctx))
    <2>1. \A c \in JoinedCubes(q) : c \in RuledCubes(q) =>
             \A rule \in ToSet(RowLevel(registry[c], ctx)) : Meets(joined[c], rule)
      BY <1>2, IsAQuery, SelectedIsRuled DEF Ruled
    <2>2. ASSUME NEW row, NEW c \in JoinedCubes(q)
          PROVE  joined[c] \in Beside(q, row, c, source)
                    <=> joined[c] \in Beside(q, row, c, Allowed(q, ctx))
      <3>1. c \in DOMAIN registry
        BY JoinedAreCubes DEF Asked
      <3> QED
        BY <2>1, <3>1, SameJoins DEF Beside
    <2>3. ASSUME NEW row, joined[Primary(q)] = row
          PROVE  row \in source[Primary(q)] <=> row \in Allowed(q, ctx)[Primary(q)]
      BY <1>1, <2>1, <2>3, AllowedOf
    <2>4. ASSUME NEW row, NEW db, joined[Primary(q)] \in Beside(q, row, Primary(q), db)
          PROVE  joined[Primary(q)] = row
      BY <2>4 DEF Beside
    <2> QED
      BY <1>1, <2>2, <2>3, <2>4, JoinedRow
  <1> QED
    BY <1>2 DEF SelectedRows, Selects

\* No answer depends on a row that the rules hide from the caller.
THEOREM Hidden == Spec => []HiddenRowsDoNotMatter
  <1>1. HiddenRowsDoNotMatter
    <2> SUFFICES ASSUME NEW q \in Queried, NEW ctx \in Contexts, Asked(q, ctx), NoneBare(q, ctx)
                 PROVE  Answers(q, ctx, source) = Answers(q, ctx, Allowed(q, ctx))
      BY DEF HiddenRowsDoNotMatter, AskedOfBase
    <2>1. SelectedRows(q, ctx, source) = SelectedRows(q, ctx, Allowed(q, ctx))
      BY SameSelection
    <2>2. GroupedRows(q, ctx, source) = GroupedRows(q, ctx, Allowed(q, ctx))
      BY <2>1, Zenon DEF GroupedRows
    <2> QED
      BY <2>2, Zenon DEF Answers, Rows
  <1> QED
    BY <1>1, PTL

-----------------------------------------------------------------------------
(* Filters of what a query groups by and selects. *)

Selectable(q) == ToSet(q.measures) \cup {p \in Grouped(q) : Kind(p) # "measure"}

Keys(q)        == Outputs(q) \ ToSet(q.measures)
KeyOf(q, row)  == [p \in Keys(q) |-> KeyPart(p, row)]
ChosenIn(rows) == CHOOSE row \in rows : TRUE

RowOf(q, group) ==
    [p \in Keys(q) \cup Selected(q) |->
        IF p \in Keys(q) THEN KeyPart(p, ChosenIn(group)) ELSE Aggregate(p, group)]

RowFilters(q, row) == \A f \in ToSet(q.filters) : ~IsMeasureFilter(f) => True(RowText(f, row))

LEMMA UnfilteredFields ==
    ASSUME NEW q, IsQuery(q)
    PROVE  LET r == Unfiltered(q)
           IN  /\ r.measures = q.measures /\ r.dimensions = q.dimensions
               /\ r.segments = q.segments /\ r.timeDimensions = q.timeDimensions
               /\ r.filters = <<>>
               /\ r = [measures |-> r.measures, dimensions |-> r.dimensions,
                       segments |-> r.segments, timeDimensions |-> r.timeDimensions,
                       filters |-> r.filters, order |-> r.order,
                       limit |-> r.limit, offset |-> r.offset]
  BY DEF IsQuery, Unfiltered

LEMMA UnfilteredIsQuery == ASSUME NEW q, IsQuery(q) PROVE IsQuery(Unfiltered(q))
  <1> DEFINE r == Unfiltered(q)
  <1>1. IsList(<<>>)
    BY DEF IsList, ToSet
  <1>2. TimePaths(r) = TimePaths(q)
    BY UnfilteredFields, Zenon DEF TimePaths
  <1>3. ToSet(r.filters) = {}
    BY UnfilteredFields DEF ToSet
  <1> HIDE DEF r
  <1>4. /\ r.measures = q.measures /\ r.dimensions = q.dimensions
        /\ r.segments = q.segments /\ r.timeDimensions = q.timeDimensions
        /\ r.filters = <<>>
        /\ r = [measures |-> r.measures, dimensions |-> r.dimensions,
                segments |-> r.segments, timeDimensions |-> r.timeDimensions,
                filters |-> r.filters, order |-> r.order,
                limit |-> r.limit, offset |-> r.offset]
    BY UnfilteredFields DEF r
  <1> QED
    <2>1. \A f \in ToSet(r.filters) : Leaves(f) # {}
      BY <1>3
    <2>2. IsList(r.filters)
      BY <1>1, <1>4
    <2>3. /\ IsList(r.measures) /\ IsList(r.dimensions) /\ IsList(r.segments)
          /\ IsList(r.timeDimensions)
      BY <1>4 DEF IsQuery
    <2>4. /\ \A td \in ToSet(r.timeDimensions) :
                /\ td = [path |-> td.path, granularity |-> td.granularity, dateRange |-> td.dateRange]
                /\ td.granularity \in Units \cup {None}
          /\ \A p \in ToSet(r.measures) \cup ToSet(r.dimensions) \cup TimePaths(r) : p = <<p[1], p[2]>>
          /\ ToSet(r.measures) \cap (ToSet(r.dimensions) \cup TimePaths(r)) = {}
      BY <1>2, <1>4, Zenon DEF IsQuery
    <2>5. IsQuery(r)
      BY <1>4, <2>1, <2>2, <2>3, <2>4, Zenon DEF IsQuery
    <2> QED
      BY <2>5 DEF r

LEMMA UnfilteredParts ==
    ASSUME NEW q, IsQuery(q)
    PROVE  LET r == Unfiltered(q)
           IN  /\ TimePaths(r) = TimePaths(q) /\ Buckets(r) = Buckets(q)
               /\ Grouped(r) = Grouped(q) /\ WindowsOf(r) = WindowsOf(q)
               /\ Selected(r) = Selected(q) /\ Outputs(r) = Outputs(q)
               /\ RuledCubes(r) = RuledCubes(q) /\ Primary(r) = Primary(q)
  <1> DEFINE r == Unfiltered(q)
  <1>1. /\ r.measures = q.measures /\ r.dimensions = q.dimensions
        /\ r.timeDimensions = q.timeDimensions
    BY UnfilteredFields
  <1> HIDE DEF r
  <1>2. TimePaths(r) = TimePaths(q) /\ Buckets(r) = Buckets(q) /\ WindowsOf(r) = WindowsOf(q)
    BY <1>1, Zenon DEF TimePaths, Buckets, WindowsOf
  <1>3. Grouped(r) = Grouped(q) /\ Selected(r) = Selected(q)
    BY <1>1, <1>2, Zenon DEF Grouped, Selected
  <1>4. Outputs(r) = Outputs(q) /\ RuledCubes(r) = RuledCubes(q) /\ Primary(r) = Primary(q)
    BY <1>1, <1>2, <1>3, Zenon DEF Outputs, RuledCubes, Primary
  <1> QED
    BY <1>2, <1>3, <1>4 DEF r

LEMMA SameCubes ==
    ASSUME NEW q, IsQuery(q), FilterPaths(q.filters) \subseteq Selectable(q)
    PROVE  JoinedCubes(Unfiltered(q)) = JoinedCubes(q)
  <1> DEFINE r == Unfiltered(q)
  <1>1. r.segments = q.segments /\ r.filters = <<>> /\ RuledCubes(r) = RuledCubes(q)
    BY UnfilteredFields, UnfilteredParts
  <1>2. FilterPaths(<<>>) = {}
    BY DEF FilterPaths, ToSet
  <1>3. ASSUME NEW f \in FilterPaths(q.filters), NEW p \in Resolved(f) PROVE p[1] \in RuledCubes(q)
    <2>1. CASE f \in ToSet(q.measures)
      BY <1>3, <2>1, RuledBy
    <2>2. CASE f \in Grouped(q) /\ Kind(f) # "measure"
      <3>1. p = f
        BY <1>3, <2>2 DEF Resolved
      <3> QED
        BY <2>2, <3>1, RuledBy
    <2> QED
      BY <2>1, <2>2 DEF Selectable
  <1> HIDE DEF r
  <1> DEFINE named(t, S) == {p[1] : p \in ToSet(t.segments) \cup UNION {Resolved(f) : f \in S}}
  <1>4. /\ JoinedCubes(r) = RuledCubes(q) \cup named(q, {})
        /\ JoinedCubes(q) = RuledCubes(q) \cup named(q, FilterPaths(q.filters))
    BY <1>1, <1>2, Zenon DEF JoinedCubes
  <1>5. named(q, {}) \subseteq named(q, FilterPaths(q.filters))
    OBVIOUS
  <1>6. named(q, FilterPaths(q.filters)) \subseteq named(q, {}) \cup RuledCubes(q)
    BY <1>3
  <1> HIDE DEF named
  <1> QED
    BY <1>4, <1>5, <1>6 DEF r

LEMMA UnfilteredSelection ==
    ASSUME NEW q, NEW ctx \in Contexts, SinglyJoined(q, ctx), NEW db,
           FilterPaths(q.filters) \subseteq Selectable(q)
    PROVE  SelectedRows(q, ctx, db) =
              {row \in SelectedRows(Unfiltered(q), ctx, db) : RowFilters(q, row)}
  <1> DEFINE r == Unfiltered(q)
  <1>1. /\ r.segments = q.segments /\ r.timeDimensions = q.timeDimensions /\ r.filters = <<>>
        /\ RuledCubes(r) = RuledCubes(q) /\ Primary(r) = Primary(q)
        /\ JoinedCubes(r) = JoinedCubes(q) /\ IsQuery(r)
    BY UnfilteredFields, UnfilteredParts, SameCubes, UnfilteredIsQuery DEF SinglyJoined
  <1> HIDE DEF r
  <1>2. JoinedRows(r, db) = JoinedRows(q, db)
    <2>1. \A row, c : Beside(r, row, c, db) = Beside(q, row, c, db)
      BY <1>1, Zenon DEF Beside
    <2>2. ASSUME NEW joined PROVE joined \in JoinedRows(r, db) <=> joined \in JoinedRows(q, db)
      BY <1>1, <2>1, JoinedRow
    <2>3. (\E S : JoinedRows(r, db) = UNION S) /\ (\E S : JoinedRows(q, db) = UNION S)
      BY Zenon DEF JoinedRows
    <2> QED
      BY <2>2, <2>3
  <1>3. ToSet(r.filters) = {} /\ SinglyJoined(r, ctx)
    <2>1. ToSet(r.filters) = {}
      BY <1>1 DEF ToSet
    <2> QED
      BY <1>1, <2>1 DEF SinglyJoined, NoneBare
  <1>4. ASSUME NEW row PROVE Selects(q, ctx, row) <=> Selects(r, ctx, row) /\ RowFilters(q, row)
    <2>1. /\ Ruled(r, ctx, row) <=> Ruled(q, ctx, row)
          /\ InSegments(r, row) <=> InSegments(q, row)
          /\ InRanges(r, row) <=> InRanges(q, row)
      BY <1>1, Zenon DEF Ruled, InSegments, InRanges
    <2>2. Selects(r, ctx, row) <=> Ruled(r, ctx, row) /\ InSegments(r, row) /\ InRanges(r, row)
      BY <1>1, <1>3, SelectedWhen
    <2>3. Selects(q, ctx, row) <=>
             /\ Ruled(q, ctx, row) /\ InSegments(q, row) /\ InRanges(q, row)
             /\ RowFilters(q, row)
      BY SelectedWhen, Zenon DEF RowFilters
    <2> QED
      BY <2>1, <2>2, <2>3
  <1>5. /\ SelectedRows(q, ctx, db) = {row \in JoinedRows(q, db) : Selects(q, ctx, row)}
        /\ SelectedRows(r, ctx, db) = {row \in JoinedRows(q, db) : Selects(r, ctx, row)}
    BY <1>2, Zenon DEF SelectedRows, Selects
  <1> QED
    BY <1>4, <1>5 DEF r

-----------------------------------------------------------------------------
(* A filter says the same of the rows of a group and of its row in the answer. *)

LEMMA MembersOf ==
    ASSUME NEW q, NEW f \in ToSet(q.filters), NEW leaf \in Leaves(f)
    PROVE  leaf.member \in FilterPaths(q.filters)
  BY DEF FilterPaths

LEMMA GroupedValue ==
    ASSUME NEW q, IsQuery(q), NEW p \in Grouped(q), NEW row
    PROVE  KeyPart(p, row) = ValueIn(row, p)
  <1>1. p = <<p[1], p[2]>>
    BY PathsOf
  <1>2. Len(<<p[1], p[2]>>) = 2
    OBVIOUS
  <1>3. Len(p) = 2
    BY <1>1, <1>2, Zenon
  <1> QED
    BY <1>3, Zenon DEF KeyPart

LEMMA GroupedIsKey ==
    ASSUME NEW q, NEW ctx, Renders(q, ctx), NEW p \in Grouped(q), Kind(p) # "measure"
    PROVE  p \in Keys(q)
  BY DEF Renders, Keys, Outputs

\* A filter of dimensions, of rows with the same values of what is grouped by.
LEMMA RowFilterHolds ==
    ASSUME NEW q, NEW ctx, Renders(q, ctx), FilterPaths(q.filters) \subseteq Selectable(q),
           NEW f \in ToSet(q.filters), ~IsMeasureFilter(f), NEW row, NEW out,
           \A p \in Grouped(q) : Kind(p) # "measure" => out[p] = ValueIn(row, p)
    PROVE  Holds(f, out) <=> True(RowText(f, row))
  <1>1. ASSUME NEW leaf \in Leaves(f) PROVE out[leaf.member] = ValueIn(row, leaf.member)
    <2>1. Kind(leaf.member) # "measure"
      BY DEF Renders, FilterRenders
    <2>2. leaf.member \in Selectable(q)
      BY MembersOf
    <2>3. leaf.member \in Grouped(q)
      BY <2>1, <2>2 DEF Selectable, Renders
    <2> QED
      BY <2>1, <2>3
  <1>2. [leaf \in Leaves(f) |-> OperatorText(leaf.operator, out[leaf.member], leaf.values)]
         = [leaf \in Leaves(f) |->
              OperatorText(leaf.operator, ValueIn(row, leaf.member), leaf.values)]
    BY <1>1, Zenon
  <1> QED
    BY <1>2, Zenon DEF Holds, RowText

\* A filter of measures, of a group and its row in the answer.
LEMMA GroupFilterHolds ==
    ASSUME NEW q, NEW ctx, Renders(q, ctx), FilterPaths(q.filters) \subseteq Selectable(q),
           NEW f \in ToSet(q.filters), IsMeasureFilter(f), NEW group, NEW out,
           \A p \in ToSet(q.measures) : out[p] = Aggregate(p, group)
    PROVE  Holds(f, out) <=> True(GroupText(f, group))
  <1>1. ASSUME NEW leaf \in Leaves(f) PROVE out[leaf.member] = Aggregate(leaf.member, group)
    <2>1. Kind(leaf.member) = "measure"
      BY DEF IsMeasureFilter
    <2>2. leaf.member \in Selectable(q)
      BY MembersOf
    <2> QED
      BY <2>1, <2>2 DEF Selectable
  <1>2. [leaf \in Leaves(f) |-> OperatorText(leaf.operator, out[leaf.member], leaf.values)]
         = [leaf \in Leaves(f) |->
              OperatorText(leaf.operator, Aggregate(leaf.member, group), leaf.values)]
    BY <1>1, Zenon
  <1> QED
    BY <1>2, Zenon DEF Holds, GroupText

\* Rows of a group pass the filters of dimensions together.
LEMMA FiltersOfKey ==
    ASSUME NEW q, IsQuery(q), NEW ctx, Renders(q, ctx), FilterPaths(q.filters) \subseteq Selectable(q),
           NEW row, NEW other, KeyOf(q, row) = KeyOf(q, other)
    PROVE  RowFilters(q, row) <=> RowFilters(q, other)
  <1>1. ASSUME NEW x
        PROVE  \A p \in Grouped(q) : Kind(p) # "measure" => KeyOf(q, x)[p] = ValueIn(x, p)
    BY GroupedIsKey, GroupedValue DEF KeyOf
  <1>2. ASSUME NEW f \in ToSet(q.filters), ~IsMeasureFilter(f)
        PROVE  True(RowText(f, row)) <=> True(RowText(f, other))
    <2>1. /\ Holds(f, KeyOf(q, row)) <=> True(RowText(f, row))
          /\ Holds(f, KeyOf(q, other)) <=> True(RowText(f, other))
      BY <1>1, <1>2, RowFilterHolds
    <2> QED
      BY <2>1
  <1> QED
    BY <1>2, Zenon DEF RowFilters

\* The groups that a set of rows falls into.
GroupOf(q, rows, first) == {row \in rows : KeyOf(q, row) = KeyOf(q, first)}

LEMMA GroupsAre ==
    ASSUME NEW q, NEW rows, Keys(q) # {}, NEW g
    PROVE  g \in Groups(q, rows) <=> \E first \in rows : g = GroupOf(q, rows, first)
  <1>1. Groups(q, rows) = {GroupOf(q, rows, first) : first \in rows}
    BY Zenon DEF Groups, Keys, KeyOf, GroupOf
  <1> QED
    BY <1>1

\* The groups of the rows that pass are the groups whose rows pass.
LEMMA GroupsOfFiltered ==
    ASSUME NEW q, IsQuery(q), NEW ctx, Renders(q, ctx), FilterPaths(q.filters) \subseteq Selectable(q),
           Keys(q) # {}, NEW rows, NEW passing,
           \A row : row \in passing <=> row \in rows /\ RowFilters(q, row), NEW g
    PROVE  g \in Groups(q, passing) <=> g \in Groups(q, rows) /\ RowFilters(q, ChosenIn(g))
  <1>1. ASSUME NEW first \in rows, g = GroupOf(q, rows, first)
        PROVE  ChosenIn(g) \in rows /\ KeyOf(q, ChosenIn(g)) = KeyOf(q, first)
    <2>1. first \in g
      BY <1>1 DEF GroupOf
    <2>2. ChosenIn(g) \in g
      BY <2>1, Zenon DEF ChosenIn
    <2> QED
      BY <1>1, <2>2 DEF GroupOf
  <1>2. ASSUME NEW first \in passing PROVE GroupOf(q, passing, first) = GroupOf(q, rows, first)
    <2>1. ASSUME NEW row \in rows, KeyOf(q, row) = KeyOf(q, first) PROVE row \in passing
      BY <1>2, <2>1, FiltersOfKey
    <2> QED
      BY <2>1 DEF GroupOf
  <1>3. ASSUME g \in Groups(q, passing)
        PROVE  g \in Groups(q, rows) /\ RowFilters(q, ChosenIn(g))
    <2>1. PICK first \in passing : g = GroupOf(q, passing, first)
      BY <1>3, GroupsAre
    <2>2. first \in rows /\ RowFilters(q, first) /\ g = GroupOf(q, rows, first)
      BY <1>2, <2>1
    <2>3. RowFilters(q, ChosenIn(g))
      BY <1>1, <2>2, FiltersOfKey
    <2> QED
      BY <2>2, <2>3, GroupsAre
  <1>4. ASSUME g \in Groups(q, rows), RowFilters(q, ChosenIn(g))
        PROVE  g \in Groups(q, passing)
    <2>1. PICK first \in rows : g = GroupOf(q, rows, first)
      BY <1>4, GroupsAre
    <2>2. RowFilters(q, first)
      BY <1>1, <1>4, <2>1, FiltersOfKey
    <2>3. first \in passing /\ g = GroupOf(q, passing, first)
      BY <1>2, <2>1, <2>2
    <2> QED
      BY <2>3, GroupsAre
  <1> QED
    BY <1>3, <1>4

LEMMA HoldsOfRow ==
    ASSUME NEW q, NEW ctx, IsQuery(q), Renders(q, ctx),
           FilterPaths(q.filters) \subseteq Selectable(q), WindowsOf(q) = {}, NEW g
    PROVE  (\A f \in ToSet(q.filters) : Holds(f, RowOf(q, g)))
              <=> RowFilters(q, ChosenIn(g)) /\ Having(q, g)
  <1> DEFINE out == RowOf(q, g)
  <1>1. \A p \in Grouped(q) : Kind(p) # "measure" => out[p] = ValueIn(ChosenIn(g), p)
    BY GroupedIsKey, GroupedValue DEF RowOf
  <1>2. \A p \in ToSet(q.measures) : out[p] = Aggregate(p, g)
    BY DEF RowOf, Keys, Selected
  <1> HIDE DEF out
  <1>3. ASSUME NEW f \in ToSet(q.filters)
        PROVE  Holds(f, out) <=> /\ ~IsMeasureFilter(f) => True(RowText(f, ChosenIn(g)))
                                 /\ IsMeasureFilter(f) => True(GroupText(f, g))
    <2>1. CASE IsMeasureFilter(f)
      BY <1>2, <2>1, GroupFilterHolds
    <2>2. CASE ~IsMeasureFilter(f)
      BY <1>1, <2>2, RowFilterHolds
    <2> QED
      BY <2>1, <2>2
  <1>4. Having(q, g) <=> \A f \in ToSet(q.filters) : IsMeasureFilter(f) => True(GroupText(f, g))
    <2>1. ToSet(q.filters) = {q.filters[i] : i \in DOMAIN q.filters}
      BY ListOf DEF IsQuery
    <2> QED
      BY <2>1 DEF Having
  <1> QED
    BY <1>3, <1>4, Zenon DEF RowFilters, out

\* Without window functions, an answer has a row of each group.
LEMMA RowsAre ==
    ASSUME NEW q, NEW ctx, NEW db, WindowsOf(q) = {}, NEW out
    PROVE  out \in Rows(q, ctx, db) <=>
              \E g \in Groups(q, SelectedRows(q, ctx, db)) : Having(q, g) /\ out = RowOf(q, g)
  <1> DEFINE inner == GroupedRows(q, ctx, db)
             groups == {g \in Groups(q, SelectedRows(q, ctx, db)) : Having(q, g)}
             columns == Outputs(q) \cup Selected(q)
  <1>1. inner = {RowOf(q, g) : g \in groups}
    BY Zenon DEF GroupedRows, RowOf, Keys, ChosenIn
  <1>2. Keys(q) \cup Selected(q) = columns
    BY DEF Keys, Selected, Outputs
  <1>3. \A g : RowOf(q, g) = [p \in columns |-> RowOf(q, g)[p]]
    BY <1>2, Zenon DEF RowOf
  <1>4. Rows(q, ctx, db) = {[p \in columns |-> row[p]] : row \in inner}
    <2>1. \A row : [p \in columns |-> IF p \in WindowsOf(q) THEN WindowValue(q, p, row, inner)
                                     ELSE row[p]]
                   = [p \in columns |-> row[p]]
      OBVIOUS
    <2> HIDE DEF inner, columns
    <2>2. Outer(q, inner) = {[p \in columns |-> row[p]] : row \in inner}
      BY <2>1 DEF Outer, columns
    <2> QED
      BY <2>2, Zenon DEF Rows, inner
  <1> HIDE DEF inner, columns
  <1>5. out \in Rows(q, ctx, db) <=> \E g \in groups : out = RowOf(q, g)
    BY <1>1, <1>3, <1>4
  <1> QED
    BY <1>5, Zenon

\* Filters of what a query selects and groups by choose among its rows.
THEOREM Filters == Spec => []FiltersSelectGroups
  <1>1. FiltersSelectGroups
    <2> SUFFICES ASSUME NEW q \in Queried, NEW ctx \in Contexts,
                        Asked(q, ctx), Plain(q), NoneBare(q, ctx), Keys(q) # {},
                        FilterPaths(q.filters) \subseteq Selectable(q)
                 PROVE  Rows(q, ctx, source) =
                           {row \in Rows(Unfiltered(q), ctx, source) :
                               \A f \in ToSet(q.filters) : Holds(f, row)}
      BY Zenon DEF FiltersSelectGroups, AskedOfBase, Keys, Selectable
    <2> DEFINE r    == Unfiltered(q)
               rows == SelectedRows(r, ctx, source)
               passing == SelectedRows(q, ctx, source)
    <2>1. IsQuery(q) /\ Renders(q, ctx) /\ WindowsOf(q) = {} /\ SinglyJoined(q, ctx)
      BY IsAQuery, PartsOfAsked DEF Asked, Plain
    <2>2. /\ r.measures = q.measures /\ ToSet(r.filters) = {} /\ DOMAIN r.filters = {}
          /\ WindowsOf(r) = {} /\ Outputs(r) = Outputs(q) /\ Selected(r) = Selected(q)
      BY <2>1, UnfilteredFields, UnfilteredParts DEF ToSet
    <2>3. \A row : row \in passing <=> row \in rows /\ RowFilters(q, row)
      <3> HIDE DEF r
      <3>2. passing = {row \in rows : RowFilters(q, row)}
        BY <2>1, UnfilteredSelection DEF r
      <3> HIDE DEF rows, passing
      <3> QED
        BY <3>2
    <2> HIDE DEF r
    <2>4. Keys(r) = Keys(q)
      BY <2>2, Zenon DEF Keys
    <2>5. \A row : KeyOf(r, row) = KeyOf(q, row)
      BY <2>2, <2>4, Zenon DEF KeyOf
    <2>6. /\ \A g : RowOf(r, g) = RowOf(q, g)
          /\ \A g : g \in Groups(r, rows) <=> g \in Groups(q, rows)
          /\ \A g : Having(r, g)
      <3>1. \A g : RowOf(r, g) = RowOf(q, g)
        BY <2>2, <2>4, Zenon DEF RowOf
      <3>2. \A first : GroupOf(r, rows, first) = GroupOf(q, rows, first)
        BY <2>5, Zenon DEF GroupOf
      <3>3. \A g : Having(r, g)
        BY <2>2 DEF Having
      <3> HIDE DEF rows
      <3> QED
        BY <2>4, <3>1, <3>2, <3>3, GroupsAre
    <2> HIDE DEF rows, passing
    <2>7. ASSUME NEW out
          PROVE  out \in Rows(q, ctx, source) <=>
                    out \in Rows(r, ctx, source) /\ \A f \in ToSet(q.filters) : Holds(f, out)
      <3>1. out \in Rows(q, ctx, source) <=>
               \E g : g \in Groups(q, passing) /\ Having(q, g) /\ out = RowOf(q, g)
        BY <2>1, RowsAre DEF passing
      <3>2. out \in Rows(r, ctx, source) <=>
               \E g : g \in Groups(q, rows) /\ out = RowOf(q, g)
        BY <2>2, <2>6, RowsAre DEF rows
      <3>3. \A g : g \in Groups(q, passing) <=> g \in Groups(q, rows) /\ RowFilters(q, ChosenIn(g))
        BY <2>1, <2>3, GroupsOfFiltered
      <3>4. \A g : (\A f \in ToSet(q.filters) : Holds(f, RowOf(q, g)))
                      <=> RowFilters(q, ChosenIn(g)) /\ Having(q, g)
        BY <2>1, HoldsOfRow
      <3> QED
        BY <3>1, <3>2, <3>3, <3>4, Zenon
    <2> QED
      BY <2>7 DEF r
  <1> QED
    BY <1>1, PTL

-----------------------------------------------------------------------------
(* Totals. *)

LEMMA ImageIsFinite ==
    ASSUME NEW S, IsFiniteSet(S), NEW h PROVE IsFiniteSet({h[x] : x \in S})
  <1> DEFINE Image(s) == {h[x] : x \in s}
             Up == {s \in SUBSET S : IsFiniteSet(Image(s))}
  <1>1. {} \in Up
    <2>1. Image({}) = {}
      OBVIOUS
    <2> QED
      BY <2>1, FS_EmptySet
  <1>2. ASSUME NEW s \in SUBSET S, NEW x \in S \ s, s \in Up PROVE s \cup {x} \in Up
    <2>1. Image(s \cup {x}) = Image(s) \cup {h[x]}
      OBVIOUS
    <2>2. IsFiniteSet(Image(s))
      BY <1>2
    <2> HIDE DEF Image
    <2>3. IsFiniteSet(Image(s) \cup {h[x]})
      BY <2>2, FS_AddElement
    <2> QED
      BY <2>1, <2>3
  <1> HIDE DEF Up
  <1>3. S \in Up
    BY <1>1, <1>2, FiniteInduction
  <1> QED
    BY <1>3 DEF Up

\* What a row counts in a total of an additive measure.
Counts(m, row) ==
    /\ True(AndJoin([i \in DOMAIN Member(m).filters |-> RowText(Member(m).filters[i], row)]))
    /\ Member(m).sql # None => ValueIn(row, m) # None

Weight(m, row) ==
    IF ~Counts(m, row) THEN 0 ELSE IF Member(m).type = "count" THEN 1 ELSE ValueIn(row, m)

Worth(v) == IF v = None THEN 0 ELSE v

LEMMA CountedAre ==
    ASSUME NEW m, NEW group
    PROVE  Counted(m, group) = {row \in group : Counts(m, row)}
  BY Zenon DEF Counted, Counts

LEMMA ValueOfGroup ==
    ASSUME NEW m, Member(m).type \in AdditiveTypes, NEW group, IsFiniteSet(group),
           \A row \in group : Weight(m, row) \in Int,
           NEW w, \A row \in group : w[row] = Weight(m, row)
    PROVE  Worth(Aggregate(m, group)) = SumFunctionOnSet(w, group)
  <1> DEFINE inputs == Counted(m, group)
             values == {ValueIn(row, m) : row \in inputs}
             ones   == [row \in inputs |-> 1]
             inCol  == [row \in inputs |-> ValueIn(row, m)]
  <1>1. /\ inputs \in SUBSET group /\ IsFiniteSet(inputs)
        /\ \A row \in group : row \in inputs <=> Counts(m, row)
    <2>1. inputs = {row \in group : Counts(m, row)}
      BY CountedAre
    <2> HIDE DEF inputs
    <2>2. inputs \in SUBSET group
      BY <2>1
    <2> QED
      BY <2>1, <2>2, FS_Subset
  <1>2. Aggregate(m, group) = OfType(Member(m).type, m, inputs, values)
    <2>1. Member(m).type # "calculated"
      BY DEF AdditiveTypes
    <2> QED
      BY <2>1, Zenon DEF Aggregate, Concrete, OverCounted
  <1> HIDE DEF inputs, values
  <1>3. CASE Member(m).type = "count"
    <2>1. Aggregate(m, group) = Cardinality(inputs)
      BY <1>2, <1>3 DEF OfType
    <2>2. SumFunctionOnSet(ones, inputs) = Cardinality(inputs)
      BY <1>1, CardinalityIsSum
    <2>3. \A row \in group : w[row] = IF row \in inputs THEN ones[row] ELSE 0
      BY <1>1, <1>3 DEF Weight
    <2>4. \A row \in inputs : ones[row] \in Int
      OBVIOUS
    <2> HIDE DEF ones
    <2>5. SumFunctionOnSet(ones, inputs) = SumFunctionOnSet(w, group)
      BY <1>1, <2>3, <2>4, SumWhere
    <2>6. Cardinality(inputs) # None
      BY <1>1, FS_CardinalityType, UniverseAssumption
    <2> QED
      BY <2>1, <2>2, <2>5, <2>6 DEF Worth
  <1>4. CASE Member(m).type = "sum"
    <2>1. Aggregate(m, group) = IF inputs = {} THEN None ELSE SumFunction(inCol)
      BY <1>2, <1>4, Zenon DEF OfType
    <2>2. \A row \in group : row \in inputs => ValueIn(row, m) = Weight(m, row)
      BY <1>1, <1>4 DEF Weight
    <2>3. SumFunction(inCol) = SumFunctionOnSet(inCol, inputs)
      BY DEF SumFunction
    <2>4. /\ \A row \in inputs : inCol[row] \in Int
          /\ \A row \in group : w[row] = IF row \in inputs THEN inCol[row] ELSE 0
      BY <1>1, <1>4, <2>2 DEF Weight
    <2> HIDE DEF inCol
    <2>5. SumFunctionOnSet(inCol, inputs) = SumFunctionOnSet(w, group)
      BY <1>1, <2>4, SumWhere
    <2>6. SumFunctionOnSet(inCol, inputs) \in Int
      BY <1>1, <2>4, SumType
    <2>7. CASE inputs = {}
      <3>1. SumFunctionOnSet(inCol, {}) = 0
        BY SumStep, FS_EmptySet
      <3>2. SumFunctionOnSet(inCol, inputs) = 0
        BY <2>7, <3>1
      <3> QED
        BY <2>1, <2>5, <2>7, <3>2 DEF Worth
    <2>8. CASE inputs # {}
      <3>1. SumFunction(inCol) # None
        BY <2>3, <2>6, UniverseAssumption
      <3> QED
        BY <2>1, <2>3, <2>5, <2>8, <3>1 DEF Worth
    <2> QED
      BY <2>7, <2>8
  <1> QED
    BY <1>3, <1>4 DEF AdditiveTypes

LEMMA GroupsPartition ==
    ASSUME NEW q, NEW rows, IsFiniteSet(rows)
    PROVE  LET groups == Groups(q, rows)
           IN  /\ IsFiniteSet(groups) /\ UNION groups = rows
               /\ \A g \in groups : IsFiniteSet(g)
               /\ \A g, h \in groups : g # h => \A x \in g : x \notin h
               /\ \A g, h \in groups :
                     (\A p \in Keys(q) : RowOf(q, g)[p] = RowOf(q, h)[p]) => g = h
               /\ Keys(q) # {} => \A g \in groups : ChosenIn(g) \in g
  <1> DEFINE groups == Groups(q, rows)
  <1>1. CASE Keys(q) = {}
    <2>1. groups = {rows}
      BY <1>1 DEF Groups, Keys
    <2>2. IsFiniteSet({rows}) /\ UNION {rows} = rows
      BY FS_Singleton
    <2> HIDE DEF groups
    <2>3. \A g \in groups : g = rows
      BY <2>1
    <2>4. IsFiniteSet(groups) /\ UNION groups = rows
      BY <2>1, <2>2
    <2> QED
      BY <1>1, <2>3, <2>4 DEF groups
  <1>2. CASE Keys(q) # {}
    <2>1. \A g : g \in groups <=> \E first \in rows : g = GroupOf(q, rows, first)
      BY <1>2, GroupsAre
    <2>2. IsFiniteSet(groups)
      <3> DEFINE of == [first \in rows |-> GroupOf(q, rows, first)]
      <3>1. groups = {of[first] : first \in rows}
        BY <2>1
      <3> HIDE DEF of, groups
      <3> QED
        BY <3>1, ImageIsFinite
    <2>3. \A g \in groups : g \subseteq rows
      BY <2>1 DEF GroupOf
    <2>4. UNION groups = rows
      <3>1. \A x \in rows : x \in GroupOf(q, rows, x)
        BY DEF GroupOf
      <3> HIDE DEF groups
      <3> QED
        BY <2>1, <2>3, <3>1
    <2>5. \A g \in groups : IsFiniteSet(g)
      BY <2>3, FS_Subset
    <2>6. ASSUME NEW g \in groups, NEW h \in groups, NEW x \in g, NEW y \in h,
                 KeyOf(q, x) = KeyOf(q, y)
          PROVE  g = h
      <3>1. PICK a \in rows : g = GroupOf(q, rows, a)
        BY <2>1
      <3>2. PICK b \in rows : h = GroupOf(q, rows, b)
        BY <2>1
      <3>3. KeyOf(q, a) = KeyOf(q, b)
        BY <2>6, <3>1, <3>2 DEF GroupOf
      <3> QED
        BY <3>1, <3>2, <3>3, Zenon DEF GroupOf
    <2>7. \A g \in groups : g # {} /\ ChosenIn(g) \in g
      BY <2>1 DEF GroupOf, ChosenIn
    <2>8. ASSUME NEW g \in groups, NEW h \in groups,
                 \A p \in Keys(q) : RowOf(q, g)[p] = RowOf(q, h)[p]
          PROVE  g = h
      <3>1. \A p \in Keys(q) : /\ RowOf(q, g)[p] = KeyPart(p, ChosenIn(g))
                               /\ RowOf(q, h)[p] = KeyPart(p, ChosenIn(h))
        BY DEF RowOf
      <3>2. \A p \in Keys(q) : KeyPart(p, ChosenIn(g)) = KeyPart(p, ChosenIn(h))
        BY <2>8, <3>1
      <3>3. KeyOf(q, ChosenIn(g)) = KeyOf(q, ChosenIn(h))
        BY <3>2, Zenon DEF KeyOf
      <3> QED
        BY <2>6, <2>7, <3>3
    <2> HIDE DEF groups
    <2>9. \A g, h \in groups : g # h => \A x \in g : x \notin h
      BY <2>6
    <2> QED
      BY <2>2, <2>4, <2>5, <2>7, <2>8, <2>9 DEF groups
  <1> QED
    BY <1>1, <1>2

-----------------------------------------------------------------------------
\* The row of a cube beside a row of the primary cube, where there is just one.
Partner(q, row, c) == CHOOSE other : other \in Beside(q, row, c, source)

Alone(q, row) == [c \in JoinedCubes(q) |-> Partner(q, row, c)]

\* A query that joins one row of each cube to each row of its primary cube.
JoinsOne(q) ==
    /\ Primary(q) \in JoinedCubes(q)
    /\ IsFiniteSet(source[Primary(q)])
    /\ \A row \in source[Primary(q)] : \A c \in JoinedCubes(q) :
          Beside(q, row, c, source) = {Partner(q, row, c)}

LEMMA AloneAreJoined ==
    ASSUME NEW q, JoinsOne(q)
    PROVE  /\ \A joined : joined \in JoinedRows(q, source)
                              <=> \E row \in source[Primary(q)] : joined = Alone(q, row)
           /\ \A row \in source[Primary(q)] : Alone(q, row)[Primary(q)] = row
  <1>1. ASSUME NEW row \in source[Primary(q)] PROVE Alone(q, row)[Primary(q)] = row
    <2>1. Beside(q, row, Primary(q), source) = {row}
      BY DEF Beside
    <2>2. Partner(q, row, Primary(q)) \in Beside(q, row, Primary(q), source)
      BY DEF JoinsOne
    <2>3. Partner(q, row, Primary(q)) = row
      BY <2>1, <2>2
    <2> QED
      BY <2>3 DEF Alone, JoinsOne
  <1>2. ASSUME NEW joined
        PROVE  joined \in JoinedRows(q, source)
                  <=> \E row \in source[Primary(q)] : joined = Alone(q, row)
    <2>1. ASSUME NEW row \in source[Primary(q)]
          PROVE  /\ joined = [c \in JoinedCubes(q) |-> joined[c]]
                 /\ \A c \in JoinedCubes(q) : joined[c] \in Beside(q, row, c, source)
                 <=> joined = Alone(q, row)
      <3>1. \A c \in JoinedCubes(q) : joined[c] \in Beside(q, row, c, source)
                                         <=> joined[c] = Partner(q, row, c)
        BY DEF JoinsOne
      <3>2. ASSUME joined = Alone(q, row)
            PROVE  /\ joined = [c \in JoinedCubes(q) |-> joined[c]]
                   /\ \A c \in JoinedCubes(q) : joined[c] = Partner(q, row, c)
        BY <3>2 DEF Alone
      <3>3. ASSUME joined = [c \in JoinedCubes(q) |-> joined[c]],
                   \A c \in JoinedCubes(q) : joined[c] = Partner(q, row, c)
            PROVE  joined = Alone(q, row)
        BY <3>3, Zenon DEF Alone
      <3> QED
        BY <3>1, <3>2, <3>3
    <2> QED
      BY <2>1, JoinedRow
  <1> QED
    BY <1>1, <1>2

\* What a row of the primary cube counts in the total of a query's measure.
WeightOf(q, ctx, m, row) ==
    IF Selects(q, ctx, Alone(q, row)) THEN Weight(m, Alone(q, row)) ELSE 0

\* The total of a measure over an answer is one over the rows of the primary cube.
LEMMA TotalIs ==
    ASSUME NEW q, NEW ctx, JoinsOne(q), WindowsOf(q) = {},
           \A i \in DOMAIN q.filters : ~IsMeasureFilter(q.filters[i]),
           NEW m \in ToSet(q.measures), Member(m).type \in AdditiveTypes,
           \A row \in source[Primary(q)] : Weight(m, Alone(q, row)) \in Int,
           NEW w, \A row \in source[Primary(q)] : w[row] = WeightOf(q, ctx, m, row)
    PROVE  Total(Rows(q, ctx, source), m) = SumFunctionOnSet(w, source[Primary(q)])
  <1> DEFINE all      == source[Primary(q)]
             kept     == {row \in all : Selects(q, ctx, Alone(q, row))}
             alone    == [row \in all |-> Alone(q, row)]
             rows     == SelectedRows(q, ctx, source)
             groups   == Groups(q, rows)
             answer   == Rows(q, ctx, source)
             weights  == [row \in rows |-> Weight(m, row)]
             of       == [g \in groups |-> RowOf(q, g)]
             worths   == [row \in answer |-> IF row[m] = None THEN 0 ELSE row[m]]
             ofGroups == [g \in groups |-> Worth(Aggregate(m, g))]
             ofKept   == [row \in kept |-> Weight(m, Alone(q, row))]
  <1>1. /\ IsFiniteSet(all) /\ kept \in SUBSET all /\ IsFiniteSet(kept)
        /\ \A row \in kept : row \in all
    BY FS_Subset DEF JoinsOne
  <1>2. rows = {alone[row] : row \in kept}
    <2>1. \A x : x \in rows <=> x \in JoinedRows(q, source) /\ Selects(q, ctx, x)
      BY DEF SelectedRows, Selects
    <2>2. \A x : x \in rows <=> \E row \in all : x = Alone(q, row) /\ Selects(q, ctx, Alone(q, row))
      <3> HIDE DEF rows
      <3> QED
        BY <2>1, AloneAreJoined
    <2>3. \A row \in kept : alone[row] = Alone(q, row)
      OBVIOUS
    <2> HIDE DEF rows, alone
    <2> QED
      BY <2>2, <2>3
  <1>3. IsFiniteSet(rows)
    <2> HIDE DEF rows, alone, kept
    <2> QED
      BY <1>1, <1>2, ImageIsFinite
  <1>4. \A row \in rows : Weight(m, row) \in Int
    <2> HIDE DEF rows
    <2> QED
      BY <1>2
  <1>5. /\ IsFiniteSet(groups) /\ UNION groups = rows
        /\ \A g \in groups : IsFiniteSet(g)
        /\ \A g, h \in groups : g # h => \A x \in g : x \notin h
        /\ \A g, h \in groups : RowOf(q, g) = RowOf(q, h) => g = h
    BY <1>3, GroupsPartition
  <1>6. answer = {of[g] : g \in groups}
    <2>1. \A g : Having(q, g)
      BY DEF Having
    <2>2. \A out : out \in answer <=> \E g \in groups : out = RowOf(q, g)
      <3> HIDE DEF answer, groups
      <3> QED
        BY <2>1, RowsAre DEF answer, groups
    <2> HIDE DEF answer, groups
    <2> QED
      BY <2>2
  <1>7. \A g : RowOf(q, g)[m] = Aggregate(m, g)
    BY DEF RowOf, Keys, Selected
  <1>8. \A g \in groups : Worth(Aggregate(m, g)) = SumFunctionOnSet(weights, g)
    <2> SUFFICES ASSUME NEW g \in groups
                 PROVE  Worth(Aggregate(m, g)) = SumFunctionOnSet(weights, g)
      OBVIOUS
    <2> HIDE DEF groups
    <2>1. IsFiniteSet(g) /\ \A row \in g : row \in rows
      BY <1>5
    <2>2. \A row \in g : weights[row] = Weight(m, row) /\ Weight(m, row) \in Int
      BY <1>4, <2>1
    <2> HIDE DEF weights
    <2> QED
      BY <2>1, <2>2, ValueOfGroup
  <1> HIDE DEF rows, groups, answer
  <1>9. Total(answer, m) = SumFunctionOnSet(worths, answer)
    BY DEF Total, SumFunction
  <1>10. \A g \in groups : ofGroups[g] = SumFunctionOnSet(weights, g) /\ ofGroups[g] \in Int
    <2> SUFFICES ASSUME NEW g \in groups
                 PROVE  ofGroups[g] = SumFunctionOnSet(weights, g) /\ ofGroups[g] \in Int
      OBVIOUS
    <2>1. ofGroups[g] = SumFunctionOnSet(weights, g)
      BY <1>8
    <2>2. IsFiniteSet(g) /\ \A row \in g : weights[row] \in Int
      BY <1>4, <1>5
    <2> HIDE DEF ofGroups, weights
    <2> QED
      BY <2>1, <2>2, SumType
  <1>11. SumFunctionOnSet(worths, answer) = SumFunctionOnSet(ofGroups, groups)
    <2>1. \A g \in groups : ofGroups[g] \in Int /\ worths[of[g]] = ofGroups[g]
      <3>1. \A g \in groups : of[g] \in answer /\ of[g] = RowOf(q, g)
        BY <1>6
      <3>2. \A g \in groups : worths[of[g]] = Worth(Aggregate(m, g))
        <4> HIDE DEF of
        <4> QED
          BY <1>7, <3>1 DEF Worth
      <3> QED
        BY <1>10, <3>2
    <2>2. \A g, h \in groups : of[g] = of[h] => g = h
      BY <1>5
    <2> HIDE DEF worths, of, ofGroups
    <2>3. SumFunctionOnSet(worths, {of[g] : g \in groups}) = SumFunctionOnSet(ofGroups, groups)
      BY <1>5, <2>1, <2>2, SumImage
    <2> QED
      BY <1>6, <2>3
  <1>12. SumFunctionOnSet(weights, rows) = SumFunctionOnSet(ofGroups, groups)
    <2>1. \A row \in UNION groups : weights[row] \in Int
      BY <1>4, <1>5
    <2> HIDE DEF weights, ofGroups
    <2>2. SumFunctionOnSet(weights, UNION groups) = SumFunctionOnSet(ofGroups, groups)
      BY <1>5, <1>10, <2>1, SumParts
    <2> QED
      BY <1>5, <2>2
  <1>13. SumFunctionOnSet(weights, rows) = SumFunctionOnSet(ofKept, kept)
    <2>1. \A row \in kept : alone[row] = Alone(q, row) /\ alone[row] \in rows
      BY <1>2
    <2>2. \A row \in kept : ofKept[row] \in Int /\ weights[alone[row]] = ofKept[row]
      <3> HIDE DEF alone
      <3> QED
        BY <1>4, <2>1
    <2>3. \A x, y \in kept : alone[x] = alone[y] => x = y
      <3>1. \A x \in kept : alone[x][Primary(q)] = x
        BY <2>1, AloneAreJoined
      <3> HIDE DEF alone
      <3> QED
        BY <3>1
    <2> HIDE DEF weights, ofKept, alone, kept
    <2>4. SumFunctionOnSet(weights, {alone[row] : row \in kept}) = SumFunctionOnSet(ofKept, kept)
      BY <1>1, <2>2, <2>3, SumImage
    <2> QED
      BY <1>2, <2>4
  <1>14. SumFunctionOnSet(ofKept, kept) = SumFunctionOnSet(w, all)
    <2>1. /\ \A row \in kept : ofKept[row] \in Int
          /\ \A row \in all : w[row] = IF row \in kept THEN ofKept[row] ELSE 0
      BY DEF WeightOf
    <2> HIDE DEF ofKept, kept, all
    <2> QED
      BY <1>1, <2>1, SumWhere
  <1> HIDE DEF worths, ofGroups, weights, ofKept, kept, all
  <1> QED
    BY <1>9, <1>11, <1>12, <1>13, <1>14 DEF answer, all

-----------------------------------------------------------------------------
\* A query and the same without what it groups by.
LEMMA UngroupedFields ==
    ASSUME NEW q, IsQuery(q)
    PROVE  LET u == Ungrouped(q)
           IN  /\ u.measures = q.measures /\ u.dimensions = <<>>
               /\ u.segments = q.segments /\ u.filters = q.filters
               /\ DOMAIN u.timeDimensions = DOMAIN q.timeDimensions
               /\ \A i \in DOMAIN q.timeDimensions :
                     /\ u.timeDimensions[i].path = q.timeDimensions[i].path
                     /\ u.timeDimensions[i].dateRange = q.timeDimensions[i].dateRange
                     /\ u.timeDimensions[i].granularity = None
  <1> DEFINE u == Ungrouped(q)
             tds == [i \in DOMAIN q.timeDimensions |->
                        [q.timeDimensions[i] EXCEPT !.granularity = None]]
  <1>1. /\ u.measures = q.measures /\ u.dimensions = <<>> /\ u.segments = q.segments
        /\ u.filters = q.filters /\ u.timeDimensions = tds
    BY DEF IsQuery, Ungrouped
  <1>2. ASSUME NEW i \in DOMAIN q.timeDimensions
        PROVE  /\ tds[i].path = q.timeDimensions[i].path
               /\ tds[i].dateRange = q.timeDimensions[i].dateRange
               /\ tds[i].granularity = None
    <2>1. q.timeDimensions[i] \in ToSet(q.timeDimensions)
      BY DEF ToSet
    <2>2. q.timeDimensions[i] = [path |-> q.timeDimensions[i].path,
                                 granularity |-> q.timeDimensions[i].granularity,
                                 dateRange |-> q.timeDimensions[i].dateRange]
      BY <2>1, Zenon DEF IsQuery
    <2> QED
      BY <2>2
  <1>3. DOMAIN tds = DOMAIN q.timeDimensions
    OBVIOUS
  <1> HIDE DEF u, tds
  <1> QED
    BY <1>1, <1>2, <1>3 DEF u

LEMMA UngroupedParts ==
    ASSUME NEW q, IsQuery(q), WindowsOf(q) = {}, NEW m \in ToSet(q.measures)
    PROVE  LET u == Ungrouped(q)
           IN  /\ WindowsOf(u) = {} /\ TimePaths(u) = TimePaths(q) /\ Selected(u) = Selected(q)
               /\ Primary(u) = Primary(q) /\ Primary(u) \in RuledCubes(u)
               /\ RuledCubes(u) \subseteq RuledCubes(q)
               /\ JoinedCubes(u) \subseteq JoinedCubes(q)
  <1> DEFINE u == Ungrouped(q)
  <1>1. /\ u.measures = q.measures /\ u.dimensions = <<>>
        /\ u.segments = q.segments /\ u.filters = q.filters
        /\ DOMAIN u.timeDimensions = DOMAIN q.timeDimensions
        /\ \A i \in DOMAIN q.timeDimensions : u.timeDimensions[i].path = q.timeDimensions[i].path
    BY UngroupedFields
  <1> HIDE DEF u
  <1>2. WindowsOf(u) = WindowsOf(q)
    BY <1>1, Zenon DEF WindowsOf
  <1>3. Selected(u) = Selected(q)
    BY <1>1, <1>2, Zenon DEF Selected
  <1>4. TimePaths(u) = TimePaths(q)
    BY <1>1 DEF TimePaths
  <1>5. Grouped(u) = {}
    BY <1>1 DEF Grouped, ToSet
  <1>6. /\ IsList(q.measures) /\ q.measures # <<>> /\ q.measures[1] \in ToSet(q.measures)
    <2>1. IsList(q.measures)
      BY DEF IsQuery
    <2>2. q.measures # <<>>
      BY DEF ToSet
    <2>3. 1 \in DOMAIN q.measures
      BY <2>1, <2>2 DEF IsList
    <2> QED
      BY <2>1, <2>2, <2>3 DEF ToSet
  <1>7. Primary(q) = q.measures[1][1] /\ Primary(u) = q.measures[1][1]
    BY <1>1, <1>6 DEF Primary
  <1>8. Primary(u) \in RuledCubes(u)
    BY <1>1, <1>6, <1>7, SelfResolved, RuledBy
  <1>9. RuledCubes(u) \subseteq RuledCubes(q)
    <2> SUFFICES ASSUME NEW c \in RuledCubes(u) PROVE c \in RuledCubes(q)
      OBVIOUS
    <2>1. PICK p : /\ p[1] = c
                   /\ \/ \E k \in ToSet(u.measures) \cup Selected(u) : p \in Resolved(k)
                      \/ p \in Grouped(u) \cup TimePaths(u)
      BY RuledBy
    <2> QED
      BY <1>1, <1>3, <1>4, <1>5, <2>1, RuledBy
  <1>10. JoinedCubes(u) \subseteq JoinedCubes(q)
    <2> DEFINE added == {p[1] : p \in ToSet(q.segments)
                                      \cup UNION {Resolved(f) : f \in FilterPaths(q.filters)}}
    <2>1. JoinedCubes(q) = RuledCubes(q) \cup added
      BY Zenon DEF JoinedCubes
    <2>2. JoinedCubes(u) = RuledCubes(u) \cup added
      BY <1>1, Zenon DEF JoinedCubes
    <2> HIDE DEF added
    <2> QED
      BY <1>9, <2>1, <2>2
  <1> QED
    BY <1>2, <1>3, <1>4, <1>7, <1>8, <1>9, <1>10 DEF u

\* Filters do not tell rows apart that have the same rows of the cubes they name.
LEMMA SameText ==
    ASSUME NEW f, NEW x, NEW y, \A leaf \in Leaves(f) : x[leaf.member[1]] = y[leaf.member[1]]
    PROVE  RowText(f, x) = RowText(f, y)
  <1>1. [leaf \in Leaves(f) |-> OperatorText(leaf.operator, ValueIn(x, leaf.member), leaf.values)]
         = [leaf \in Leaves(f) |-> OperatorText(leaf.operator, ValueIn(y, leaf.member), leaf.values)]
    BY Zenon DEF ValueIn
  <1> QED
    BY <1>1, Zenon DEF RowText

\* The measures that have totals, and the cubes of what their filters name.
LEMMA AdditiveMeasure ==
    ASSUME NEW q, IsQuery(q), NEW ctx, Asked(q, ctx), WindowsOf(q) = {},
           NEW m \in ToSet(q.measures), Member(m).type \in AdditiveTypes
    PROVE  /\ m[1] \in RuledCubes(Ungrouped(q)) /\ m[1] \in DOMAIN registry
           /\ \A p \in FilterPaths(Member(m).filters) : p[1] \in RuledCubes(Ungrouped(q))
           /\ Member(m).type = "sum" => Member(m).sql \in registry[m[1]].columns
  <1> DEFINE u == Ungrouped(q)
  <1>1. m \in ToSet(u.measures)
    BY UngroupedFields
  <1>2. Kind(m) = "measure" /\ Resolves(m)
    BY DEF Asked, Renders
  <1>3. Member(m).type \in ConcreteTypes /\ Member(m).type # "calculated"
    BY DEF AdditiveTypes, ConcreteTypes
  <1>4. Parts(m) = {m}
    BY <1>3 DEF Parts
  <1>5. Resolved(m) = {m} \cup FilterPaths(Member(m).filters)
    BY <1>2, <1>4 DEF Resolved
  <1> HIDE DEF u
  <1>6. \A p \in Resolved(m) : p[1] \in RuledCubes(u)
    BY <1>1, RuledBy
  <1>7. OfColumns(m)
    <2>1. m \in UNION {Resolved(k) : k \in ToSet(q.measures) \cup Selected(q)
                                             \cup FilterPaths(q.filters)}
      BY <1>5
    <2> QED
      BY <1>2, <2>1 DEF Asked, Runs
  <1>8. Member(m).type = "sum" => Member(m).sql \in registry[m[1]].columns
    BY <1>4, <1>7 DEF OfColumns, Cube
  <1> QED
    BY <1>2, <1>5, <1>6, <1>8 DEF Resolves, u

\* What the source may hold.
SourceIsOfUniverse ==
    /\ source = [c \in DOMAIN registry |-> source[c]]
    /\ \A c \in DOMAIN registry : source[c] \subseteq Universe[c] /\ IsFiniteSet(source[c])

LEMMA Sourced == Spec => []SourceIsOfUniverse
  <1>1. Init => SourceIsOfUniverse
    BY FS_EmptySet DEF Init, SourceIsOfUniverse
  <1>2. SourceIsOfUniverse /\ [Next]_vars => SourceIsOfUniverse'
    <2> SUFFICES ASSUME SourceIsOfUniverse, [Next]_vars PROVE SourceIsOfUniverse'
      OBVIOUS
    <2>1. CASE UNCHANGED source
      BY <2>1, Zenon DEF SourceIsOfUniverse
    <2>2. ASSUME NEW c \in DOMAIN registry, NEW row \in Universe[c], Insert(c, row)
          PROVE  SourceIsOfUniverse'
      <3>1. source' = [source EXCEPT ![c] = source[c] \cup {row}] /\ DOMAIN source = DOMAIN registry
        BY <2>2 DEF Insert, SourceIsOfUniverse
      <3>2. ASSUME NEW d \in DOMAIN registry
            PROVE  source'[d] \subseteq Universe[d] /\ IsFiniteSet(source'[d])
        BY <2>2, <3>1, FS_AddElement DEF SourceIsOfUniverse
      <3>3. source' = [d \in DOMAIN registry |-> source'[d]]
        BY <3>1
      <3> QED
        BY <3>2, <3>3 DEF SourceIsOfUniverse
    <2>3. CASE BuildAll
      BY <2>1, <2>3 DEF BuildAll
    <2> QED
      BY <2>1, <2>2, <2>3 DEF Next, vars
  <1> QED
    BY <1>1, <1>2, PTL DEF Spec

LEMMA JoinsNothing ==
    ASSUME SourceIsOfUniverse, NEW q, IsQuery(q), NEW ctx, Asked(q, ctx), JoinsAddNothing(q, ctx)
    PROVE  /\ JoinsOne(q)
           /\ \A row \in source[Primary(q)] : \A c \in JoinedCubes(q) :
                 Partner(q, row, c) \in [registry[c].columns -> Int \cup {None}]
  <1> DEFINE first == Primary(q)
  <1>1. first \in JoinedCubes(q) /\ JoinedCubes(q) \subseteq DOMAIN registry
    BY PrimaryIsJoined, JoinedAreCubes DEF Asked
  <1>2. IsFiniteSet(source[first])
    BY <1>1 DEF SourceIsOfUniverse
  <1>3. \A c \in DOMAIN registry : \A row \in source[c] :
           row \in Universe[c] /\ row \in [registry[c].columns -> Int \cup {None}]
    BY UniverseAssumption DEF SourceIsOfUniverse
  <1>4. ASSUME NEW row \in source[first], NEW c \in JoinedCubes(q)
        PROVE  \E other \in [registry[c].columns -> Int \cup {None}] :
                  Beside(q, row, c, source) = {other}
    <2>1. CASE c = first
      BY <1>1, <1>3, <2>1 DEF Beside
    <2>2. CASE c # first
      <3> DEFINE found == Found(row, first, c, source)
      <3>1. Beside(q, row, c, source) = IF found = {} THEN {NullRow(c)} ELSE found
        BY <2>2, MatchesAre DEF Beside
      <3>2. c \in DOMAIN registry /\ c \in DOMAIN registry[first].joins /\ first \in DOMAIN registry
        BY <1>1, <2>2 DEF Asked, Renders
      <3>3. registry[first].joins[c].relationship # "hasMany"
        BY <2>2 DEF JoinsAddNothing
      <3>4. ASSUME NEW a \in found, NEW b \in found PROVE a = b
        <4> DEFINE on == registry[first].joins[c]
        <4>1. /\ a \in source[c] /\ b \in source[c] /\ row[on.left] # None
              /\ a[on.right] = row[on.left] /\ b[on.right] = row[on.left]
          BY DEF Found
        <4>2. a \in Universe[c] /\ b \in Universe[c]
          BY <1>3, <3>2, <4>1
        <4>3. a[on.right] # None /\ a[on.right] = b[on.right]
          BY <4>1
        <4> HIDE DEF on
        <4>4. \A x, y \in Universe[c] : x[on.right] # None /\ x[on.right] = y[on.right] => x = y
          BY <3>2, <3>3, JoinsAssumption DEF on
        <4> QED
          BY <4>2, <4>3, <4>4
      <3>5. \A a \in found : a \in [registry[c].columns -> Int \cup {None}]
        BY <1>3, <3>2 DEF Found
      <3>6. NullRow(c) \in [registry[c].columns -> Int \cup {None}]
        BY DEF NullRow
      <3> HIDE DEF found
      <3>7. CASE found = {}
        BY <3>1, <3>6, <3>7
      <3>8. CASE found # {}
        <4>1. PICK a : a \in found
          BY <3>8
        <4>2. found = {a}
          BY <3>4, <4>1
        <4> QED
          BY <3>1, <3>5, <3>8, <4>1, <4>2
      <3> QED
        BY <3>7, <3>8
    <2> QED
      BY <2>1, <2>2
  <1>5. ASSUME NEW row \in source[first], NEW c \in JoinedCubes(q)
        PROVE  /\ Beside(q, row, c, source) = {Partner(q, row, c)}
               /\ Partner(q, row, c) \in [registry[c].columns -> Int \cup {None}]
    <2>1. PICK other \in [registry[c].columns -> Int \cup {None}] : Beside(q, row, c, source) = {other}
      BY <1>4
    <2>2. Partner(q, row, c) = other
      BY <2>1 DEF Partner
    <2> QED
      BY <2>1, <2>2
  <1> QED
    BY <1>1, <1>2, <1>5 DEF JoinsOne

\* The other query joins the same rows, of fewer cubes.
LEMMA UngroupedJoins ==
    ASSUME NEW q, IsQuery(q), WindowsOf(q) = {}, NEW m \in ToSet(q.measures), JoinsOne(q)
    PROVE  LET u == Ungrouped(q)
           IN  /\ JoinsOne(u)
               /\ \A row \in source[Primary(q)] : \A c \in JoinedCubes(u) :
                     Alone(u, row)[c] = Alone(q, row)[c]
  <1> DEFINE u == Ungrouped(q)
  <1>1. /\ Primary(u) = Primary(q) /\ JoinedCubes(u) \subseteq JoinedCubes(q)
        /\ Primary(u) \in JoinedCubes(u)
    BY UngroupedParts, RuledAreJoined
  <1> HIDE DEF u
  <1>2. \A row, c : Beside(u, row, c, source) = Beside(q, row, c, source)
    BY <1>1, Zenon DEF Beside
  <1>3. \A row, c : Partner(u, row, c) = Partner(q, row, c)
    BY <1>2, Zenon DEF Partner
  <1>4. JoinsOne(u)
    BY <1>1, <1>2, <1>3 DEF JoinsOne
  <1>5. \A row : \A c \in JoinedCubes(u) : Alone(u, row)[c] = Alone(q, row)[c]
    BY <1>1, <1>3 DEF Alone
  <1> QED
    BY <1>4, <1>5 DEF u

\* It selects them by the same conditions.
LEMMA UngroupedSelects ==
    ASSUME NEW q, IsQuery(q), WindowsOf(q) = {}, NEW m \in ToSet(q.measures), JoinsOne(q),
           NEW ctx, JoinsAddNothing(q, ctx),
           \A i \in DOMAIN q.filters : ~IsMeasureFilter(q.filters[i]),
           NEW row \in source[Primary(q)]
    PROVE  Selects(Ungrouped(q), ctx, Alone(Ungrouped(q), row)) = Selects(q, ctx, Alone(q, row))
  <1> DEFINE u == Ungrouped(q)
             x == Alone(q, row)
             y == Alone(u, row)
             InRange(td, r) ==
                IF td.dateRange = None THEN Atom(TRUE)
                ELSE OperatorText("inDateRange", ValueIn(r, td.path), <<td.dateRange>>)
             Condition(f, r) == IF IsMeasureFilter(f) THEN Atom(TRUE) ELSE RowText(f, r)
             Segment(s, r) == AlternativesText(Member(s).alternatives, r[s[1]])
  <1>1. /\ u.measures = q.measures /\ u.segments = q.segments /\ u.filters = q.filters
        /\ DOMAIN u.timeDimensions = DOMAIN q.timeDimensions
        /\ \A i \in DOMAIN q.timeDimensions :
              /\ u.timeDimensions[i].path = q.timeDimensions[i].path
              /\ u.timeDimensions[i].dateRange = q.timeDimensions[i].dateRange
    BY UngroupedFields
  <1>2. /\ Primary(u) = Primary(q) /\ Primary(u) \in RuledCubes(u) /\ TimePaths(u) = TimePaths(q)
        /\ RuledCubes(u) \subseteq RuledCubes(q) /\ JoinedCubes(u) \subseteq JoinedCubes(q)
    BY UngroupedParts
  <1>3. \A c \in JoinedCubes(u) : y[c] = x[c]
    BY UngroupedJoins
  <1>4. RuledCubes(q) \subseteq JoinedCubes(q) /\ RuledCubes(u) \subseteq JoinedCubes(u)
    BY RuledAreJoined
  <1> HIDE DEF u, x, y
  <1>5. AllRulesText(u, ctx, y) = AllRulesText(q, ctx, x)
    <2> DEFINE RuledOnes(p) == {c \in RuledCubes(p) : RowLevel(registry[c], ctx) # <<>>}
               ruled == SetToSeq(RuledOnes(q))
               Text(c, r) == RulesText(registry[c], ctx, r[c])
    <2>1. \A c \in RuledCubes(q) : RowLevel(registry[c], ctx) # <<>> => c = Primary(q)
      BY <1>4 DEF JoinsAddNothing
    <2>2. RuledOnes(u) = RuledOnes(q) /\ \A c \in RuledOnes(q) : c = Primary(q)
      BY <1>2, <2>1
    <2>3. x[Primary(q)] = y[Primary(q)]
      BY <1>2, <1>3, <1>4
    <2>4. AllRulesText(q, ctx, x) = AndJoin([i \in DOMAIN ruled |-> Text(ruled[i], x)])
      BY Zenon DEF AllRulesText
    <2>5. AllRulesText(u, ctx, y) = AndJoin([i \in DOMAIN ruled |-> Text(ruled[i], y)])
      BY <2>2, Zenon DEF AllRulesText
    <2>6. \A i \in DOMAIN ruled : ruled[i] = Primary(q)
      <3>1. IsFiniteSet(RuledOnes(q))
        <4>1. RuledOnes(q) \subseteq {Primary(q)}
          BY <2>2
        <4> HIDE DEF RuledOnes
        <4> QED
          BY <4>1, FS_Singleton, FS_Subset
      <3> HIDE DEF RuledOnes
      <3>2. \A i \in DOMAIN ruled : ruled[i] \in RuledOnes(q)
        BY <3>1, ListedSet
      <3> QED
        BY <2>2, <3>2
    <2> HIDE DEF ruled
    <2>7. \A i \in DOMAIN ruled : Text(ruled[i], x) = Text(ruled[i], y)
      BY <2>3, <2>6, Zenon
    <2> QED
      BY <2>4, <2>5, <2>7, Zenon
  <1>6. [i \in DOMAIN q.segments |-> Segment(q.segments[i], y)]
         = [i \in DOMAIN q.segments |-> Segment(q.segments[i], x)]
    <2>1. ASSUME NEW i \in DOMAIN q.segments
          PROVE  Segment(q.segments[i], y) = Segment(q.segments[i], x)
      <3>1. q.segments[i] \in ToSet(q.segments)
        BY DEF ToSet
      <3>2. q.segments[i][1] \in JoinedCubes(u)
        BY <1>1, <3>1 DEF JoinedCubes
      <3>3. y[q.segments[i][1]] = x[q.segments[i][1]]
        BY <1>3, <3>2
      <3> QED
        BY <3>3, Zenon
    <2> QED
      BY <2>1, Zenon
  <1>7. [i \in DOMAIN u.timeDimensions |-> InRange(u.timeDimensions[i], y)]
         = [i \in DOMAIN q.timeDimensions |-> InRange(q.timeDimensions[i], x)]
    <2>1. ASSUME NEW i \in DOMAIN q.timeDimensions
          PROVE  InRange(u.timeDimensions[i], y) = InRange(q.timeDimensions[i], x)
      <3>1. q.timeDimensions[i].path \in TimePaths(u)
        BY <1>2 DEF TimePaths
      <3>2. q.timeDimensions[i].path[1] \in JoinedCubes(u)
        BY <1>4, <3>1, RuledBy
      <3>3. ValueIn(y, u.timeDimensions[i].path) = ValueIn(x, q.timeDimensions[i].path)
        BY <1>1, <1>3, <3>2, Zenon DEF ValueIn
      <3> QED
        BY <1>1, <3>3, Zenon
    <2> QED
      BY <1>1, <2>1, Zenon
  <1>8. [i \in DOMAIN q.filters |-> Condition(q.filters[i], y)]
         = [i \in DOMAIN q.filters |-> Condition(q.filters[i], x)]
    <2>1. ASSUME NEW i \in DOMAIN q.filters
          PROVE  Condition(q.filters[i], y) = Condition(q.filters[i], x)
      <3>1. q.filters[i] \in ToSet(q.filters)
        BY DEF ToSet
      <3>2. ASSUME NEW leaf \in Leaves(q.filters[i]) PROVE leaf.member[1] \in JoinedCubes(u)
        <4>1. leaf.member \in FilterPaths(u.filters)
          BY <1>1, <3>1, MembersOf
        <4>2. leaf.member \in UNION {Resolved(f) : f \in FilterPaths(u.filters)}
          BY <4>1, SelfResolved
        <4> QED
          BY <4>2 DEF JoinedCubes
      <3>3. RowText(q.filters[i], y) = RowText(q.filters[i], x)
        BY <1>3, <3>2, SameText
      <3> QED
        BY <3>3, Zenon
    <2> QED
      BY <2>1, Zenon
  <1>9. WhereTexts(u, ctx, y) = <<AllRulesText(u, ctx, y)>>
           \o [i \in DOMAIN q.segments |-> Segment(q.segments[i], y)]
           \o [i \in DOMAIN u.timeDimensions |-> InRange(u.timeDimensions[i], y)]
           \o [i \in DOMAIN q.filters |-> Condition(q.filters[i], y)]
    BY <1>1, Zenon DEF WhereTexts
  <1>10. WhereTexts(q, ctx, x) = <<AllRulesText(q, ctx, x)>>
           \o [i \in DOMAIN q.segments |-> Segment(q.segments[i], x)]
           \o [i \in DOMAIN q.timeDimensions |-> InRange(q.timeDimensions[i], x)]
           \o [i \in DOMAIN q.filters |-> Condition(q.filters[i], x)]
    BY Zenon DEF WhereTexts
  <1> HIDE DEF InRange, Condition, Segment
  <1>11. WhereTexts(u, ctx, y) = WhereTexts(q, ctx, x)
    BY <1>5, <1>6, <1>7, <1>8, <1>9, <1>10, Zenon
  <1> QED
    BY <1>11, Zenon DEF Selects, u, x, y

\* Grouping divides the totals of additive measures and keeps them, whatever
\* the data: a total is one over the rows of the primary cube, whose keys decide
\* only under which group each of them is counted.
THEOREM Totals == Spec => []TotalsSurviveGrouping
  <1>1. ASSUME SourceIsOfUniverse PROVE TotalsSurviveGrouping
    <2> SUFFICES ASSUME NEW q \in Queried, NEW ctx \in Contexts,
                        Asked(q, ctx), Plain(q), JoinsAddNothing(q, ctx),
                        \A f \in ToSet(q.filters) : ~IsMeasureFilter(f),
                        NEW m \in ToSet(q.measures), Member(m).type \in AdditiveTypes
                 PROVE  Total(Rows(q, ctx, source), m) = Total(Rows(Ungrouped(q), ctx, source), m)
      BY Zenon DEF TotalsSurviveGrouping, AskedOfBase
    <2> DEFINE u   == Ungrouped(q)
               all == source[Primary(q)]
               w   == [row \in all |-> WeightOf(q, ctx, m, row)]
    <2>1. IsQuery(q) /\ WindowsOf(q) = {}
      BY IsAQuery DEF Plain
    <2>2. /\ JoinsOne(q)
          /\ \A row \in all : \A c \in JoinedCubes(q) :
                Partner(q, row, c) \in [registry[c].columns -> Int \cup {None}]
      BY <1>1, <2>1, JoinsNothing
    <2>3. /\ JoinsOne(u)
          /\ \A row \in all : \A c \in JoinedCubes(u) : Alone(u, row)[c] = Alone(q, row)[c]
      BY <2>1, <2>2, UngroupedJoins
    <2>4. /\ m[1] \in RuledCubes(u) /\ m[1] \in DOMAIN registry
          /\ \A p \in FilterPaths(Member(m).filters) : p[1] \in RuledCubes(u)
          /\ Member(m).type = "sum" => Member(m).sql \in registry[m[1]].columns
      BY <2>1, AdditiveMeasure
    <2>5. /\ WindowsOf(u) = {} /\ Primary(u) = Primary(q)
          /\ JoinedCubes(u) \subseteq JoinedCubes(q) /\ RuledCubes(u) \subseteq JoinedCubes(u)
      BY <2>1, UngroupedParts, RuledAreJoined
    <2>6. u.measures = q.measures /\ u.filters = q.filters
      BY <2>1, UngroupedFields
    <2>7. \A i \in DOMAIN q.filters : ~IsMeasureFilter(q.filters[i])
      BY DEF ToSet
    <2>8. \A row \in all : Selects(u, ctx, Alone(u, row)) = Selects(q, ctx, Alone(q, row))
      BY <2>1, <2>2, <2>7, UngroupedSelects
    <2> HIDE DEF u, all
    <2>9. \A row \in all : Weight(m, Alone(u, row)) = Weight(m, Alone(q, row))
      <3> SUFFICES ASSUME NEW row \in all
                   PROVE  Weight(m, Alone(u, row)) = Weight(m, Alone(q, row))
        OBVIOUS
      <3> DEFINE filters == Member(m).filters
      <3>1. Alone(u, row)[m[1]] = Alone(q, row)[m[1]]
        BY <2>3, <2>4, <2>5
      <3>2. \A i \in DOMAIN filters : RowText(filters[i], Alone(u, row)) = RowText(filters[i], Alone(q, row))
        <4> SUFFICES ASSUME NEW i \in DOMAIN filters
                     PROVE  RowText(filters[i], Alone(u, row)) = RowText(filters[i], Alone(q, row))
          OBVIOUS
        <4>1. ASSUME NEW leaf \in Leaves(filters[i])
              PROVE  Alone(u, row)[leaf.member[1]] = Alone(q, row)[leaf.member[1]]
          <5>1. filters[i] \in ToSet(filters)
            BY DEF ToSet
          <5>2. leaf.member \in FilterPaths(filters)
            BY <4>1, <5>1 DEF FilterPaths
          <5> QED
            BY <2>3, <2>4, <2>5, <5>2
        <4> HIDE DEF filters
        <4> QED
          BY <4>1, SameText
      <3>3. Counts(m, Alone(u, row)) = Counts(m, Alone(q, row))
        BY <3>1, <3>2, Zenon DEF Counts, ValueIn
      <3> QED
        BY <3>1, <3>3, Zenon DEF Weight, ValueIn
    <2>10. \A row \in all : Weight(m, Alone(q, row)) \in Int
      <3> SUFFICES ASSUME NEW row \in all, Counts(m, Alone(q, row)), Member(m).type = "sum"
                   PROVE  ValueIn(Alone(q, row), m) \in Int
        BY DEF Weight, AdditiveTypes
      <3>1. m[1] \in JoinedCubes(q)
        BY <2>4, <2>5
      <3>2. Member(m).sql \in registry[m[1]].columns /\ Member(m).sql # None
        BY <2>4, UniverseAssumption
      <3>3. ValueIn(Alone(q, row), m) # None
        BY <3>2 DEF Counts
      <3>4. Alone(q, row)[m[1]] \in [registry[m[1]].columns -> Int \cup {None}]
        BY <2>2, <3>1 DEF Alone, all
      <3> QED
        BY <3>2, <3>3, <3>4 DEF ValueIn
    <2>11. \A row \in all : w[row] = WeightOf(q, ctx, m, row) /\ w[row] = WeightOf(u, ctx, m, row)
      <3>1. \A row \in all : WeightOf(u, ctx, m, row) = WeightOf(q, ctx, m, row)
        BY <2>8, <2>9, Zenon DEF WeightOf, all
      <3> QED
        BY <3>1
    <2> HIDE DEF w
    <2>12. Total(Rows(q, ctx, source), m) = SumFunctionOnSet(w, all)
      BY <2>1, <2>2, <2>7, <2>10, <2>11, TotalIs DEF all
    <2>13. Total(Rows(u, ctx, source), m) = SumFunctionOnSet(w, all)
      BY <2>3, <2>5, <2>6, <2>7, <2>9, <2>10, <2>11, TotalIs DEF all
    <2> QED
      BY <2>12, <2>13 DEF u
  <1> QED
    BY <1>1, Sourced, PTL

-----------------------------------------------------------------------------
(* Ranks, in a strict total order. *)

TotalOrder(R, S) ==
    /\ \A x \in S : <<x, x>> \notin R
    /\ \A x, y \in S : x # y => <<x, y>> \in R \/ <<y, x>> \in R
    /\ \A x, y, z \in S : <<x, y>> \in R /\ <<y, z>> \in R => <<x, z>> \in R

BeforeIn(R, S, y) == {x \in S : <<x, y>> \in R}

\* A finite set that is ordered has a last element.
LEMMA LastOfAll ==
    ASSUME NEW R, NEW S, IsFiniteSet(S), TotalOrder(R, S), S # {}
    PROVE  \E x \in S : BeforeIn(R, S, x) = S \ {x}
  <1> DEFINE Up == {s \in SUBSET S : s # {} => \E x \in s : \A y \in s : y # x => <<y, x>> \in R}
  <1>1. {} \in Up
    OBVIOUS
  <1>2. ASSUME NEW s \in SUBSET S, NEW x \in S \ s, s \in Up PROVE s \cup {x} \in Up
    <2>1. CASE s = {}
      BY <2>1
    <2>2. CASE s # {}
      <3>1. PICK last \in s : \A y \in s : y # last => <<y, last>> \in R
        BY <1>2, <2>2
      <3>2. CASE <<last, x>> \in R
        <4>1. \A y \in s : <<y, x>> \in R
          BY <3>1, <3>2 DEF TotalOrder
        <4> QED
          BY <4>1
      <3>3. CASE <<x, last>> \in R
        BY <3>1, <3>3
      <3> QED
        BY <3>1, <3>2, <3>3 DEF TotalOrder
    <2> QED
      BY <2>1, <2>2
  <1> HIDE DEF Up
  <1>3. S \in Up
    BY <1>1, <1>2, FiniteInduction
  <1>4. PICK x \in S : \A y \in S : y # x => <<y, x>> \in R
    BY <1>3 DEF Up
  <1>5. <<x, x>> \notin R
    BY DEF TotalOrder
  <1> QED
    BY <1>4, <1>5 DEF BeforeIn

\* One more than how many are before it: each rank is that of one element.
LEMMA RanksOf ==
    ASSUME NEW R, NEW S, IsFiniteSet(S), TotalOrder(R, S),
           NEW rank, rank = [y \in S |-> Cardinality(BeforeIn(R, S, y)) + 1]
    PROVE  {rank[y] : y \in S} = 1 .. Cardinality(S)
  <1> DEFINE n == Cardinality(S)
  <1>1. n \in Nat /\ IsFiniteSet(1 .. n) /\ Cardinality(1 .. n) = n
    BY FS_CardinalityType, FS_Interval
  <1>2. ASSUME NEW y \in S
        PROVE  /\ IsFiniteSet(BeforeIn(R, S, y)) /\ Cardinality(BeforeIn(R, S, y)) \in Nat
               /\ Cardinality(BeforeIn(R, S, y)) < n
    <2>1. BeforeIn(R, S, y) \in SUBSET S /\ y \notin BeforeIn(R, S, y)
      BY DEF BeforeIn, TotalOrder
    <2>2. /\ IsFiniteSet(BeforeIn(R, S, y)) /\ Cardinality(BeforeIn(R, S, y)) <= n
          /\ n = Cardinality(BeforeIn(R, S, y)) => S = BeforeIn(R, S, y)
      BY <2>1, FS_Subset
    <2>3. Cardinality(BeforeIn(R, S, y)) \in Nat
      BY <2>2, FS_CardinalityType
    <2>4. Cardinality(BeforeIn(R, S, y)) # n
      BY <2>1, <2>2
    <2> QED
      BY <1>1, <2>2, <2>3, <2>4
  <1>3. ASSUME NEW x \in S, NEW y \in S, <<x, y>> \in R PROVE rank[x] < rank[y]
    <2>1. /\ BeforeIn(R, S, x) \in SUBSET BeforeIn(R, S, y)
          /\ x \in BeforeIn(R, S, y) /\ x \notin BeforeIn(R, S, x)
      BY <1>3 DEF BeforeIn, TotalOrder
    <2>2. /\ Cardinality(BeforeIn(R, S, x)) <= Cardinality(BeforeIn(R, S, y))
          /\ Cardinality(BeforeIn(R, S, y)) = Cardinality(BeforeIn(R, S, x))
                => BeforeIn(R, S, y) = BeforeIn(R, S, x)
      BY <1>2, <2>1, FS_Subset
    <2>3. Cardinality(BeforeIn(R, S, x)) < Cardinality(BeforeIn(R, S, y))
      <3>1. Cardinality(BeforeIn(R, S, x)) # Cardinality(BeforeIn(R, S, y))
        BY <2>1, <2>2
      <3> QED
        BY <1>2, <2>2, <3>1
    <2> QED
      BY <1>2, <2>3
  <1>4. rank \in [S -> 1 .. n]
    BY <1>1, <1>2
  <1>5. \A x, y \in S : rank[x] = rank[y] => x = y
    <2> SUFFICES ASSUME NEW x \in S, NEW y \in S, rank[x] = rank[y], x # y PROVE FALSE
      OBVIOUS
    <2>1. rank[x] < rank[y] \/ rank[y] < rank[x]
      BY <1>3 DEF TotalOrder
    <2>2. rank[x] \in Int /\ rank[y] \in Int
      BY <1>4
    <2> QED
      BY <2>1, <2>2
  <1>6. rank \in Injection(S, 1 .. n)
    BY <1>4, <1>5 DEF Injection, IsInjective
  <1>7. rank \in Surjection(S, 1 .. n)
    <2> HIDE DEF n
    <2>1. Cardinality(S) = Cardinality(1 .. n)
      BY <1>1 DEF n
    <2> QED
      BY <1>1, <1>6, <2>1, FS_Injection
  <1> HIDE DEF n
  <1>8. \A k \in 1 .. n : \E y \in S : rank[y] = k
    BY <1>7 DEF Surjection
  <1> QED
    BY <1>4, <1>8 DEF n

-----------------------------------------------------------------------------
(* The order of the rows of an inner query. *)

Values == Int \cup {None}

LEMMA LessIsAnOrder ==
    /\ \A v \in Values : ~Less(v, v)
    /\ \A v, w \in Values : v # w => Less(v, w) \/ Less(w, v)
    /\ \A u, v, w \in Values : Less(u, v) /\ Less(v, w) => Less(u, w)
  BY UniverseAssumption DEF Values, Less

Ascending(paths) == [i \in DOMAIN paths |-> <<paths[i], "asc">>]

\* a comes before b at the i-th of some paths.
FirstAt(paths, a, b, i) ==
    /\ \A j \in 1 .. (i - 1) : a[paths[j]] = b[paths[j]]
    /\ Less(a[paths[i]], b[paths[i]])

LEMMA PrecedesAt ==
    ASSUME NEW paths, NEW n \in Nat, DOMAIN paths = 1 .. n, NEW a, NEW b
    PROVE  Precedes(Ascending(paths), a, b) <=> \E i \in 1 .. n : FirstAt(paths, a, b, i)
  <1> DEFINE items == Ascending(paths)
  <1>1. DOMAIN items = 1 .. n
    BY DEF Ascending
  <1>2. \A i \in 1 .. n : items[i][1] = paths[i] /\ items[i][2] = "asc"
    BY DEF Ascending
  <1> HIDE DEF items
  <1>3. \A i \in 1 .. n : \A j \in 1 .. (i - 1) : j \in 1 .. n
    OBVIOUS
  <1>4. ASSUME NEW i \in 1 .. n
        PROVE  FirstAt(paths, a, b, i) <=>
                  /\ \A j \in 1 .. (i - 1) : a[items[j][1]] = b[items[j][1]]
                  /\ IF items[i][2] = "asc" THEN Less(a[items[i][1]], b[items[i][1]])
                     ELSE Less(b[items[i][1]], a[items[i][1]])
    <2>1. \A j \in 1 .. (i - 1) : items[j][1] = paths[j]
      BY <1>2, <1>3
    <2>2. items[i][1] = paths[i] /\ items[i][2] = "asc"
      BY <1>2
    <2>3. (\A j \in 1 .. (i - 1) : a[items[j][1]] = b[items[j][1]])
             <=> \A j \in 1 .. (i - 1) : a[paths[j]] = b[paths[j]]
      BY <2>1
    <2> QED
      BY <2>2, <2>3, Zenon DEF FirstAt
  <1> QED
    BY <1>1, <1>4, Zenon DEF Precedes, items

\* Rows that the paths tell apart are ordered by them.
LEMMA PrecedesIsAnOrder ==
    ASSUME NEW paths, NEW n \in Nat, DOMAIN paths = 1 .. n, NEW S,
           \A a \in S : \A i \in 1 .. n : a[paths[i]] \in Values,
           \A a, b \in S : a # b => \E i \in 1 .. n : a[paths[i]] # b[paths[i]],
           NEW R, \A a, b \in S : <<a, b>> \in R <=> Precedes(Ascending(paths), a, b)
    PROVE  TotalOrder(R, S)
  <1>0. \A a, b \in S : <<a, b>> \in R <=> \E i \in 1 .. n : FirstAt(paths, a, b, i)
    BY PrecedesAt
  <1>1. ASSUME NEW a \in S PROVE <<a, a>> \notin R
    <2>1. \A i \in 1 .. n : ~Less(a[paths[i]], a[paths[i]])
      BY LessIsAnOrder
    <2> QED
      BY <1>0, <2>1 DEF FirstAt
  <1>2. ASSUME NEW a \in S, NEW b \in S, a # b PROVE <<a, b>> \in R \/ <<b, a>> \in R
    <2> DEFINE differ == {i \in 1 .. n : a[paths[i]] # b[paths[i]]}
    <2>1. differ # {} /\ differ \in SUBSET Nat
      BY <1>2
    <2>2. PICK i \in differ : \A j \in differ : i <= j
      BY <2>1, Least
    <2>3. i \in 1 .. n /\ \A j \in 1 .. (i - 1) : a[paths[j]] = b[paths[j]]
      BY <2>2
    <2>4. Less(a[paths[i]], b[paths[i]]) \/ Less(b[paths[i]], a[paths[i]])
      BY <2>2, LessIsAnOrder
    <2>5. FirstAt(paths, a, b, i) \/ FirstAt(paths, b, a, i)
      BY <2>3, <2>4 DEF FirstAt
    <2> QED
      BY <1>0, <2>3, <2>5
  <1>3. ASSUME NEW a \in S, NEW b \in S, NEW c \in S, <<a, b>> \in R, <<b, c>> \in R
        PROVE  <<a, c>> \in R
    <2>1. PICK i \in 1 .. n : FirstAt(paths, a, b, i)
      BY <1>0, <1>3
    <2>2. PICK k \in 1 .. n : FirstAt(paths, b, c, k)
      BY <1>0, <1>3
    <2>3. CASE i < k
      <3>1. FirstAt(paths, a, c, i)
        <4>1. /\ \A j \in 1 .. (i - 1) : j \in 1 .. (k - 1)
              /\ i \in 1 .. (k - 1)
          BY <2>3
        <4>2. /\ \A j \in 1 .. (i - 1) : a[paths[j]] = b[paths[j]]
              /\ Less(a[paths[i]], b[paths[i]])
          BY <2>1, Zenon DEF FirstAt
        <4>3. \A j \in 1 .. (k - 1) : b[paths[j]] = c[paths[j]]
          BY <2>2, Zenon DEF FirstAt
        <4>4. \A j \in 1 .. (i - 1) : a[paths[j]] = c[paths[j]]
          BY <4>1, <4>2, <4>3, Zenon
        <4>5. Less(a[paths[i]], c[paths[i]])
          BY <4>1, <4>2, <4>3, Zenon
        <4> QED
          BY <4>4, <4>5, Zenon DEF FirstAt
      <3> QED
        BY <1>0, <3>1
    <2>4. CASE k < i
      <3>1. FirstAt(paths, a, c, k)
        <4>1. /\ \A j \in 1 .. (k - 1) : j \in 1 .. (i - 1)
              /\ k \in 1 .. (i - 1)
          BY <2>4
        <4>2. \A j \in 1 .. (i - 1) : a[paths[j]] = b[paths[j]]
          BY <2>1, Zenon DEF FirstAt
        <4>3. /\ \A j \in 1 .. (k - 1) : b[paths[j]] = c[paths[j]]
              /\ Less(b[paths[k]], c[paths[k]])
          BY <2>2, Zenon DEF FirstAt
        <4>4. \A j \in 1 .. (k - 1) : a[paths[j]] = c[paths[j]]
          BY <4>1, <4>2, <4>3, Zenon
        <4>5. Less(a[paths[k]], c[paths[k]])
          BY <4>1, <4>2, <4>3, Zenon
        <4> QED
          BY <4>4, <4>5, Zenon DEF FirstAt
      <3> QED
        BY <1>0, <3>1
    <2>5. CASE i = k
      <3>1. Less(a[paths[i]], c[paths[i]])
        BY <2>1, <2>2, <2>5, LessIsAnOrder DEF FirstAt
      <3>2. FirstAt(paths, a, c, i)
        BY <2>1, <2>2, <2>5, <3>1 DEF FirstAt
      <3> QED
        BY <1>0, <3>2
    <2> QED
      BY <2>3, <2>4, <2>5
  <1> QED
    BY <1>1, <1>2, <1>3 DEF TotalOrder

-----------------------------------------------------------------------------
(* FlattenSeq. *)

IsFlat(f, s, n) == f = [i \in 1 .. n |-> IF i = 1 THEN s[i] ELSE f[i - 1] \o s[i]]

LEMMA FlatStep ==
    ASSUME NEW s, NEW n \in Nat, NEW f, IsFlat(f, s, n) PROVE \E l : IsFlat(l, s, n + 1)
  <1> DEFINE l == [i \in 1 .. (n + 1) |->
                      IF i = n + 1 THEN (IF i = 1 THEN s[i] ELSE f[n] \o s[i]) ELSE f[i]]
  <1>1. \A i \in 1 .. n : f[i] = IF i = 1 THEN s[i] ELSE f[i - 1] \o s[i]
    BY Zenon DEF IsFlat
  <1>2. \A i \in 1 .. n : i \in 1 .. (n + 1) /\ i # n + 1
    OBVIOUS
  <1>3. \A i \in 1 .. n : l[i] = f[i]
    BY <1>2, Zenon
  <1>4. n + 1 \in 1 .. (n + 1) /\ (n + 1) - 1 = n
    OBVIOUS
  <1>5. l[n + 1] = IF n + 1 = 1 THEN s[n + 1] ELSE f[n] \o s[n + 1]
    BY <1>4, Zenon
  <1> HIDE DEF l
  <1>6. \A i \in 1 .. (n + 1) : l[i] = IF i = 1 THEN s[i] ELSE l[i - 1] \o s[i]
    <2> SUFFICES ASSUME NEW i \in 1 .. (n + 1)
                 PROVE  l[i] = IF i = 1 THEN s[i] ELSE l[i - 1] \o s[i]
      OBVIOUS
    <2>1. CASE i = n + 1
      <3>1. n # 0 => n \in 1 .. n
        OBVIOUS
      <3>2. n # 0 => l[n] = f[n]
        BY <1>3, <3>1
      <3>3. n + 1 # 1 => n # 0
        OBVIOUS
      <3> QED
        BY <1>4, <1>5, <2>1, <3>2, <3>3, Zenon
    <2>2. CASE i # n + 1
      <3>1. i \in 1 .. n /\ (i # 1 => i - 1 \in 1 .. n)
        BY <2>2
      <3> QED
        BY <1>1, <1>3, <3>1, Zenon
    <2> QED
      BY <2>1, <2>2
  <1>7. l = [i \in 1 .. (n + 1) |-> l[i]]
    BY DEF l
  <1>8. l = [i \in 1 .. (n + 1) |-> IF i = 1 THEN s[i] ELSE l[i - 1] \o s[i]]
    BY <1>6, <1>7, Zenon
  <1> QED
    BY <1>8, Zenon DEF IsFlat

LEMMA AppendedHas ==
    ASSUME NEW A, NEW a \in Seq(A), NEW b \in Seq(A)
    PROVE  a \o b \in Seq(A) /\ ToSet(a \o b) = ToSet(a) \cup ToSet(b)
  <1> DEFINE c == a \o b
  <1>1. /\ c \in Seq(A) /\ DOMAIN a = 1 .. Len(a) /\ DOMAIN b = 1 .. Len(b)
        /\ DOMAIN c = 1 .. (Len(a) + Len(b)) /\ Len(a) \in Nat /\ Len(b) \in Nat
    OBVIOUS
  <1>2. \A j \in 1 .. Len(a) : j \in DOMAIN c /\ c[j] = a[j]
    OBVIOUS
  <1>3. \A j \in 1 .. Len(b) : j + Len(a) \in DOMAIN c /\ c[j + Len(a)] = b[j]
    OBVIOUS
  <1>4. \A k \in DOMAIN c : \/ (k \in 1 .. Len(a) /\ c[k] = a[k])
                             \/ (k - Len(a) \in 1 .. Len(b) /\ c[k] = b[k - Len(a)])
    <2> SUFFICES ASSUME NEW k \in 1 .. (Len(a) + Len(b))
                 PROVE  \/ (k \in 1 .. Len(a) /\ c[k] = a[k])
                        \/ (k - Len(a) \in 1 .. Len(b) /\ c[k] = b[k - Len(a)])
      BY <1>1
    <2>1. CASE k <= Len(a)
      BY <1>1, <2>1
    <2>2. CASE k > Len(a)
      BY <1>1, <2>2
    <2> QED
      BY <1>1, <2>1, <2>2
  <1> HIDE DEF c
  <1>5. ToSet(c) = ToSet(a) \cup ToSet(b)
    <2>1. \A v \in ToSet(a) \cup ToSet(b) : v \in ToSet(c)
      BY <1>1, <1>2, <1>3 DEF ToSet
    <2>2. \A v \in ToSet(c) : v \in ToSet(a) \cup ToSet(b)
      BY <1>1, <1>4 DEF ToSet
    <2> QED
      BY <2>1, <2>2
  <1> QED
    BY <1>1, <1>5 DEF c

\* A flattened sequence has the elements of those it is made of.
LEMMA FlattenedHas ==
    ASSUME NEW A, NEW s \in Seq(Seq(A))
    PROVE  /\ FlattenSeq(s) \in Seq(A)
           /\ \A i \in 1 .. Len(s) : ToSet(s[i]) \subseteq ToSet(FlattenSeq(s))
           /\ ToSet(FlattenSeq(s)) \subseteq UNION {ToSet(s[i]) : i \in 1 .. Len(s)}
  <1> DEFINE N == Len(s)
             Up == {n \in Nat : \E f : IsFlat(f, s, n)}
  <1>1. N \in Nat /\ DOMAIN s = 1 .. N /\ \A i \in 1 .. N : s[i] \in Seq(A)
    OBVIOUS
  <1>2. \E f : IsFlat(f, s, N)
    <2>1. 0 \in Up
      <3>1. \A i \in 1 .. 0 : FALSE
        OBVIOUS
      <3>2. IsFlat([i \in 1 .. 0 |-> 0], s, 0)
        BY <3>1, Zenon DEF IsFlat
      <3> QED
        BY <3>2
    <2>2. \A n \in Nat : n \in Up => n + 1 \in Up
      BY FlatStep
    <2> HIDE DEF Up
    <2>3. N \in Up
      BY <1>1, <2>1, <2>2, Induction
    <2> QED
      BY <2>3 DEF Up
  <1>3. CASE N = 0
    <2>1. FlattenSeq(s) = s /\ s = <<>>
      BY <1>3 DEF FlattenSeq
    <2> QED
      BY <1>3, <2>1 DEF ToSet
  <1>4. CASE N # 0
    <2> DEFINE flat == CHOOSE f : f = [i \in 1 .. N |-> IF i = 1 THEN s[i] ELSE f[i - 1] \o s[i]]
    <2>1. IsFlat(flat, s, N)
      BY <1>2, Zenon DEF IsFlat
    <2>2. FlattenSeq(s) = flat[N]
      BY <1>4 DEF FlattenSeq
    <2> HIDE DEF flat, N
    <2>3. \A i \in 1 .. N : flat[i] = IF i = 1 THEN s[i] ELSE flat[i - 1] \o s[i]
      BY <2>1, Zenon DEF IsFlat
    <2> DEFINE Has(n) == /\ flat[n] \in Seq(A)
                         /\ ToSet(flat[n]) = UNION {ToSet(s[i]) : i \in 1 .. n}
               Good == {n \in Nat : n \in 1 .. N => Has(n)}
    <2>4. \A a, b \in Seq(A) : a \o b \in Seq(A) /\ ToSet(a \o b) = ToSet(a) \cup ToSet(b)
      BY AppendedHas
    <2>5. 0 \in Good
      OBVIOUS
    <2>6. ASSUME NEW n \in Nat, n \in Good PROVE n + 1 \in Good
      <3> SUFFICES ASSUME n + 1 \in 1 .. N PROVE Has(n + 1)
        OBVIOUS
      <3>1. CASE n = 0
        <4>1. flat[1] = s[1] /\ s[1] \in Seq(A)
          BY <1>1, <2>3, <3>1 DEF N
        <4>2. \A i \in 1 .. 1 : i = 1
          OBVIOUS
        <4>3. UNION {ToSet(s[i]) : i \in 1 .. 1} = ToSet(s[1])
          BY <4>2
        <4> QED
          BY <3>1, <4>1, <4>3
      <3>2. CASE n # 0
        <4>1. n \in 1 .. N /\ n + 1 # 1 /\ (n + 1) - 1 = n
          BY <1>1, <3>2 DEF N
        <4>2. flat[n + 1] = flat[n] \o s[n + 1]
          BY <2>3, <4>1
        <4>3. /\ flat[n] \in Seq(A) /\ s[n + 1] \in Seq(A)
              /\ ToSet(flat[n]) = UNION {ToSet(s[i]) : i \in 1 .. n}
          BY <1>1, <2>6, <4>1 DEF N
        <4>4. flat[n + 1] \in Seq(A) /\ ToSet(flat[n + 1]) = ToSet(flat[n]) \cup ToSet(s[n + 1])
          BY <2>4, <4>2, <4>3
        <4>5. \A i : i \in 1 .. (n + 1) <=> (i \in 1 .. n \/ i = n + 1)
          OBVIOUS
        <4>6. UNION {ToSet(s[i]) : i \in 1 .. (n + 1)}
                 = ToSet(s[n + 1]) \cup UNION {ToSet(s[i]) : i \in 1 .. n}
          BY <4>5
        <4> QED
          BY <4>3, <4>4, <4>6
      <3> QED
        BY <3>1, <3>2
    <2>7. N \in Good
      <3> HIDE DEF Good
      <3> QED
        BY <1>1, <2>5, <2>6, Induction DEF N
    <2>8. N \in 1 .. N
      BY <1>1, <1>4 DEF N
    <2>9. flat[N] \in Seq(A) /\ ToSet(flat[N]) = UNION {ToSet(s[i]) : i \in 1 .. N}
      BY <2>7, <2>8
    <2> QED
      BY <2>2, <2>9 DEF N
  <1> QED
    BY <1>3, <1>4

-----------------------------------------------------------------------------
(* What the window functions of a query run over. *)

\* The inner query orders its rows by its keys, all of them.
LEMMA WindowOrderIs ==
    ASSUME NEW q, IsQuery(q), NEW ctx, Asked(q, ctx), WindowsOf(q) # {}
    PROVE  \E n \in Nat : /\ DOMAIN WindowOrder(q) = 1 .. n
                          /\ {WindowOrder(q)[i] : i \in 1 .. n} = Keys(q)
                          /\ Keys(q) # {}
  <1> DEFINE D     == DOMAIN q.timeDimensions
             E     == DOMAIN q.dimensions
             named == OrderedDimensions(q)
             A     == {Bucket(q.timeDimensions[i]) : i \in D}
                         \cup {ColumnOf(q, q.dimensions[i]) : i \in E}
             parts == [i \in D |-> IF i \in Buckets(q) THEN <<Bucket(q.timeDimensions[i])>> ELSE <<>>]
             flat  == FlattenSeq(parts)
             n     == Len(flat) + Len(named)
  <1>1. /\ Len(q.timeDimensions) \in Nat /\ D = 1 .. Len(q.timeDimensions)
        /\ Len(q.dimensions) \in Nat /\ E = 1 .. Len(q.dimensions)
        /\ ToSet(q.dimensions) = {q.dimensions[i] : i \in E}
    BY ListOf DEF IsQuery, IsList
  <1>2. /\ \A i \in D : Bucket(q.timeDimensions[i]) \in A
        /\ \A i \in E : ColumnOf(q, q.dimensions[i]) \in A
    OBVIOUS
  <1> HIDE DEF A
  <1>3. \A a \in A : <<a>> \in Seq(A) /\ ToSet(<<a>>) = {a}
    BY DEF ToSet
  <1>4. \A i \in D : parts[i] = IF i \in Buckets(q) THEN <<Bucket(q.timeDimensions[i])>> ELSE <<>>
    OBVIOUS
  <1>5. parts \in Seq(Seq(A)) /\ Len(parts) = Len(q.timeDimensions)
    <2>1. \A i \in D : parts[i] \in Seq(A)
      <3>1. <<>> \in Seq(A)
        OBVIOUS
      <3> HIDE DEF parts
      <3> QED
        BY <1>2, <1>3, <1>4, <3>1
    <2>2. parts = [i \in D |-> parts[i]]
      OBVIOUS
    <2> HIDE DEF parts, D
    <2>3. parts \in [1 .. Len(q.timeDimensions) -> Seq(A)]
      BY <1>1, <2>1, <2>2
    <2> QED
      BY <1>1, <2>3
  <1> HIDE DEF parts
  <1>6. /\ flat \in Seq(A)
        /\ \A i \in D : ToSet(parts[i]) \subseteq ToSet(flat)
    <2> HIDE DEF D
    <2> QED
      BY <1>1, <1>5, FlattenedHas
  <1>7. WindowOrder(q) = flat \o named
    BY Zenon DEF WindowOrder, parts
  <1> HIDE DEF flat
  <1>8. /\ named \in Seq(A) /\ Len(named) = Len(q.dimensions)
        /\ ToSet(named) = {ColumnOf(q, q.dimensions[i]) : i \in E}
    <2>1. named = [i \in E |-> ColumnOf(q, q.dimensions[i])]
      BY Zenon DEF OrderedDimensions
    <2>2. named \in [1 .. Len(q.dimensions) -> A]
      BY <1>1, <1>2, <2>1
    <2>3. ToSet(named) = {ColumnOf(q, q.dimensions[i]) : i \in E}
      BY <2>1 DEF ToSet
    <2> HIDE DEF named
    <2> QED
      BY <1>1, <2>2, <2>3
  <1> HIDE DEF named
  <1>9. /\ WindowOrder(q) \in Seq(A) /\ n \in Nat
        /\ ToSet(WindowOrder(q)) = ToSet(flat) \cup ToSet(named)
        /\ DOMAIN WindowOrder(q) = 1 .. n
    <2>1. Len(flat) \in Nat /\ Len(named) \in Nat
      BY <1>6, <1>8
    <2>2. /\ flat \o named \in Seq(A)
          /\ ToSet(flat \o named) = ToSet(flat) \cup ToSet(named)
      BY <1>6, <1>8, AppendedHas
    <2>3. DOMAIN (flat \o named) = 1 .. (Len(flat) + Len(named))
      BY <1>6, <1>8
    <2> QED
      BY <1>7, <2>1, <2>2, <2>3
  <1> HIDE DEF n
  <1>10. \A i \in Buckets(q) : Bucket(q.timeDimensions[i]) \in ToSet(flat)
    <2> SUFFICES ASSUME NEW i \in Buckets(q) PROVE Bucket(q.timeDimensions[i]) \in ToSet(flat)
      OBVIOUS
    <2>1. i \in D
      BY DEF Buckets
    <2>2. ToSet(parts[i]) = {Bucket(q.timeDimensions[i])}
      BY <1>2, <1>3, <1>4, <2>1
    <2> QED
      BY <1>6, <2>1, <2>2
  <1>11. ASSUME NEW column \in Keys(q) PROVE column \in ToSet(WindowOrder(q))
    <2>1. CASE column \in Grouped(q)
      <3>1. column \in ToSet(q.dimensions) /\ column \notin TimePaths(q)
        BY <2>1 DEF Grouped
      <3>2. PICK i \in E : q.dimensions[i] = column
        BY <1>1, <3>1
      <3>3. BucketsOf(q, column) = {}
        BY <3>1, PathsOf DEF BucketsOf
      <3>4. ColumnOf(q, column) = column
        BY <3>3, ColumnIs
      <3> QED
        BY <1>8, <1>9, <3>2, <3>4
    <2>2. CASE \E i \in Buckets(q) : column = Bucket(q.timeDimensions[i])
      BY <1>9, <1>10, <2>2
    <2> QED
      BY <2>1, <2>2 DEF Keys, Outputs
  <1>12. ASSUME NEW column \in ToSet(WindowOrder(q)) PROVE column \in Keys(q)
    <2>1. column \in Outputs(q) /\ column \in A
      BY <1>9 DEF Asked, Runs, ToSet
    <2>2. column \notin ToSet(q.measures)
      <3>1. CASE \E i \in D : column = Bucket(q.timeDimensions[i])
        <4>1. Len(column) = 3
          BY <3>1 DEF Bucket
        <4>2. ASSUME column \in ToSet(q.measures) PROVE FALSE
          <5>1. column = <<column[1], column[2]>>
            BY <4>2, PathsOf
          <5>2. Len(<<column[1], column[2]>>) = 2
            OBVIOUS
          <5> QED
            BY <4>1, <5>1, <5>2
        <4> QED
          BY <4>2
      <3>2. CASE \E i \in E : column = q.dimensions[i]
        BY <1>1, <3>2 DEF IsQuery
      <3>3. ASSUME NEW i \in E, column = ColumnOf(q, q.dimensions[i])
            PROVE  column = q.dimensions[i] \/ \E j \in D : column = Bucket(q.timeDimensions[j])
        BY <3>3, ColumnIs, PathsOf DEF BucketsOf
      <3> QED
        BY <2>1, <3>1, <3>2, <3>3 DEF A
    <2> QED
      BY <2>1, <2>2 DEF Keys
  <1>13. ToSet(WindowOrder(q)) = {WindowOrder(q)[i] : i \in 1 .. n}
    BY <1>9 DEF ToSet
  <1>14. Keys(q) # {}
    <2>1. WindowOrder(q) # <<>>
      BY DEF Asked, Renders
    <2>2. n # 0
      BY <1>9, <2>1
    <2>3. 1 \in 1 .. n
      BY <1>9, <2>2
    <2> QED
      BY <1>12, <1>13, <2>3
  <1>15. {WindowOrder(q)[i] : i \in 1 .. n} = Keys(q)
    BY <1>11, <1>12, <1>13
  <1> QED
    BY <1>9, <1>14, <1>15

-----------------------------------------------------------------------------
LEMMA FiniteFunctions ==
    ASSUME NEW J, IsFiniteSet(J), NEW A, IsFiniteSet(A)
    PROVE  IsFiniteSet([J -> A])
  <1> DEFINE Up == {s \in SUBSET J : IsFiniteSet([s -> A])}
  <1>1. {} \in Up
    <2> DEFINE none == [x \in {} |-> x]
    <2>1. [{} -> A] = {none}
      OBVIOUS
    <2> HIDE DEF none
    <2>2. IsFiniteSet({none})
      BY FS_Singleton, Zenon
    <2>3. IsFiniteSet([{} -> A])
      BY <2>1, <2>2, Zenon
    <2>4. {} \in SUBSET J
      OBVIOUS
    <2> QED
      BY <2>3, <2>4, Zenon
  <1>2. ASSUME NEW s \in SUBSET J, NEW x \in J \ s, s \in Up PROVE s \cup {x} \in Up
    <2> DEFINE pairs == [s -> A] \X A
               with  == [pair \in pairs |->
                           [y \in s \cup {x} |-> IF y = x THEN pair[2] ELSE pair[1][y]]]
    <2>1. IsFiniteSet(pairs)
      BY <1>2, FS_Product
    <2>2. [s \cup {x} -> A] \subseteq {with[pair] : pair \in pairs}
      <3> SUFFICES ASSUME NEW f \in [s \cup {x} -> A] PROVE f \in {with[pair] : pair \in pairs}
        OBVIOUS
      <3> DEFINE pair == <<[y \in s |-> f[y]], f[x]>>
      <3>1. pair \in pairs /\ pair[2] = f[x] /\ pair[1] = [y \in s |-> f[y]]
        OBVIOUS
      <3>2. with[pair] = [y \in s \cup {x} |-> IF y = x THEN pair[2] ELSE pair[1][y]]
        BY <3>1
      <3>3. \A y \in s \cup {x} : (IF y = x THEN pair[2] ELSE pair[1][y]) = f[y]
        <4> HIDE DEF pair
        <4> QED
          BY <3>1
      <3>4. f = [y \in s \cup {x} |-> f[y]]
        OBVIOUS
      <3> HIDE DEF with, pair, pairs
      <3>5. with[pair] = f
        BY <3>2, <3>3, <3>4
      <3> QED
        BY <3>1, <3>5
    <2> HIDE DEF with, pairs
    <2>3. IsFiniteSet({with[pair] : pair \in pairs})
      BY <2>1, ImageIsFinite
    <2>4. IsFiniteSet([s \cup {x} -> A])
      BY <2>2, <2>3, FS_Subset
    <2> QED
      BY <2>4
  <1> HIDE DEF Up
  <1>3. J \in Up
    BY <1>1, <1>2, FiniteInduction
  <1> QED
    BY <1>3 DEF Up

\* A joined row has of each cube a row that it may have, or NULLs; of a finite
\* source there are finitely many.
LEMMA JoinedAre ==
    ASSUME SourceIsOfUniverse, NEW q, IsQuery(q), NEW ctx, Asked(q, ctx)
    PROVE  /\ IsFiniteSet(JoinedRows(q, source))
           /\ \A joined \in JoinedRows(q, source) : \A c \in JoinedCubes(q) :
                 joined[c] \in [registry[c].columns -> Values]
  <1> DEFINE J       == JoinedCubes(q)
             may     == [c \in J |-> source[c] \cup {NullRow(c)}]
             A       == UNION {may[c] : c \in J}
  <1>1. Primary(q) \in J /\ J \subseteq DOMAIN registry
    BY PrimaryIsJoined, JoinedAreCubes DEF Asked
  <1>2. IsFiniteSet(J)
    BY <1>1, FS_Subset, UniverseAssumption
  <1>3. \A c \in J : IsFiniteSet(may[c])
    BY <1>1, FS_AddElement DEF SourceIsOfUniverse
  <1>4. \A c \in J : \A row \in may[c] : row \in [registry[c].columns -> Values]
    <2> SUFFICES ASSUME NEW c \in J, NEW row \in may[c]
                 PROVE  row \in [registry[c].columns -> Values]
      OBVIOUS
    <2>1. row \in source[c] => row \in Universe[c]
      BY <1>1 DEF SourceIsOfUniverse
    <2>2. row \in Universe[c] => row \in [registry[c].columns -> Values]
      BY <1>1, UniverseAssumption DEF Values
    <2>3. NullRow(c) \in [registry[c].columns -> Values]
      BY DEF NullRow, Values
    <2> QED
      BY <2>1, <2>2, <2>3
  <1>5. ASSUME NEW joined \in JoinedRows(q, source)
        PROVE  joined \in [J -> A] /\ \A c \in J : joined[c] \in may[c]
    <2>1. /\ joined = [c \in J |-> joined[c]]
          /\ \E row \in source[Primary(q)] : \A c \in J : joined[c] \in Beside(q, row, c, source)
      BY JoinedRow
    <2>2. PICK row \in source[Primary(q)] : \A c \in J : joined[c] \in Beside(q, row, c, source)
      BY <2>1
    <2>3. ASSUME NEW c \in J PROVE joined[c] \in may[c]
      <3>1. CASE c = Primary(q)
        BY <2>2, <3>1 DEF Beside
      <3>2. CASE c # Primary(q)
        <4>1. joined[c] \in Matches(row, Primary(q), c, source)
          BY <2>2, <3>2 DEF Beside
        <4> DEFINE found == Found(row, Primary(q), c, source)
        <4>2. joined[c] \in IF found = {} THEN {NullRow(c)} ELSE found
          BY <4>1, MatchesAre
        <4>3. found \subseteq source[c]
          BY DEF Found
        <4> HIDE DEF found
        <4> QED
          BY <4>2, <4>3
      <3> QED
        BY <3>1, <3>2
    <2> HIDE DEF J, may
    <2>4. \A c \in J : joined[c] \in A
      BY <2>3
    <2> HIDE DEF A
    <2> QED
      BY <2>1, <2>3, <2>4
  <1> HIDE DEF may, J
  <1>6. IsFiniteSet(A)
    <2> DEFINE them == {may[c] : c \in J}
    <2>1. IsFiniteSet(them)
      BY <1>2, ImageIsFinite
    <2>2. \A m \in them : IsFiniteSet(m)
      BY <1>3
    <2> HIDE DEF them
    <2>3. IsFiniteSet(UNION them)
      BY <2>1, <2>2, FS_UNION
    <2> QED
      BY <2>3 DEF them
  <1> HIDE DEF A
  <1>7. IsFiniteSet([J -> A])
    BY <1>2, <1>6, FiniteFunctions
  <1>8. IsFiniteSet(JoinedRows(q, source))
    BY <1>5, <1>7, FS_Subset
  <1> QED
    BY <1>4, <1>5, <1>8 DEF J

\* What a query groups by is a value.
LEMMA KeyPartIs ==
    ASSUME SourceIsOfUniverse, NEW q, IsQuery(q), NEW ctx, Asked(q, ctx),
           NEW row \in JoinedRows(q, source), NEW p \in Keys(q)
    PROVE  KeyPart(p, row) \in Values
  <1> DEFINE v == ValueIn(row, p)
  <1>1. \/ p \in Grouped(q) /\ Len(p) = 2
        \/ \E i \in Buckets(q) : p = Bucket(q.timeDimensions[i])
    BY ColumnsAre DEF Keys
  <1>2. \E path \in Grouped(q) \cup TimePaths(q) : p[1] = path[1] /\ p[2] = path[2]
    <2>1. ASSUME NEW i \in Buckets(q), p = Bucket(q.timeDimensions[i])
          PROVE  \E path \in TimePaths(q) : p[1] = path[1] /\ p[2] = path[2]
      <3>1. q.timeDimensions[i].path \in TimePaths(q)
        BY PathsOf
      <3>2. p[1] = q.timeDimensions[i].path[1] /\ p[2] = q.timeDimensions[i].path[2]
        BY <2>1 DEF Bucket
      <3> QED
        BY <3>1, <3>2
    <2> QED
      BY <1>1, <2>1
  <1>3. PICK path \in Grouped(q) \cup TimePaths(q) : p[1] = path[1] /\ p[2] = path[2]
    BY <1>2
  <1>4. v = ValueIn(row, path)
    BY <1>3, Zenon DEF ValueIn, Member, Cube
  <1>5. Member(path).sql \in registry[path[1]].columns
    BY DEF Asked, Runs, Cube
  <1>6. path[1] \in JoinedCubes(q)
    BY RuledBy, RuledAreJoined
  <1>7. v \in Values
    BY <1>4, <1>5, <1>6, JoinedAre DEF ValueIn
  <1> HIDE DEF v
  <1>8. CASE Len(p) = 2 \/ v = None
    BY <1>7, <1>8 DEF KeyPart, v
  <1>9. CASE ~(Len(p) = 2 \/ v = None)
    <2>1. PICK i \in Buckets(q) : p = Bucket(q.timeDimensions[i])
      BY <1>1, <1>9
    <2> DEFINE unit == q.timeDimensions[i].granularity
    <2>2. unit \in Units /\ p[3] = unit
      <3>1. q.timeDimensions[i] \in ToSet(q.timeDimensions) /\ unit # None
        BY DEF Buckets, ToSet
      <3>2. p[3] = unit
        BY <2>1 DEF Bucket
      <3> QED
        BY <3>1, <3>2 DEF IsQuery
    <2>3. KeyPart(p, row) = UnitStart(v, unit)
      BY <1>9, <2>2, Zenon DEF KeyPart, v
    <2> HIDE DEF unit
    <2>4. v \in Int
      BY <1>7, <1>9 DEF Values
    <2>5. \E k \in Int : UnitStart(v, unit) = Edge(unit, k)
      BY <2>2, <2>4, UnitOfDay
    <2>6. UnitStart(v, unit) \in Int
      BY <2>2, <2>5, EdgesAreMidnights
    <2> QED
      BY <2>3, <2>6 DEF Values
  <1> QED
    BY <1>8, <1>9

-----------------------------------------------------------------------------
LEMMA Extremes ==
    ASSUME NEW S \in SUBSET Int, IsFiniteSet(S), S # {}
    PROVE  /\ \E x \in S : \A y \in S : x <= y
           /\ \E x \in S : \A y \in S : x >= y
  <1>1. \E x \in S : \A y \in S : x >= y
    <2> DEFINE R == {pair \in S \X S : pair[1] < pair[2]}
    <2>1. \A x, y \in S : <<x, y>> \in R <=> x < y
      OBVIOUS
    <2> HIDE DEF R
    <2>2. TotalOrder(R, S)
      BY <2>1 DEF TotalOrder
    <2>3. PICK x \in S : BeforeIn(R, S, x) = S \ {x}
      BY <2>2, LastOfAll
    <2>4. ASSUME NEW y \in S PROVE x >= y
      <3>1. y # x => y < x
        BY <2>1, <2>3 DEF BeforeIn
      <3> QED
        BY <3>1
    <2> QED
      BY <2>4
  <1>2. \E x \in S : \A y \in S : x <= y
    <2> DEFINE R == {pair \in S \X S : pair[1] > pair[2]}
    <2>1. \A x, y \in S : <<x, y>> \in R <=> x > y
      OBVIOUS
    <2> HIDE DEF R
    <2>2. TotalOrder(R, S)
      BY <2>1 DEF TotalOrder
    <2>3. PICK x \in S : BeforeIn(R, S, x) = S \ {x}
      BY <2>2, LastOfAll
    <2>4. ASSUME NEW y \in S PROVE x <= y
      <3>1. y # x => y > x
        BY <2>1, <2>3 DEF BeforeIn
      <3> QED
        BY <3>1
    <2> QED
      BY <2>4
  <1> QED
    BY <1>1, <1>2

\* What a window function refers to is a value too, unless it is an average.
LEMMA AggregateIs ==
    ASSUME SourceIsOfUniverse, NEW q, IsQuery(q), NEW ctx, Asked(q, ctx),
           NEW w \in WindowsOf(q), Member(Referenced(w)).type # "avg",
           NEW group \in SUBSET JoinedRows(q, source), IsFiniteSet(group)
    PROVE  Aggregate(Referenced(w), group) \in Values
  <1> DEFINE ref    == Referenced(w)
             type   == Member(ref).type
             inputs == Counted(ref, group)
             values == {ValueIn(row, ref) : row \in inputs}
             inCol  == [row \in inputs |-> ValueIn(row, ref)]
  <1>1. /\ ref[1] = w[1] /\ ref[2] = Member(w).sql
        /\ Member(w).sql \in DOMAIN Cube(w).measures /\ type \in ConcreteTypes
    BY DEF Asked, Renders, WindowRenders, Referenced
  <1>2. Kind(ref) = "measure"
    BY <1>1 DEF Kind, KindIn, Cube
  <1>3. ref \in Selected(q) /\ ref \in Resolved(ref)
    BY SelfResolved DEF Selected
  <1>4. Parts(ref) = {ref}
    BY <1>1 DEF Parts, ConcreteTypes, AdditiveTypes
  <1>5. OfColumns(ref)
    <2>1. ref \in UNION {Resolved(m) : m \in ToSet(q.measures) \cup Selected(q)
                                               \cup FilterPaths(q.filters)}
      BY <1>3
    <2> HIDE DEF ref
    <2> QED
      BY <1>2, <2>1 DEF Asked, Runs
  <1>6. \/ Member(ref).sql \in registry[ref[1]].columns
        \/ type = "count" /\ Member(ref).sql = None
    BY <1>4, <1>5 DEF OfColumns, Cube
  <1>7. ref[1] \in JoinedCubes(q) /\ ref[1] \in DOMAIN registry
    <2>1. ref[1] \in RuledCubes(q)
      BY <1>3, RuledBy
    <2> QED
      BY <2>1, RuledAreJoined, JoinedAreCubes DEF Asked
  <1>8. inputs = {row \in group : Counts(ref, row)}
    BY CountedAre
  <1>9. type # "count" => \A row \in inputs : ValueIn(row, ref) \in Int
    <2> SUFFICES ASSUME type # "count", NEW row \in inputs PROVE ValueIn(row, ref) \in Int
      OBVIOUS
    <2>1. Member(ref).sql \in registry[ref[1]].columns /\ Member(ref).sql # None
      BY <1>6, <1>7, UniverseAssumption
    <2>2. ValueIn(row, ref) # None /\ row \in JoinedRows(q, source)
      BY <1>8, <2>1 DEF Counts
    <2>3. row[ref[1]] \in [registry[ref[1]].columns -> Values]
      BY <1>7, <2>2, JoinedAre
    <2>4. ValueIn(row, ref) \in Values
      BY <2>1, <2>3 DEF ValueIn
    <2> QED
      BY <2>2, <2>4 DEF Values
  <1>10. Aggregate(ref, group) = OfType(type, ref, inputs, values)
    <2>1. type # "calculated"
      BY <1>1 DEF ConcreteTypes, AdditiveTypes
    <2> QED
      BY <2>1, Zenon DEF Aggregate, Concrete, OverCounted
  <1>11. IsFiniteSet(inputs) /\ IsFiniteSet(values)
    <2>1. inputs \in SUBSET group
      BY <1>8
    <2>2. IsFiniteSet(inputs)
      BY <2>1, FS_Subset
    <2>3. values = {inCol[row] : row \in inputs}
      OBVIOUS
    <2> HIDE DEF inputs, values, inCol
    <2> QED
      BY <2>2, <2>3, ImageIsFinite
  <1>12. \A row \in inputs : inCol[row] = ValueIn(row, ref)
    OBVIOUS
  <1>13. type # "count" => values \in SUBSET Int
    BY <1>9
  <1>14. inputs # {} => values # {}
    OBVIOUS
  <1>15. SumFunction(inCol) = SumFunctionOnSet(inCol, inputs)
    BY DEF SumFunction
  <1>16. Cardinality(inputs) \in Nat /\ Cardinality(values) \in Nat
    BY <1>11, FS_CardinalityType
  <1>17. OfType(type, ref, inputs, values) =
            CASE type = "count" -> Cardinality(inputs)
              [] type \in {"countDistinct", "countDistinctApprox"} -> Cardinality(values)
              [] OTHER ->
                    IF inputs = {} THEN None
                    ELSE CASE type = "sum" -> SumFunction(inCol)
                           [] type = "avg" -> [sum |-> SumFunction(inCol), of |-> Cardinality(inputs)]
                           [] type = "min" -> CHOOSE v \in values : \A x \in values : v <= x
                           [] type = "max" -> CHOOSE v \in values : \A x \in values : v >= x
    BY Zenon DEF OfType
  <1> HIDE DEF inputs, values, inCol, type
  <1>18. type \in {"sum", "count", "countDistinct", "countDistinctApprox", "min", "max"}
    BY <1>1 DEF ConcreteTypes, AdditiveTypes, type
  <1>19. CASE type \in {"count", "countDistinct", "countDistinctApprox"}
    <2>1. OfType(type, ref, inputs, values) \in {Cardinality(inputs), Cardinality(values)}
      BY <1>17, <1>19
    <2> QED
      BY <1>10, <1>16, <2>1 DEF Values
  <1>20. CASE type \in {"sum", "min", "max"} /\ inputs = {}
    <2>1. OfType(type, ref, inputs, values) = None
      BY <1>17, <1>20
    <2> QED
      BY <1>10, <2>1 DEF Values
  <1>21. CASE type = "sum" /\ inputs # {}
    <2>1. OfType(type, ref, inputs, values) = SumFunction(inCol)
      BY <1>17, <1>21
    <2>2. SumFunctionOnSet(inCol, inputs) \in Int
      BY <1>9, <1>11, <1>12, <1>21, SumType
    <2> QED
      BY <1>10, <1>15, <2>1, <2>2 DEF Values
  <1>22. CASE type \in {"min", "max"} /\ inputs # {}
    <2>1. OfType(type, ref, inputs, values) =
             IF type = "min" THEN CHOOSE v \in values : \A x \in values : v <= x
             ELSE CHOOSE v \in values : \A x \in values : v >= x
      BY <1>17, <1>22
    <2>2. /\ \E v \in values : \A x \in values : v <= x
          /\ \E v \in values : \A x \in values : v >= x
      BY <1>11, <1>13, <1>14, <1>22, Extremes
    <2>3. OfType(type, ref, inputs, values) \in values
      BY <2>1, <2>2
    <2> QED
      BY <1>10, <1>13, <1>22, <2>3 DEF Values
  <1> QED
    BY <1>18, <1>19, <1>20, <1>21, <1>22

\* The rows of an inner query are finitely many, and its keys put them in order.
LEMMA InnerRows ==
    ASSUME SourceIsOfUniverse, NEW q, IsQuery(q), NEW ctx, Asked(q, ctx), WindowsOf(q) # {},
           NEW inner, inner = GroupedRows(q, ctx, source),
           NEW R, \A a, b \in inner :
                     <<a, b>> \in R <=> Precedes(Ascending(WindowOrder(q)), a, b)
    PROVE  /\ IsFiniteSet(inner) /\ TotalOrder(R, inner)
           /\ \A w \in WindowsOf(q) : \A row \in inner :
                 Member(Referenced(w)).type # "avg" => row[Referenced(w)] \in Values
  <1> DEFINE rows   == SelectedRows(q, ctx, source)
             groups == Groups(q, rows)
             having == {g \in groups : Having(q, g)}
             of     == [g \in groups |-> RowOf(q, g)]
  <1>1. rows \subseteq JoinedRows(q, source) /\ IsFiniteSet(rows)
    <2>1. rows \subseteq JoinedRows(q, source)
      BY DEF SelectedRows
    <2> QED
      BY <2>1, JoinedAre, FS_Subset
  <1>2. PICK n \in Nat : /\ DOMAIN WindowOrder(q) = 1 .. n /\ Keys(q) # {}
                         /\ {WindowOrder(q)[i] : i \in 1 .. n} = Keys(q)
    BY WindowOrderIs
  <1> HIDE DEF rows
  <1>3. /\ IsFiniteSet(groups) /\ UNION groups = rows
        /\ \A g \in groups : IsFiniteSet(g)
        /\ \A g, h \in groups : (\A p \in Keys(q) : RowOf(q, g)[p] = RowOf(q, h)[p]) => g = h
        /\ \A g \in groups : ChosenIn(g) \in g
    BY <1>1, <1>2, GroupsPartition
  <1>4. inner = {RowOf(q, g) : g \in having}
    BY Zenon DEF GroupedRows, RowOf, Keys, ChosenIn, rows
  <1> HIDE DEF groups
  <1>5. IsFiniteSet(inner)
    <2>1. having \in SUBSET groups
      OBVIOUS
    <2>2. IsFiniteSet(having)
      BY <1>3, <2>1, FS_Subset
    <2>3. inner = {of[g] : g \in having}
      BY <1>4
    <2> HIDE DEF of, having
    <2> QED
      BY <2>2, <2>3, ImageIsFinite
  <1>6. \A row \in inner : \E g \in groups : row = RowOf(q, g)
    BY <1>4
  <1>7. ASSUME NEW g \in groups, NEW p \in Keys(q) PROVE RowOf(q, g)[p] \in Values
    <2>1. ChosenIn(g) \in JoinedRows(q, source)
      BY <1>1, <1>3
    <2>2. RowOf(q, g)[p] = KeyPart(p, ChosenIn(g))
      BY DEF RowOf
    <2> QED
      BY <2>1, <2>2, KeyPartIs
  <1>8. TotalOrder(R, inner)
    <2>1. \A a \in inner : \A i \in 1 .. n : a[WindowOrder(q)[i]] \in Values
      BY <1>2, <1>6, <1>7
    <2>2. ASSUME NEW a \in inner, NEW b \in inner, a # b
          PROVE  \E i \in 1 .. n : a[WindowOrder(q)[i]] # b[WindowOrder(q)[i]]
      <3>1. PICK g \in groups : a = RowOf(q, g)
        BY <1>6
      <3>2. PICK h \in groups : b = RowOf(q, h)
        BY <1>6
      <3>3. PICK p \in Keys(q) : a[p] # b[p]
        BY <1>3, <2>2, <3>1, <3>2
      <3> QED
        BY <1>2, <3>3
    <2> QED
      BY <1>2, <2>1, <2>2, PrecedesIsAnOrder
  <1>9. ASSUME NEW w \in WindowsOf(q), NEW row \in inner, Member(Referenced(w)).type # "avg"
        PROVE  row[Referenced(w)] \in Values
    <2>1. PICK g \in groups : row = RowOf(q, g)
      BY <1>6
    <2>2. CASE Referenced(w) \in Keys(q)
      BY <1>7, <2>1, <2>2
    <2>3. CASE Referenced(w) \notin Keys(q)
      <3>1. Referenced(w) \in Selected(q)
        BY DEF Selected
      <3>2. row[Referenced(w)] = Aggregate(Referenced(w), g)
        BY <2>1, <2>3, <3>1 DEF RowOf
      <3>3. g \in SUBSET JoinedRows(q, source) /\ IsFiniteSet(g)
        BY <1>1, <1>3
      <3> QED
        BY <1>9, <3>2, <3>3, AggregateIs
    <2> QED
      BY <2>2, <2>3
  <1> QED
    BY <1>5, <1>8, <1>9

\* A running total at a row.
KnownTo(R, inner, ref, row) == {other \in BeforeIn(R, inner, row) \cup {row} : other[ref] # None}

RunningAt(R, inner, ref, row) ==
    IF KnownTo(R, inner, ref, row) = {} THEN None
    ELSE SumFunction([other \in KnownTo(R, inner, ref, row) |-> other[ref]])

\* A running total that has come to the last row is the total.
LEMMA RunningTotal ==
    ASSUME NEW R, NEW inner, IsFiniteSet(inner), TotalOrder(R, inner), inner # {},
           NEW ref, \A row \in inner : row[ref] \in Values,
           NEW value, \A row \in inner : value[row] = RunningAt(R, inner, ref, row)
    PROVE  \/ \A row \in inner : value[row] = None
           \/ \E row \in inner : value[row] = Total(inner, ref)
  <1>1. PICK last \in inner : BeforeIn(R, inner, last) = inner \ {last}
    BY LastOfAll
  <1> DEFINE known == {other \in inner : other[ref] # None}
             f     == [other \in known |-> other[ref]]
             g     == [row \in inner |-> IF row[ref] = None THEN 0 ELSE row[ref]]
  <1>2. KnownTo(R, inner, ref, last) = known
    BY <1>1 DEF KnownTo
  <1>3. \A row \in inner : KnownTo(R, inner, ref, row) \subseteq known
    BY DEF KnownTo, BeforeIn
  <1>4. CASE known = {}
    <2>1. \A row \in inner : value[row] = None
      BY <1>3, <1>4 DEF RunningAt
    <2> QED
      BY <2>1
  <1>5. CASE known # {}
    <2>1. value[last] = SumFunction(f)
      BY <1>2, <1>5 DEF RunningAt
    <2>2. SumFunction(f) = SumFunctionOnSet(f, known) /\ Total(inner, ref) = SumFunctionOnSet(g, inner)
      BY DEF SumFunction, Total
    <2>3. /\ known \in SUBSET inner /\ \A x \in known : f[x] \in Int
          /\ \A x \in inner : g[x] = IF x \in known THEN f[x] ELSE 0
      BY DEF Values
    <2> HIDE DEF known, f, g
    <2>4. SumFunctionOnSet(f, known) = SumFunctionOnSet(g, inner)
      BY <2>3, SumWhere
    <2> QED
      BY <2>1, <2>2, <2>4
  <1> QED
    BY <1>4, <1>5

\* The window functions run over the rows of the inner query: its keys are all
\* in their order and tell any two rows apart, so that ranks are 1 .. n and a
\* running total comes to a last row, where it is the total.
THEOREM Windowed == Spec => []WindowsRunOverTheAnswer
  <1>1. ASSUME SourceIsOfUniverse PROVE WindowsRunOverTheAnswer
    <2> SUFFICES ASSUME NEW q \in Queried, NEW ctx \in Contexts, Asked(q, ctx), NEW w \in WindowsOf(q)
                 PROVE  RunsOver(w, GroupedRows(q, ctx, source),
                                 {row[w] : row \in Rows(q, ctx, source)})
      BY Zenon DEF WindowsRunOverTheAnswer, AskedOfBase
    <2> DEFINE inner == GroupedRows(q, ctx, source)
               order == Ascending(WindowOrder(q))
               R     == {pair \in inner \X inner : Precedes(order, pair[1], pair[2])}
               ref   == Referenced(w)
               value == [row \in inner |-> WindowValue(q, w, row, inner)]
    <2>1. IsQuery(q)
      BY IsAQuery
    <2>2. \A a, b \in inner : <<a, b>> \in R <=> Precedes(order, a, b)
      <3> HIDE DEF inner, order
      <3> QED
        OBVIOUS
    <2>3. {row[w] : row \in Rows(q, ctx, source)} = {value[row] : row \in inner}
      <3> DEFINE out(row) == [column \in Outputs(q) \cup Selected(q) |->
                                 IF column \in WindowsOf(q) THEN WindowValue(q, column, row, inner)
                                 ELSE row[column]]
      <3>1. w \in Outputs(q) \cup Selected(q)
        BY DEF Outputs, WindowsOf
      <3>2. \A row : out(row)[w] = WindowValue(q, w, row, inner)
        BY <3>1
      <3>3. Rows(q, ctx, source) = {out(row) : row \in inner}
        BY Zenon DEF Rows, Outer
      <3> HIDE DEF inner, out
      <3>4. {row[w] : row \in Rows(q, ctx, source)} = {WindowValue(q, w, row, inner) : row \in inner}
        BY <3>2, <3>3
      <3>5. \A row \in inner : value[row] = WindowValue(q, w, row, inner)
        OBVIOUS
      <3> HIDE DEF value
      <3> QED
        BY <3>4, <3>5
    <2> HIDE DEF R
    <2>4. /\ IsFiniteSet(inner) /\ TotalOrder(R, inner)
          /\ \A row \in inner : Member(ref).type # "avg" => row[ref] \in Values
      BY <1>1, <2>1, <2>2, InnerRows
    <2>5. \A row \in inner : {other \in inner : Precedes(order, other, row)} = BeforeIn(R, inner, row)
      BY <2>2 DEF BeforeIn
    <2>6. ASSUME NEW row \in inner
          PROVE  value[row] =
                    IF Member(w).type \in {"rank", "rowNumber"}
                    THEN Cardinality(BeforeIn(R, inner, row)) + 1
                    ELSE RunningAt(R, inner, ref, row)
      <3> DEFINE before == {other \in inner : Precedes(order, other, row)}
                 known  == {other \in before \cup {row} : other[ref] # None}
      <3>1. WindowValue(q, w, row, inner) =
               CASE Member(w).type \in {"rank", "rowNumber"} -> Cardinality(before) + 1
                 [] OTHER -> IF known = {} THEN None
                             ELSE SumFunction([other \in known |-> other[ref]])
        BY Zenon DEF WindowValue, Ascending
      <3>2. before = BeforeIn(R, inner, row)
        BY <2>5
      <3>3. known = KnownTo(R, inner, ref, row)
        BY <3>2 DEF KnownTo
      <3> HIDE DEF before, known, inner
      <3>4. value[row] = WindowValue(q, w, row, inner)
        OBVIOUS
      <3> HIDE DEF value
      <3> QED
        BY <3>1, <3>2, <3>3, <3>4 DEF RunningAt
    <2> HIDE DEF inner, order, value
    <2>7. CASE Member(w).type \in {"rank", "rowNumber"}
      <3> DEFINE rank == [row \in inner |-> Cardinality(BeforeIn(R, inner, row)) + 1]
      <3>1. \A row \in inner : value[row] = rank[row]
        BY <2>6, <2>7
      <3>2. {rank[row] : row \in inner} = 1 .. Cardinality(inner)
        <4>1. rank = [row \in inner |-> Cardinality(BeforeIn(R, inner, row)) + 1]
          OBVIOUS
        <4> HIDE DEF rank
        <4> QED
          BY <2>4, <4>1, RanksOf
      <3> HIDE DEF rank
      <3>3. {value[row] : row \in inner} = 1 .. Cardinality(inner)
        BY <3>1, <3>2
      <3> QED
        BY <2>3, <2>7, <3>3 DEF RunsOver, inner
    <2>8. CASE Member(w).type \notin {"rank", "rowNumber"}
      <3> SUFFICES ASSUME inner # {}, Member(ref).type # "avg"
                   PROVE  \/ {value[row] : row \in inner} = {None}
                          \/ Total(inner, ref) \in {value[row] : row \in inner}
        BY <2>3, <2>8 DEF RunsOver, inner
      <3>1. \A row \in inner : value[row] = RunningAt(R, inner, ref, row)
        BY <2>6, <2>8
      <3>2. \A row \in inner : row[ref] \in Values
        BY <2>4
      <3>3. IsFiniteSet(inner) /\ TotalOrder(R, inner) /\ inner # {}
        BY <2>4
      <3> HIDE DEF ref
      <3>4. \/ \A row \in inner : value[row] = None
            \/ \E row \in inner : value[row] = Total(inner, ref)
        BY <3>1, <3>2, <3>3, RunningTotal
      <3> QED
        BY <3>3, <3>4
    <2> QED
      BY <2>7, <2>8
  <1> QED
    BY <1>1, Sourced, PTL

-----------------------------------------------------------------------------
(* Queries and the rollups they fit. *)

\* A query, and the rollup of the cube c that it is routed to and that it fits.
RoutedTo(q, ctx, c, pa) ==
    /\ IsQuery(q) /\ ctx \in Contexts /\ Asked(q, ctx) /\ NoneBare(q, ctx) /\ Keys(q) # {}
    /\ c = TheCube(q) /\ c \in DOMAIN registry /\ ReferencedCubes(q) = {c}
    /\ q.segments = <<>> /\ ~ContainsMeasure(q.filters)
    /\ Serves(c, pa, q) /\ pa.granularity \in Units
    /\ Creates(c, pa) /\ RollupRenders(c, q, ctx) /\ Fits(q, ctx, pa)

\* The tables are of the rows that they were built from.
TablesAreBuilt == tables = [c \in DOMAIN registry |-> Built(c, builtFrom[c])]

LEMMA MinIs ==
    ASSUME NEW S \in SUBSET Nat, S # {} PROVE Min(S) \in S /\ \A x \in S : Min(S) <= x
  <1>1. \E x \in S : \A y \in S : x <= y
    BY Least
  <1> QED
    BY <1>1 DEF Min

LEMMA CubeIsKnown ==
    ASSUME NEW q, NEW ctx, Asked(q, ctx), NEW c, ReferencedCubes(q) = {c}
    PROVE  c \in DOMAIN registry
  <1>1. PICK p \in ToSet(q.measures) \cup ToSet(q.dimensions) \cup TimePaths(q) : p[1] = c
    BY DEF ReferencedCubes
  <1>2. p \in ToSet(q.measures) \cup Grouped(q) \cup TimePaths(q)
    BY DEF Grouped
  <1> QED
    BY <1>1, <1>2 DEF Asked, Renders, Resolves

\* There is one table of each name, and the route is to its rollup.
LEMMA TableOfRoute ==
    ASSUME NEW c \in DOMAIN registry, NEW i \in DOMAIN registry[c].preAggregations, NEW rows,
           registry[c].preAggregations[i].name \in DOMAIN Built(c, rows)
    PROVE  /\ Creates(c, registry[c].preAggregations[i])
           /\ Built(c, rows)[registry[c].preAggregations[i].name]
                 = Table(c, registry[c].preAggregations[i], rows)
  <1> DEFINE rollups == registry[c].preAggregations
             pas == {pa \in ToSet(rollups) : Creates(c, pa)}
             TheOne(name) == CHOOSE pa \in pas : pa.name = name
             n == rollups[i].name
  <1>1. Built(c, rows) = [name \in {pa.name : pa \in pas} |-> Table(c, TheOne(name), rows)]
    BY Zenon DEF Built
  <1>2. \A j \in DOMAIN rollups : rollups[j].name = n => j = i
    BY RegistryAssumption DEF Valid
  <1>3. ToSet(rollups) = {rollups[j] : j \in DOMAIN rollups}
    BY RegistryAssumption, ListOf
  <1> HIDE DEF rollups, n
  <1>4. n \in {pa.name : pa \in pas}
    BY <1>1 DEF n, rollups
  <1>5. PICK pa \in pas : pa.name = n
    BY <1>4
  <1>6. \A other \in pas : other.name = n => other = rollups[i]
    BY <1>2, <1>3
  <1>7. rollups[i] \in pas /\ rollups[i].name = n
    BY <1>5, <1>6
  <1>8. TheOne(n) = rollups[i]
    BY <1>6, <1>7
  <1>9. Creates(c, rollups[i])
    BY <1>7
  <1> HIDE DEF pas, TheOne
  <1>10. Built(c, rows)[n] = Table(c, TheOne(n), rows)
    BY <1>1, <1>4
  <1> QED
    BY <1>8, <1>9, <1>10 DEF n, rollups

LEMMA RouteIs ==
    ASSUME NEW q, IsQuery(q), NEW ctx \in Contexts, Asked(q, ctx), NoneBare(q, ctx),
           Keys(q) # {}, TablesAreBuilt, Routed(q, ctx, tables), Fits(q, ctx, Route(q))
    PROVE  /\ RoutedTo(q, ctx, TheCube(q), Route(q))
           /\ tables[TheCube(q)][Route(q).name]
                 = Table(TheCube(q), Route(q), builtFrom[TheCube(q)])
  <1> DEFINE c       == TheCube(q)
             rollups == registry[c].preAggregations
             i       == Min(Candidates(q))
  <1>1. Candidates(q) # {} /\ Route(q).name \in DOMAIN tables[c] /\ RollupRenders(c, q, ctx)
    BY DEF Routed
  <1>2. /\ q.segments = <<>> /\ ~ContainsMeasure(q.filters) /\ ReferencedCubes(q) = {c}
        /\ Candidates(q) = {k \in DOMAIN rollups : Serves(c, rollups[k], q)}
    BY <1>1 DEF Candidates
  <1>3. c \in DOMAIN registry
    BY <1>2, CubeIsKnown
  <1>4. IsList(rollups) /\ DOMAIN rollups = 1 .. Len(rollups) /\ Len(rollups) \in Nat
    BY <1>3, RegistryAssumption, ListOf
  <1>5. Candidates(q) \in SUBSET Nat
    BY <1>2, <1>4
  <1>6. i \in Candidates(q)
    BY <1>1, <1>5, MinIs
  <1>7. i \in DOMAIN rollups /\ Serves(c, rollups[i], q) /\ Route(q) = rollups[i]
    BY <1>2, <1>6 DEF Route
  <1> HIDE DEF i
  <1>8. rollups[i].granularity \in Units
    <2>1. rollups[i].granularity # None
      BY <1>7 DEF Serves
    <2> QED
      BY <1>3, <1>7, <2>1, RegistryAssumption
  <1>9. tables[c] = Built(c, builtFrom[c])
    BY <1>3 DEF TablesAreBuilt
  <1> HIDE DEF c
  <1>10. /\ Creates(c, Route(q))
         /\ Built(c, builtFrom[c])[Route(q).name] = Table(c, Route(q), builtFrom[c])
    BY <1>1, <1>3, <1>7, <1>9, TableOfRoute
  <1>11. Route(q).granularity \in Units /\ Serves(c, Route(q), q)
    BY <1>7, <1>8
  <1>12. RoutedTo(q, ctx, c, Route(q))
    BY <1>1, <1>2, <1>3, <1>10, <1>11, Zenon DEF RoutedTo, c
  <1> QED
    BY <1>9, <1>10, <1>12 DEF c

\* The measures that a rollup answers are sums and counts of its cube.
LEMMA RoutedMeasures ==
    ASSUME NEW q, NEW ctx, NEW c, NEW pa, RoutedTo(q, ctx, c, pa), NEW m \in ToSet(q.measures)
    PROVE  /\ m = <<c, m[2]>> /\ m[1] = c /\ m[2] \in pa.measures
           /\ Kind(m) = "measure" /\ Member(m).type \in AdditiveTypes
           /\ Resolved(m) = {m} \cup FilterPaths(Member(m).filters)
           /\ \A p \in FilterPaths(Member(m).filters) : p[1] = c
           /\ Member(m).type = "sum" => Member(m).sql \in registry[c].columns
           /\ Member(m).sql \in registry[c].columns \cup {None}
  <1>1. m[1] = c /\ m = <<m[1], m[2]>>
    BY DEF RoutedTo, ReferencedCubes, IsQuery
  <1>2. m[2] \in pa.measures /\ Member(m).type \in AdditiveTypes
    BY DEF RoutedTo, Serves
  <1>3. Kind(m) = "measure"
    BY DEF RoutedTo, Asked, Renders
  <1>4. Member(m).type \in ConcreteTypes /\ Member(m).type # "calculated"
    BY <1>2 DEF AdditiveTypes, ConcreteTypes
  <1>5. Parts(m) = {m}
    BY <1>4 DEF Parts
  <1>6. Resolved(m) = {m} \cup FilterPaths(Member(m).filters)
    BY <1>3, <1>5 DEF Resolved
  <1>7. \A p \in FilterPaths(Member(m).filters) : p[1] = c
    BY <1>1, <1>2 DEF RoutedTo, Creates
  <1>8. OfColumns(m)
    <2>1. m \in UNION {Resolved(k) : k \in ToSet(q.measures) \cup Selected(q)
                                             \cup FilterPaths(q.filters)}
      BY <1>6
    <2> QED
      BY <1>3, <2>1 DEF RoutedTo, Asked, Runs
  <1>9. /\ Member(m).type = "sum" => Member(m).sql \in registry[c].columns
        /\ Member(m).sql \in registry[c].columns \cup {None}
    BY <1>1, <1>5, <1>8 DEF OfColumns, Cube
  <1> QED
    BY <1>1, <1>2, <1>3, <1>6, <1>7, <1>9

\* What it groups and filters by are dimensions of its cube.
Looked(q) == ToSet(q.dimensions) \cup TimePaths(q) \cup FilterPaths(q.filters)

LEMMA RoutedDimensions ==
    ASSUME NEW q, NEW ctx, NEW c, NEW pa, RoutedTo(q, ctx, c, pa), NEW p \in Looked(q)
    PROVE  /\ p[1] = c /\ Kind(p) = "dimension" /\ Resolved(p) = {p}
           /\ Member(p).sql = PathColumn(c, p)
  <1>1. p[1] = c /\ Kind(p) = "dimension"
    BY DEF RoutedTo, Fits, Looked
  <1>2. Resolved(p) = {p}
    BY <1>1 DEF Resolved
  <1>3. Member(p) = registry[c].dimensions[p[2]]
    BY <1>1 DEF Member, MemberIn, Kind, Cube
  <1> QED
    BY <1>1, <1>2, <1>3 DEF PathColumn, DimensionColumn

\* So there is nothing to join.
LEMMA OneCube ==
    ASSUME NEW q, NEW ctx, NEW c, NEW pa, RoutedTo(q, ctx, c, pa)
    PROVE  /\ WindowsOf(q) = {} /\ Selected(q) = ToSet(q.measures)
           /\ RuledCubes(q) = {c} /\ JoinedCubes(q) = {c} /\ Primary(q) = c
  <1>1. WindowsOf(q) = {}
    BY RoutedMeasures DEF WindowsOf, AdditiveTypes, WindowTypes
  <1>2. Selected(q) = ToSet(q.measures)
    BY <1>1 DEF Selected
  <1>3. \A m \in ToSet(q.measures) : \A p \in Resolved(m) : p[1] = c
    BY RoutedMeasures
  <1>4. \A p \in Grouped(q) \cup TimePaths(q) : p[1] = c
    BY RoutedDimensions DEF Looked, Grouped
  <1>5. RuledCubes(q) \subseteq {c}
    BY <1>2, <1>3, <1>4, RuledBy
  <1>6. Primary(q) \in RuledCubes(q)
    BY PrimaryIsRuled DEF RoutedTo, Asked, Runs
  <1>7. ToSet(q.segments) = {}
    BY DEF RoutedTo, ToSet
  <1>8. \A f \in FilterPaths(q.filters) : \A p \in Resolved(f) : p[1] = c
    BY RoutedDimensions DEF Looked
  <1>9. JoinedCubes(q) = RuledCubes(q)
    BY <1>5, <1>6, <1>7, <1>8 DEF JoinedCubes
  <1> QED
    BY <1>1, <1>2, <1>5, <1>6, <1>9

\* The rows that the base cube's statement sees.
One(c, row) == [d \in {c} |-> row]

LEMMA JoinedOnes ==
    ASSUME NEW q, NEW ctx, NEW c, NEW pa, RoutedTo(q, ctx, c, pa), NEW db, NEW joined
    PROVE  joined \in JoinedRows(q, db) <=> \E row \in db[c] : joined = One(c, row)
  <1>1. JoinedCubes(q) = {c} /\ Primary(q) = c
    BY OneCube
  <1>2. \A row : Beside(q, row, c, db) = {row}
    BY <1>1 DEF Beside
  <1>3. joined \in JoinedRows(q, db) <=>
           /\ joined = [d \in {c} |-> joined[d]]
           /\ \E row \in db[c] : \A d \in {c} : joined[d] \in Beside(q, row, d, db)
    <2>1. joined \in JoinedRows(q, db) <=>
             /\ joined = [d \in JoinedCubes(q) |-> joined[d]]
             /\ \E row \in db[Primary(q)] :
                   \A d \in JoinedCubes(q) : joined[d] \in Beside(q, row, d, db)
      BY JoinedRow
    <2>2. [d \in JoinedCubes(q) |-> joined[d]] = [d \in {c} |-> joined[d]]
      BY <1>1
    <2> QED
      BY <1>1, <2>1, <2>2, Zenon
  <1> QED
    BY <1>2, <1>3 DEF One

\* Every time dimension of the query has a bucket, and its dimensions are none
\* of them: both statements group by the same.
LEMMA RoutedTimes ==
    ASSUME NEW q, NEW ctx, NEW c, NEW pa, RoutedTo(q, ctx, c, pa)
    PROVE  /\ DOMAIN q.timeDimensions = 1 .. Len(q.timeDimensions) /\ Len(q.timeDimensions) \in Nat
           /\ \A i \in DOMAIN q.timeDimensions : q.timeDimensions[i].granularity \in Units
           /\ Keys(q) = ToSet(q.dimensions)
                            \cup {Bucket(q.timeDimensions[i]) : i \in DOMAIN q.timeDimensions}
           /\ RollupKeys(q) = Keys(q) /\ RollupOutputs(q) = Outputs(q)
  <1> DEFINE buckets == {Bucket(q.timeDimensions[i]) : i \in DOMAIN q.timeDimensions}
  <1>1. /\ DOMAIN q.timeDimensions = 1 .. Len(q.timeDimensions) /\ Len(q.timeDimensions) \in Nat
        /\ ToSet(q.timeDimensions) = {q.timeDimensions[i] : i \in DOMAIN q.timeDimensions}
    BY ListOf DEF RoutedTo, IsQuery
  <1>2. \A i \in DOMAIN q.timeDimensions :
           /\ q.timeDimensions[i].granularity # None
           /\ q.timeDimensions[i].granularity \in Units \cup {None}
    BY <1>1 DEF RoutedTo, IsQuery, Fits
  <1>3. Buckets(q) = DOMAIN q.timeDimensions
    BY <1>2 DEF Buckets
  <1>4. Grouped(q) = ToSet(q.dimensions)
    BY DEF RoutedTo, Fits, Grouped
  <1>5. Outputs(q) = ToSet(q.measures) \cup (ToSet(q.dimensions) \cup buckets)
    BY <1>3, <1>4, Zenon DEF Outputs
  <1>6. ToSet(q.measures) \cap ToSet(q.dimensions) = {}
    BY DEF RoutedTo, IsQuery
  <1>7. ASSUME NEW column \in buckets PROVE column \notin ToSet(q.measures)
    <2>1. Len(column) = 3
      BY DEF Bucket
    <2>2. ASSUME column \in ToSet(q.measures) PROVE FALSE
      <3>1. column = <<column[1], column[2]>>
        BY <2>2, PathsOf DEF RoutedTo
      <3>2. Len(<<column[1], column[2]>>) = 2
        OBVIOUS
      <3> QED
        BY <2>1, <3>1, <3>2
    <2> QED
      BY <2>2
  <1>8. RollupKeys(q) = ToSet(q.dimensions) \cup buckets
    BY <1>1, <1>2 DEF RollupKeys
  <1> HIDE DEF buckets
  <1>9. Keys(q) = ToSet(q.dimensions) \cup buckets
    BY <1>5, <1>6, <1>7 DEF Keys
  <1>10. RollupOutputs(q) = Outputs(q)
    BY <1>5, <1>8 DEF RollupOutputs
  <1> QED
    BY <1>1, <1>2, <1>8, <1>9, <1>10 DEF buckets

-----------------------------------------------------------------------------
(* The lines of a rollup. *)

\* The line that a row is counted in.
LineKey(c, pa, row) == [column \in KeyColumns(c, pa) |-> Bucketed(c, pa, row, column)]

LineOf(c, pa, rows, key) ==
    [column \in KeyColumns(c, pa) \cup pa.measures |->
        IF column \in pa.measures
        THEN Concrete(<<c, column>>, {One(c, row) : row \in {row \in rows : LineKey(c, pa, row) = key}})
        ELSE key[column]]

Line(c, pa, rows, row) == LineOf(c, pa, rows, LineKey(c, pa, row))

LEMMA TableLines ==
    ASSUME NEW c, NEW pa, NEW rows, NEW line
    PROVE  line \in Table(c, pa, rows) <=> \E row \in rows : line = Line(c, pa, rows, row)
  <1>1. Table(c, pa, rows) = {LineOf(c, pa, rows, key) : key \in {LineKey(c, pa, row) : row \in rows}}
    BY Zenon DEF Table, LineOf, LineKey, One
  <1> QED
    BY <1>1, Zenon DEF Line

LEMMA ColumnsApart ==
    ASSUME NEW c, NEW pa, Creates(c, pa)
    PROVE  KeyColumns(c, pa) \cap pa.measures = {}
  <1> DEFINE a == {DimensionColumn(c, d) : d \in pa.dimensions}
             s == pa.securityColumns
             t == TimeColumns(c, pa)
             m == pa.measures
             lists == <<a, s, t, m>>
  <1>1. \A i, j \in DOMAIN lists : i # j => lists[i] \cap lists[j] = {}
    BY Zenon DEF Creates
  <1> HIDE DEF a, s, t, m
  <1>2. DOMAIN lists = 1 .. 4 /\ lists[1] = a /\ lists[2] = s /\ lists[3] = t /\ lists[4] = m
    OBVIOUS
  <1> HIDE DEF lists
  <1>3. a \cap m = {} /\ s \cap m = {} /\ t \cap m = {}
    BY <1>1, <1>2
  <1> QED
    BY <1>3 DEF KeyColumns, a, s, t, m

\* A line has the columns of its row, the time by its bucket ...
LEMMA LineColumns ==
    ASSUME NEW c, NEW pa, Creates(c, pa), NEW rows, NEW row,
           NEW column \in KeyColumns(c, pa)
    PROVE  Line(c, pa, rows, row)[column] = Bucketed(c, pa, row, column)
  <1>1. Line(c, pa, rows, row)[column] = LineKey(c, pa, row)[column]
    BY ColumnsApart DEF Line, LineOf
  <1> QED
    BY <1>1 DEF LineKey

\* ... and aggregates of the rows that are counted in it.
Cell(c, pa, rows, row) == {other \in rows : LineKey(c, pa, other) = LineKey(c, pa, row)}

LEMMA LineValues ==
    ASSUME NEW c, NEW pa, NEW rows, NEW row, NEW name \in pa.measures,
           NEW group, \A x : x \in group <=> \E other \in Cell(c, pa, rows, row) : x = One(c, other)
    PROVE  Line(c, pa, rows, row)[name] = Concrete(<<c, name>>, group)
  <1>1. Line(c, pa, rows, row)[name] =
              Concrete(<<c, name>>, {One(c, other) : other \in
                  {other \in rows : LineKey(c, pa, other) = LineKey(c, pa, row)}})
    BY Zenon DEF Line, LineOf
  <1>2. group = {One(c, other) : other \in
                    {other \in rows : LineKey(c, pa, other) = LineKey(c, pa, row)}}
    BY DEF Cell
  <1> QED
    BY <1>1, <1>2, Zenon

LEMMA SameLine ==
    ASSUME NEW c, NEW pa, Creates(c, pa), NEW rows, NEW row, NEW other
    PROVE  Line(c, pa, rows, row) = Line(c, pa, rows, other)
              <=> LineKey(c, pa, row) = LineKey(c, pa, other)
  <1>1. ASSUME Line(c, pa, rows, row) = Line(c, pa, rows, other)
        PROVE  LineKey(c, pa, row) = LineKey(c, pa, other)
    <2>1. \A column \in KeyColumns(c, pa) :
             Bucketed(c, pa, row, column) = Bucketed(c, pa, other, column)
      BY <1>1, LineColumns
    <2> QED
      BY <2>1, Zenon DEF LineKey
  <1> QED
    BY <1>1, Zenon DEF Line

\* What a line keeps of a row it counts.
Kept(c, pa) == KeyColumns(c, pa) \ TimeColumns(c, pa)

LEMMA LineKeeps ==
    ASSUME NEW c, NEW pa, Creates(c, pa), NEW rows, NEW row
    PROVE  /\ \A column \in Kept(c, pa) : Line(c, pa, rows, row)[column] = row[column]
           /\ \A column \in TimeColumns(c, pa) :
                 Line(c, pa, rows, row)[column] =
                    IF row[column] = None THEN None ELSE UnitStart(row[column], pa.granularity)
  <1>1. TimeColumns(c, pa) \subseteq KeyColumns(c, pa)
    BY DEF KeyColumns
  <1> QED
    BY <1>1, LineColumns DEF Kept, Bucketed

\* The values of what is filtered and grouped by, in a row and in its line.
LEMMA LineOfPath ==
    ASSUME NEW q, NEW ctx, NEW c, NEW pa, RoutedTo(q, ctx, c, pa), NEW rows, NEW row,
           NEW p \in Looked(q), PathColumn(c, p) \in Kept(c, pa)
    PROVE  Line(c, pa, rows, row)[PathColumn(c, p)] = ValueIn(One(c, row), p)
  <1>1. p[1] = c /\ Member(p).sql = PathColumn(c, p)
    BY RoutedDimensions
  <1>2. One(c, row)[c] = row
    BY DEF One
  <1>3. ValueIn(One(c, row), p) = row[PathColumn(c, p)]
    BY <1>1, <1>2 DEF ValueIn
  <1> QED
    BY <1>3, LineKeeps DEF RoutedTo

\* The first time dimension is that of the rollup, and any other that is not
\* kept is the same.
LEMMA TimeOfRoute ==
    ASSUME NEW q, NEW ctx, NEW c, NEW pa, RoutedTo(q, ctx, c, pa),
           NEW i \in DOMAIN q.timeDimensions,
           PathColumn(c, q.timeDimensions[i].path) \notin Kept(c, pa)
    PROVE  /\ 1 \in DOMAIN q.timeDimensions
           /\ q.timeDimensions[i].path = q.timeDimensions[1].path
           /\ PathColumn(c, q.timeDimensions[i].path) \in TimeColumns(c, pa)
           /\ Divides(pa.granularity, q.timeDimensions[i].granularity)
           /\ q.timeDimensions[i].dateRange # None =>
                 LET range == ResolveDateRange(q.timeDimensions[i].dateRange, now)
                 IN  /\ range[1] \in Int /\ range[2] \in Int
                     /\ range[1] = UnitStart(range[1], pa.granularity)
                     /\ range[2] + 1 = UnitStart(range[2] + 1, pa.granularity)
  <1> DEFINE td    == q.timeDimensions[i]
             first == q.timeDimensions[1]
             range == ResolveDateRange(td.dateRange, now)
             unit  == td.granularity
  <1>1. /\ td.path = first.path /\ RollsUp(pa.granularity, unit)
        /\ pa.granularity = "week" => unit \notin {"month", "quarter", "year"}
        /\ td.dateRange # None =>
              /\ range \in Int \X Int
              /\ range[1] = UnitStart(range[1], pa.granularity)
              /\ range[2] + 1 = UnitStart(range[2] + 1, pa.granularity)
    BY DEF RoutedTo, Fits, Kept
  <1>2. 1 \in DOMAIN q.timeDimensions /\ unit \in Units
    BY RoutedTimes
  <1>3. pa.timeDimension # None /\ pa.granularity # None
    BY DEF RoutedTo, Serves
  <1>4. first.path = <<c, pa.timeDimension>>
    <2>1. q.timeDimensions # <<>>
      BY <1>2
    <2> QED
      BY <2>1 DEF RoutedTo, Serves
  <1>5. PathColumn(c, td.path) \in TimeColumns(c, pa)
    BY <1>1, <1>3, <1>4 DEF PathColumn, TimeColumns
  <1>8. pa.granularity \in Units
    BY DEF RoutedTo
  <1> HIDE DEF unit, td, range, first
  <1>9. Divides(pa.granularity, unit)
    BY <1>1, <1>2, <1>8 DEF RollsUp, Ranks, Units, Divides
  <1>10. range \in Int \X Int => range[1] \in Int /\ range[2] \in Int
    OBVIOUS
  <1> QED
    BY <1>1, <1>2, <1>5, <1>9, <1>10 DEF unit, td, range, first

\* The conditions of a statement over a rollup.
LineFilter(c, f, line) ==
    CompileFilter(f, [leaf \in Leaves(f) |->
        OperatorText(leaf.operator, line[PathColumn(c, leaf.member)], leaf.values)])

LineRange(c, td, line) ==
    IF td.dateRange = None THEN Atom(TRUE)
    ELSE OperatorText("inDateRange", line[PathColumn(c, td.path)], <<td.dateRange>>)

LineRuled(c, ctx, line) == \A rule \in ToSet(RowLevel(registry[c], ctx)) : Meets(line, rule)

LineTexts(c, q, ctx, line) ==
    <<RulesText(registry[c], ctx, line)>>
    \o [i \in DOMAIN q.filters |-> LineFilter(c, q.filters[i], line)]
    \o [i \in DOMAIN q.timeDimensions |-> LineRange(c, q.timeDimensions[i], line)]

LineSelects(c, q, ctx, line) == True(AndJoin(LineTexts(c, q, ctx, line)))

LEMMA RollupSelects ==
    ASSUME NEW c, NEW q, NEW ctx, NEW table, NEW line
    PROVE  line \in RollupSelected(c, q, ctx, table)
              <=> line \in table /\ LineSelects(c, q, ctx, line)
  <1>1. RollupSelected(c, q, ctx, table) = {row \in table : LineSelects(c, q, ctx, row)}
    BY Zenon DEF RollupSelected, LineSelects, LineTexts, LineFilter, LineRange
  <1> QED
    BY <1>1

LEMMA RangeIsSingle ==
    ASSUME NEW c, NEW td, NEW line PROVE Single(LineRange(c, td, line))
  <1>1. Single(Atom(TRUE))
    BY AtomIsSingle
  <1>2. "inDateRange" \in Operators /\ "inDateRange" # "notInDateRange"
    BY DEF Operators, DateOperators
  <1> QED
    BY <1>1, <1>2, OperatorIsSingle DEF LineRange

LEMMA LineFilterIsSingle ==
    ASSUME NEW q, NEW ctx, NEW c, NEW pa, RoutedTo(q, ctx, c, pa), NEW f \in ToSet(q.filters),
           NEW line
    PROVE  Single(LineFilter(c, f, line))
  <1> DEFINE textOf == [leaf \in Leaves(f) |->
                OperatorText(leaf.operator, line[PathColumn(c, leaf.member)], leaf.values)]
  <1>1. \A leaf \in Leaves(f) : leaf.operator \in Operators
    BY DEF RoutedTo, RollupRenders
  <1>2. \A leaf \in Leaves(f) : \E v : textOf[leaf] = OperatorText(leaf.operator, v, leaf.values)
    BY Zenon
  <1>3. LineFilter(c, f, line) = CompileFilter(f, textOf)
    BY Zenon DEF LineFilter
  <1>4. ~Bare(f)
    BY DEF RoutedTo, NoneBare
  <1> HIDE DEF textOf
  <1> QED
    BY <1>1, <1>2, <1>3, <1>4, CompiledIsSingle

\* A line is selected when its rules, filters and ranges all hold.
LEMMA LineSelectsWhen ==
    ASSUME NEW q, NEW ctx, NEW c, NEW pa, RoutedTo(q, ctx, c, pa), NEW line
    PROVE  LineSelects(c, q, ctx, line) <=>
              /\ LineRuled(c, ctx, line)
              /\ \A f \in ToSet(q.filters) : True(LineFilter(c, f, line))
              /\ \A i \in DOMAIN q.timeDimensions : True(LineRange(c, q.timeDimensions[i], line))
  <1> DEFINE first   == RulesText(registry[c], ctx, line)
             filters == [i \in DOMAIN q.filters |-> LineFilter(c, q.filters[i], line)]
             ranges  == [i \in DOMAIN q.timeDimensions |-> LineRange(c, q.timeDimensions[i], line)]
             texts   == LineTexts(c, q, ctx, line)
  <1>1. texts = <<first>> \o filters \o ranges
    BY Zenon DEF LineTexts
  <1>2. first \in Singles /\ (True(first) <=> LineRuled(c, ctx, line))
    <2>1. \A rule \in ToSet(RowLevel(registry[c], ctx)) : Len(rule) = 1
      BY OneCube DEF RoutedTo, NoneBare
    <2>2. c \in DOMAIN registry /\ ctx \in Contexts
      BY DEF RoutedTo
    <2> QED
      BY <2>1, <2>2, RulesAreSingle, SingleIn, Zenon DEF LineRuled
  <1>3. IsList(q.timeDimensions) /\ IsList(q.filters)
    BY DEF RoutedTo, IsQuery
  <1>4. /\ filters \in Seq(Singles)
        /\ AllHold(filters) <=> \A f \in ToSet(q.filters) : True(LineFilter(c, f, line))
    <2>1. ToSet(q.filters) = {q.filters[i] : i \in DOMAIN q.filters}
      BY <1>3, ListOf
    <2>2. \A i \in DOMAIN q.filters : Single(LineFilter(c, q.filters[i], line))
      BY <2>1, LineFilterIsSingle
    <2>3. filters \in Seq(Singles)
      BY <1>3, <2>2, ListOfSingles, Zenon
    <2>4. AllHold(filters) <=> \A i \in DOMAIN q.filters : True(LineFilter(c, q.filters[i], line))
      BY Zenon DEF AllHold
    <2> HIDE DEF filters
    <2> QED
      BY <2>1, <2>3, <2>4
  <1>5. /\ ranges \in Seq(Singles)
        /\ AllHold(ranges) <=>
              \A i \in DOMAIN q.timeDimensions : True(LineRange(c, q.timeDimensions[i], line))
    <2>1. \A i \in DOMAIN q.timeDimensions : Single(LineRange(c, q.timeDimensions[i], line))
      BY RangeIsSingle
    <2>2. ranges \in Seq(Singles)
      BY <1>3, <2>1, ListOfSingles, Zenon
    <2> QED
      BY <2>2, Zenon DEF AllHold
  <1> HIDE DEF first, filters, ranges, texts, Singles
  <1>6. <<first>> \in Seq(Singles) /\ (AllHold(<<first>>) <=> True(first))
    BY <1>2 DEF AllHold
  <1>7. /\ texts \in Seq(Singles)
        /\ AllHold(texts) <=> AllHold(<<first>>) /\ AllHold(filters) /\ AllHold(ranges)
    BY <1>1, <1>4, <1>5, <1>6, AllHoldJoined
  <1>8. True(AndJoin(texts)) <=> AllHold(texts)
    BY <1>7, AndJoinHolds
  <1> QED
    BY <1>2, <1>4, <1>5, <1>6, <1>7, <1>8, Zenon DEF LineSelects, texts

-----------------------------------------------------------------------------
(* A line is selected and grouped as the rows it counts. *)

\* A filter says the same of a row and of its line.
LEMMA LineFilterIs ==
    ASSUME NEW q, NEW ctx, NEW c, NEW pa, RoutedTo(q, ctx, c, pa), NEW rows, NEW row,
           NEW f \in ToSet(q.filters)
    PROVE  LineFilter(c, f, Line(c, pa, rows, row)) = RowText(f, One(c, row))
  <1> DEFINE line == Line(c, pa, rows, row)
  <1>1. ASSUME NEW leaf \in Leaves(f)
        PROVE  line[PathColumn(c, leaf.member)] = ValueIn(One(c, row), leaf.member)
    <2>1. leaf.member \in FilterPaths(q.filters)
      BY MembersOf
    <2>2. leaf.member \in Looked(q)
      BY <2>1 DEF Looked
    <2>3. PathColumn(c, leaf.member) \in Kept(c, pa)
      BY <2>1 DEF RoutedTo, Fits, Kept
    <2> QED
      BY <2>2, <2>3, LineOfPath
  <1> HIDE DEF line
  <1>2. [leaf \in Leaves(f) |->
            OperatorText(leaf.operator, line[PathColumn(c, leaf.member)], leaf.values)]
         = [leaf \in Leaves(f) |->
              OperatorText(leaf.operator, ValueIn(One(c, row), leaf.member), leaf.values)]
    BY <1>1, Zenon
  <1> QED
    BY <1>2, Zenon DEF LineFilter, RowText, line

LEMMA LineRuledIs ==
    ASSUME NEW q, NEW ctx, NEW c, NEW pa, RoutedTo(q, ctx, c, pa), NEW rows, NEW row
    PROVE  LineRuled(c, ctx, Line(c, pa, rows, row)) <=> Ruled(q, ctx, One(c, row))
  <1>1. RuledCubes(q) = {c} /\ One(c, row)[c] = row
    BY OneCube DEF One
  <1> DEFINE line == Line(c, pa, rows, row)
  <1>2. ASSUME NEW rule \in ToSet(RowLevel(registry[c], ctx)), NEW i \in DOMAIN rule
        PROVE  Equals(line, rule[i]) <=> Equals(row, rule[i])
    <2>1. rule[i] \in ToSet(rule)
      BY DEF ToSet
    <2>2. rule[i][1] \in RuleColumns(registry[c], ctx)
      BY <2>1 DEF RuleColumns
    <2>3. rule[i][1] \in Kept(c, pa)
      BY <2>2 DEF RoutedTo, Fits, Kept
    <2>4. line[rule[i][1]] = row[rule[i][1]]
      BY <2>3, LineKeeps DEF RoutedTo
    <2> QED
      BY <2>4, Zenon DEF Equals
  <1> HIDE DEF line
  <1>3. \A rule \in ToSet(RowLevel(registry[c], ctx)) : Meets(line, rule) <=> Meets(row, rule)
    BY <1>2, Zenon DEF Meets
  <1> QED
    BY <1>1, <1>3 DEF LineRuled, Ruled, line

LEMMA RangeHolds ==
    ASSUME NEW v, NEW d
    PROVE  True(OperatorText("inDateRange", v, <<d>>)) <=>
              LET range == ResolveDateRange(d, now)
              IN  v # None /\ v >= range[1] /\ v <= range[2]
  <1> DEFINE range == ResolveDateRange(d, now)
             known == v # None
             x == known /\ v >= range[1]
             y == known /\ v <= range[2]
  <1>1. OperatorText("inDateRange", v, <<d>>) = DateText("inDateRange", known, v, range)
    BY DEF OperatorText, DateOperators
  <1>2. DateText("inDateRange", known, v, range) = <<<<x, y>>>>
    BY DEF DateText
  <1>3. x \in BOOLEAN /\ y \in BOOLEAN /\ (x /\ y <=> v # None /\ v >= range[1] /\ v <= range[2])
    OBVIOUS
  <1> HIDE DEF x, y, range, known
  <1>4. True(<<<<x, y>>>>) <=> x /\ y
    <2> DEFINE alternative == <<x, y>>
    <2>1. DOMAIN alternative = 1 .. 2 /\ alternative[1] = x /\ alternative[2] = y
      OBVIOUS
    <2> HIDE DEF alternative
    <2>2. DOMAIN <<alternative>> = 1 .. 1 /\ <<alternative>>[1] = alternative
      OBVIOUS
    <2>3. True(<<alternative>>) <=> \A j \in DOMAIN alternative : alternative[j]
      BY <2>2 DEF True
    <2>4. (\A j \in DOMAIN alternative : alternative[j]) <=> x /\ y
      BY <2>1
    <2> QED
      BY <2>3, <2>4 DEF alternative
  <1> QED
    BY <1>1, <1>2, <1>3, <1>4 DEF range

LEMMA LookedColumns ==
    ASSUME NEW q, NEW ctx, NEW c, NEW pa, RoutedTo(q, ctx, c, pa), NEW p \in Looked(q)
    PROVE  PathColumn(c, p) \in registry[c].columns
  <1>1. p[1] = c /\ Resolved(p) = {p} /\ Kind(p) = "dimension" /\ Member(p).sql = PathColumn(c, p)
    BY RoutedDimensions
  <1>2. CASE p \in FilterPaths(q.filters)
    <2>1. p \in UNION {Resolved(m) : m \in ToSet(q.measures) \cup Selected(q)
                                              \cup FilterPaths(q.filters)}
      BY <1>1, <1>2
    <2> QED
      BY <1>1, <2>1 DEF RoutedTo, Asked, Runs, Cube
  <1>3. CASE p \notin FilterPaths(q.filters)
    <2>1. p \in Grouped(q) \cup TimePaths(q)
      BY <1>3 DEF Looked, Grouped
    <2> QED
      BY <1>1, <2>1 DEF RoutedTo, Asked, Runs, Cube
  <1> QED
    BY <1>2, <1>3

LEMMA LineRangeIs ==
    ASSUME NEW q, NEW ctx, NEW c, NEW pa, RoutedTo(q, ctx, c, pa), NEW rows,
           NEW row \in [registry[c].columns -> Values], NEW i \in DOMAIN q.timeDimensions
    PROVE  True(LineRange(c, q.timeDimensions[i], Line(c, pa, rows, row))) <=>
              (q.timeDimensions[i].dateRange # None =>
                  True(OperatorText("inDateRange",
                      ValueIn(One(c, row), q.timeDimensions[i].path),
                      <<q.timeDimensions[i].dateRange>>)))
  <1> DEFINE td     == q.timeDimensions[i]
             column == PathColumn(c, td.path)
             line   == Line(c, pa, rows, row)
             range  == ResolveDateRange(td.dateRange, now)
             In(v)  == True(OperatorText("inDateRange", v, <<td.dateRange>>))
  <1>1. td.path \in Looked(q)
    BY DEF Looked, TimePaths
  <1>2. True(Atom(TRUE))
    BY AtomIsSingle
  <1>3. ValueIn(One(c, row), td.path) = row[column]
    BY <1>1, RoutedDimensions DEF ValueIn, One
  <1>4. True(LineRange(c, td, line)) <=> (td.dateRange # None => In(line[column]))
    BY <1>2, Zenon DEF LineRange
  <1>5. ASSUME td.dateRange # None PROVE In(line[column]) <=> In(row[column])
    <2>1. CASE column \in Kept(c, pa)
      BY <2>1, LineKeeps DEF RoutedTo
    <2>2. CASE column \notin Kept(c, pa)
      <3>1. /\ column \in TimeColumns(c, pa)
            /\ range[1] \in Int /\ range[2] \in Int
            /\ range[1] = UnitStart(range[1], pa.granularity)
            /\ range[2] + 1 = UnitStart(range[2] + 1, pa.granularity)
        BY <1>5, <2>2, TimeOfRoute
      <3>2. line[column] = IF row[column] = None THEN None
                           ELSE UnitStart(row[column], pa.granularity)
        BY <3>1, LineKeeps DEF RoutedTo
      <3>3. row[column] \in Int \cup {None}
        BY <1>1, LookedColumns DEF Values
      <3>4. pa.granularity \in Units
        BY DEF RoutedTo
      <3>5. \A v : In(v) <=> v # None /\ v >= range[1] /\ v <= range[2]
        BY RangeHolds
      <3> HIDE DEF In, range, line, column, td
      <3>6. CASE row[column] = None
        BY <3>2, <3>6
      <3>7. CASE row[column] # None
        <4> DEFINE t == row[column]
                   s == UnitStart(t, pa.granularity)
        <4>1. t \in Int /\ line[column] = s
          BY <3>2, <3>3, <3>7
        <4> HIDE DEF t
        <4>2. /\ s \in Int
              /\ t >= range[1] <=> s >= range[1]
              /\ t <= range[2] <=> s <= range[2]
          BY <3>1, <3>4, <4>1, WholeUnits
        <4> HIDE DEF s
        <4>3. s # None /\ t # None
          BY <4>1, <4>2, UniverseAssumption
        <4> QED
          BY <3>5, <4>1, <4>2, <4>3 DEF t
      <3> QED
        BY <3>6, <3>7
    <2> QED
      BY <2>1, <2>2
  <1> QED
    BY <1>3, <1>4, <1>5

\* A routed query has no filter of measures.
LEMMA RoutedFilters ==
    ASSUME NEW q, NEW ctx, NEW c, NEW pa, RoutedTo(q, ctx, c, pa), NEW f \in ToSet(q.filters)
    PROVE  ~IsMeasureFilter(f)
  <1>1. PICK leaf : leaf \in Leaves(f)
    BY DEF RoutedTo, IsQuery
  <1>2. leaf.member \in FilterPaths(q.filters)
    BY <1>1, MembersOf
  <1>3. Kind(leaf.member) # "measure"
    BY <1>2 DEF RoutedTo, Fits
  <1> QED
    BY <1>1, <1>3 DEF IsMeasureFilter

\* A rollup's statement selects the lines of the rows that the base cube's
\* statement selects.
LEMMA LineSelectsRow ==
    ASSUME NEW q, NEW ctx, NEW c, NEW pa, RoutedTo(q, ctx, c, pa), NEW rows,
           NEW row \in [registry[c].columns -> Values]
    PROVE  LineSelects(c, q, ctx, Line(c, pa, rows, row)) <=> Selects(q, ctx, One(c, row))
  <1> DEFINE line == Line(c, pa, rows, row)
             one  == One(c, row)
  <1>1. LineRuled(c, ctx, line) <=> Ruled(q, ctx, one)
    BY LineRuledIs
  <1>2. \A f \in ToSet(q.filters) : LineFilter(c, f, line) = RowText(f, one)
    BY LineFilterIs
  <1>3. (\A i \in DOMAIN q.timeDimensions : True(LineRange(c, q.timeDimensions[i], line)))
           <=> InRanges(q, one)
    BY LineRangeIs, Zenon DEF InRanges
  <1>4. InSegments(q, one)
    BY DEF RoutedTo, InSegments
  <1>6. \A f \in ToSet(q.filters) : ~IsMeasureFilter(f)
    BY RoutedFilters
  <1>7. ctx \in Contexts /\ SinglyJoined(q, ctx)
    BY PartsOfAsked DEF RoutedTo
  <1> HIDE DEF line, one
  <1>8. Selects(q, ctx, one) <=>
              /\ Ruled(q, ctx, one) /\ InSegments(q, one) /\ InRanges(q, one)
              /\ \A f \in ToSet(q.filters) : ~IsMeasureFilter(f) => True(RowText(f, one))
    BY <1>7, SelectedWhen, Zenon
  <1>9. LineSelects(c, q, ctx, line) <=>
              /\ LineRuled(c, ctx, line)
              /\ \A f \in ToSet(q.filters) : True(LineFilter(c, f, line))
              /\ \A i \in DOMAIN q.timeDimensions : True(LineRange(c, q.timeDimensions[i], line))
    BY LineSelectsWhen, Zenon
  <1>10. (\A f \in ToSet(q.filters) : True(LineFilter(c, f, line)))
           <=> \A f \in ToSet(q.filters) : ~IsMeasureFilter(f) => True(RowText(f, one))
    BY <1>2, <1>6, Zenon
  <1> QED
    BY <1>1, <1>3, <1>4, <1>8, <1>9, <1>10, Zenon DEF line, one

\* What a rollup's statement groups by.
LinePart(c, p, line) ==
    LET v == line[PathColumn(c, p)]
    IN  IF Len(p) = 2 \/ v = None THEN v ELSE UnitStart(v, p[3])

LineGroup(c, q, line) == [p \in RollupKeys(q) |-> LinePart(c, p, line)]

LEMMA LinePartIs ==
    ASSUME NEW q, NEW ctx, NEW c, NEW pa, RoutedTo(q, ctx, c, pa), NEW rows,
           NEW row \in [registry[c].columns -> Values], NEW p \in Keys(q)
    PROVE  LinePart(c, p, Line(c, pa, rows, row)) = KeyPart(p, One(c, row))
  <1> DEFINE column == PathColumn(c, p)
             line   == Line(c, pa, rows, row)
             of(v)  == IF Len(p) = 2 \/ v = None THEN v ELSE UnitStart(v, p[3])
  <1>1. LinePart(c, p, line) = of(line[column])
    BY Zenon DEF LinePart
  <1>2. KeyPart(p, One(c, row)) = of(ValueIn(One(c, row), p))
    BY Zenon DEF KeyPart
  <1>3. CASE p \in ToSet(q.dimensions)
    <2>1. p \in Looked(q) /\ column \in Kept(c, pa)
      BY <1>3 DEF Looked, RoutedTo, Fits, Kept
    <2>2. line[column] = ValueIn(One(c, row), p)
      BY <2>1, LineOfPath
    <2> HIDE DEF of, line, column
    <2> QED
      BY <1>1, <1>2, <2>2 DEF line
  <1>4. CASE p \notin ToSet(q.dimensions)
    <2>1. PICK i \in DOMAIN q.timeDimensions : p = Bucket(q.timeDimensions[i])
      BY <1>4, RoutedTimes
    <2> DEFINE path == q.timeDimensions[i].path
               u    == pa.granularity
               g    == q.timeDimensions[i].granularity
               t    == row[column]
    <2>2. path \in Looked(q)
      BY DEF Looked, TimePaths
    <2>3. /\ p[1] = path[1] /\ p[2] = path[2] /\ p[3] = g /\ Len(p) = 3
          /\ column = PathColumn(c, path)
      BY <2>1 DEF Bucket, PathColumn
    <2>4. ValueIn(One(c, row), path) = t
      BY <2>2, <2>3, RoutedDimensions DEF ValueIn, One
    <2>5. ValueIn(One(c, row), p) = ValueIn(One(c, row), path)
      BY <2>3, Zenon DEF ValueIn, Member, Cube
    <2>6. \A v : of(v) = IF v = None THEN None ELSE UnitStart(v, g)
      BY <2>3
    <2> HIDE DEF of, line
    <2>7. CASE column \in Kept(c, pa)
      <3>1. line[column] = t
        BY <2>7, LineKeeps DEF RoutedTo, line
      <3> HIDE DEF column
      <3> QED
        BY <1>1, <1>2, <2>4, <2>5, <3>1 DEF line
    <2>8. CASE column \notin Kept(c, pa)
      <3>1. column \in TimeColumns(c, pa) /\ Divides(u, g)
        BY <2>3, <2>8, TimeOfRoute
      <3>2. line[column] = IF t = None THEN None ELSE UnitStart(t, u)
        BY <3>1, LineKeeps DEF RoutedTo, line
      <3>3. t \in Int \cup {None}
        BY <2>2, <2>3, LookedColumns DEF Values
      <3>4. u \in Units /\ g \in Units
        BY RoutedTimes DEF RoutedTo
      <3> HIDE DEF column
      <3>5. CASE t = None
        BY <1>1, <1>2, <2>4, <2>5, <3>2, <3>5 DEF line
      <3>6. CASE t # None
        <4>1. t \in Int
          BY <3>3, <3>6
        <4> HIDE DEF t, u, g
        <4>2. UnitStart(t, u) \in Int /\ UnitStart(UnitStart(t, u), g) = UnitStart(t, g)
          BY <3>1, <3>4, <4>1, UnitsNest
        <4>3. UnitStart(t, u) # None
          BY <4>2, UniverseAssumption
        <4>4. of(line[column]) = UnitStart(UnitStart(t, u), g)
          BY <2>6, <3>2, <3>6, <4>3
        <4>5. of(t) = UnitStart(t, g)
          BY <2>6, <3>6
        <4> QED
          BY <1>1, <1>2, <2>4, <2>5, <4>2, <4>4, <4>5 DEF line
      <3> QED
        BY <3>5, <3>6
    <2> QED
      BY <2>7, <2>8
  <1> QED
    BY <1>3, <1>4

\* A line is grouped as the rows it counts.
LEMMA LineGroupIs ==
    ASSUME NEW q, NEW ctx, NEW c, NEW pa, RoutedTo(q, ctx, c, pa), NEW rows,
           NEW row \in [registry[c].columns -> Values]
    PROVE  LineGroup(c, q, Line(c, pa, rows, row)) = KeyOf(q, One(c, row))
  <1> DEFINE line == Line(c, pa, rows, row)
  <1>1. LineGroup(c, q, line) = [p \in Keys(q) |-> LinePart(c, p, line)]
    BY RoutedTimes, Zenon DEF LineGroup
  <1>2. \A p \in Keys(q) : LinePart(c, p, line) = KeyPart(p, One(c, row))
    BY LinePartIs
  <1> HIDE DEF line
  <1>3. [p \in Keys(q) |-> LinePart(c, p, line)] = [p \in Keys(q) |-> KeyPart(p, One(c, row))]
    BY <1>2, Zenon
  <1> QED
    BY <1>1, <1>3, Zenon DEF KeyOf, line

-----------------------------------------------------------------------------
(* The sums of lines. *)

\* An additive aggregate is NULL when it is a sum of nothing, else the total.
LEMMA AdditiveOfGroup ==
    ASSUME NEW m, Member(m).type \in AdditiveTypes, NEW group, IsFiniteSet(group),
           \A row \in group : Weight(m, row) \in Int,
           NEW w, \A row \in group : w[row] = Weight(m, row)
    PROVE  Aggregate(m, group) =
              IF Member(m).type = "sum" /\ \A row \in group : ~Counts(m, row) THEN None
              ELSE SumFunctionOnSet(w, group)
  <1> DEFINE inputs == Counted(m, group)
             values == {ValueIn(row, m) : row \in inputs}
             inCol  == [row \in inputs |-> ValueIn(row, m)]
             nothing == \A row \in group : ~Counts(m, row)
  <1>1. Worth(Aggregate(m, group)) = SumFunctionOnSet(w, group)
    BY ValueOfGroup
  <1>2. /\ inputs \in SUBSET group /\ IsFiniteSet(inputs)
        /\ \A row \in inputs : row \in group /\ Counts(m, row)
        /\ inputs = {} <=> nothing
    <2>1. inputs = {row \in group : Counts(m, row)}
      BY CountedAre
    <2> HIDE DEF inputs
    <2>2. inputs \in SUBSET group
      BY <2>1
    <2> QED
      BY <2>1, <2>2, FS_Subset
  <1>3. Aggregate(m, group) = OfType(Member(m).type, m, inputs, values)
    <2>1. Member(m).type # "calculated"
      BY DEF AdditiveTypes
    <2> QED
      BY <2>1, Zenon DEF Aggregate, Concrete, OverCounted
  <1> HIDE DEF inputs, values, nothing
  <1>4. CASE Member(m).type = "count"
    <2>1. Aggregate(m, group) = Cardinality(inputs)
      BY <1>3, <1>4 DEF OfType
    <2>2. Cardinality(inputs) # None
      BY <1>2, FS_CardinalityType, UniverseAssumption
    <2> QED
      BY <1>1, <1>4, <2>1, <2>2 DEF Worth
  <1>5. CASE Member(m).type = "sum"
    <2>1. Aggregate(m, group) = IF inputs = {} THEN None ELSE SumFunction(inCol)
      BY <1>3, <1>5, Zenon DEF OfType
    <2>2. \A row \in inputs : inCol[row] \in Int
      BY <1>2, <1>5 DEF Weight
    <2>3. SumFunction(inCol) = SumFunctionOnSet(inCol, inputs)
      BY DEF SumFunction
    <2> HIDE DEF inCol
    <2>4. SumFunction(inCol) \in Int
      BY <1>2, <2>2, <2>3, SumType
    <2>5. SumFunction(inCol) # None
      BY <2>4, UniverseAssumption
    <2>6. CASE inputs = {}
      BY <1>2, <1>5, <2>1, <2>6 DEF nothing
    <2>7. CASE inputs # {}
      <3>1. Aggregate(m, group) = SumFunctionOnSet(w, group)
        BY <1>1, <2>1, <2>5, <2>7 DEF Worth
      <3> QED
        BY <1>2, <2>7, <3>1 DEF nothing
    <2> QED
      BY <2>6, <2>7
  <1> QED
    BY <1>4, <1>5 DEF AdditiveTypes

\* The same of rows of a cube that nothing is joined to.
LEMMA AdditiveOfOnes ==
    ASSUME NEW c, NEW S, IsFiniteSet(S), NEW m, Member(m).type \in AdditiveTypes,
           \A row \in S : Weight(m, One(c, row)) \in Int,
           NEW w, \A row \in S : w[row] = Weight(m, One(c, row)),
           NEW group, \A x : x \in group <=> \E row \in S : x = One(c, row)
    PROVE  Aggregate(m, group) =
              IF Member(m).type = "sum" /\ \A row \in S : ~Counts(m, One(c, row)) THEN None
              ELSE SumFunctionOnSet(w, S)
  <1> DEFINE ones    == [row \in S |-> One(c, row)]
             weights == [x \in group |-> Weight(m, x)]
  <1>1. \A row \in S : ones[row] = One(c, row) /\ ones[row] \in group /\ ones[row][c] = row
    BY DEF One
  <1>2. \A x \in S, y \in S : ones[x] = ones[y] => x = y
    <2> HIDE DEF ones
    <2> QED
      BY <1>1
  <1>3. group = {ones[row] : row \in S}
    <2> HIDE DEF ones
    <2> QED
      BY <1>1
  <1>4. IsFiniteSet(group)
    <2> HIDE DEF ones
    <2> QED
      BY <1>3, ImageIsFinite
  <1>5. \A x \in group : weights[x] = Weight(m, x) /\ Weight(m, x) \in Int
    OBVIOUS
  <1>6. \A row \in S : w[row] \in Int /\ weights[ones[row]] = w[row]
    <2> HIDE DEF ones
    <2> QED
      BY <1>1
  <1> HIDE DEF ones, weights
  <1>7. SumFunctionOnSet(weights, {ones[row] : row \in S}) = SumFunctionOnSet(w, S)
    BY <1>2, <1>6, SumImage
  <1>8. SumFunctionOnSet(weights, group) = SumFunctionOnSet(w, S)
    BY <1>3, <1>7
  <1>9. Aggregate(m, group) =
              IF Member(m).type = "sum" /\ \A x \in group : ~Counts(m, x) THEN None
              ELSE SumFunctionOnSet(weights, group)
    BY <1>4, <1>5, AdditiveOfGroup
  <1>10. (\A x \in group : ~Counts(m, x)) <=> \A row \in S : ~Counts(m, One(c, row))
    OBVIOUS
  <1> QED
    BY <1>8, <1>9, <1>10

\* What a routed measure counts of a row.
LEMMA RoutedWeight ==
    ASSUME NEW q, NEW ctx, NEW c, NEW pa, RoutedTo(q, ctx, c, pa), NEW m \in ToSet(q.measures),
           NEW row \in [registry[c].columns -> Values]
    PROVE  Weight(m, One(c, row)) \in Int
  <1>1. /\ m[1] = c /\ Member(m).type \in AdditiveTypes
        /\ Member(m).type = "sum" => Member(m).sql \in registry[c].columns
    BY RoutedMeasures
  <1>2. None \notin registry[c].columns
    BY UniverseAssumption DEF RoutedTo
  <1>3. ValueIn(One(c, row), m) = row[Member(m).sql]
    BY <1>1 DEF ValueIn, One
  <1>4. CASE Member(m).type = "sum" /\ Counts(m, One(c, row))
    <2>1. row[Member(m).sql] # None
      BY <1>1, <1>2, <1>3, <1>4 DEF Counts
    <2>2. row[Member(m).sql] \in Int
      BY <1>1, <1>4, <2>1 DEF Values
    <2> QED
      BY <1>3, <1>4, <2>2 DEF Weight
  <1> QED
    BY <1>1, <1>4 DEF Weight, AdditiveTypes

SumOfLines(name, lines) ==
    LET known == {line \in lines : line[name] # None}
    IN  IF known = {} THEN None ELSE SumFunction([line \in known |-> line[name]])

LEMMA SumOfValues ==
    ASSUME NEW lines, IsFiniteSet(lines), NEW name, \A line \in lines : line[name] \in Values,
           NEW w, \A line \in lines : w[line] = Worth(line[name])
    PROVE  SumOfLines(name, lines) =
              IF \A line \in lines : line[name] = None THEN None ELSE SumFunctionOnSet(w, lines)
  <1> DEFINE known == {line \in lines : line[name] # None}
             f     == [line \in known |-> line[name]]
  <1>1. SumOfLines(name, lines) = IF known = {} THEN None ELSE SumFunction(f)
    BY Zenon DEF SumOfLines
  <1>2. known = {} <=> \A line \in lines : line[name] = None
    OBVIOUS
  <1>3. /\ known \in SUBSET lines /\ \A line \in known : f[line] \in Int
        /\ \A line \in lines : w[line] = IF line \in known THEN f[line] ELSE 0
    BY DEF Worth, Values
  <1>4. SumFunction(f) = SumFunctionOnSet(f, known)
    BY DEF SumFunction
  <1> HIDE DEF f, known
  <1>5. SumFunctionOnSet(f, known) = SumFunctionOnSet(w, lines)
    BY <1>3, SumWhere
  <1> QED
    BY <1>1, <1>2, <1>4, <1>5

Typed(c, rows) == IsFiniteSet(rows) /\ \A row \in rows : row \in [registry[c].columns -> Values]

LEMMA LineTotal ==
    ASSUME NEW q, NEW ctx, NEW c, NEW pa, RoutedTo(q, ctx, c, pa), NEW m \in ToSet(q.measures),
           NEW rows, Typed(c, rows), NEW row \in rows,
           NEW w, \A other \in rows : w[other] = Weight(m, One(c, other))
    PROVE  LET cell == Cell(c, pa, rows, row)
           IN  Line(c, pa, rows, row)[m[2]] =
                  IF Member(m).type = "sum" /\ \A other \in cell : ~Counts(m, One(c, other))
                  THEN None ELSE SumFunctionOnSet(w, cell)
  <1> DEFINE cell  == Cell(c, pa, rows, row)
             group == {One(c, other) : other \in cell}
  <1>1. m = <<c, m[2]>> /\ m[2] \in pa.measures /\ Member(m).type \in AdditiveTypes
    BY RoutedMeasures
  <1>2. Line(c, pa, rows, row)[m[2]] = Concrete(<<c, m[2]>>, group)
    <2>1. \A x : x \in group <=> \E other \in cell : x = One(c, other)
      OBVIOUS
    <2> HIDE DEF group
    <2> QED
      BY <1>1, <2>1, LineValues
  <1>3. Concrete(<<c, m[2]>>, group) = Aggregate(m, group)
    <2>1. Member(m).type # "calculated"
      BY <1>1 DEF AdditiveTypes
    <2>2. Aggregate(m, group) = Concrete(m, group)
      BY <2>1, Zenon DEF Aggregate
    <2> HIDE DEF group
    <2> QED
      BY <1>1, <2>2
  <1>4. IsFiniteSet(cell) /\ \A other \in cell : other \in rows
    <2>1. cell \in SUBSET rows
      BY DEF Cell
    <2> QED
      BY <2>1, FS_Subset DEF Typed
  <1>5. \A x : x \in group <=> \E other \in cell : x = One(c, other)
    OBVIOUS
  <1>6. \A other \in cell : w[other] = Weight(m, One(c, other)) /\ Weight(m, One(c, other)) \in Int
    BY <1>4, RoutedWeight DEF Typed
  <1> HIDE DEF cell, group
  <1>7. Aggregate(m, group) =
           IF Member(m).type = "sum" /\ \A other \in cell : ~Counts(m, One(c, other))
           THEN None ELSE SumFunctionOnSet(w, cell)
    <2>1. /\ Member(m).type \in AdditiveTypes
          /\ \A other \in cell : Weight(m, One(c, other)) \in Int
          /\ \A other \in cell : w[other] = Weight(m, One(c, other))
      BY <1>1, <1>6, Zenon
    <2> QED
      BY <1>4, <1>5, <2>1, AdditiveOfOnes
  <1> QED
    BY <1>2, <1>3, <1>7 DEF cell

Ones(c, rows) == {One(c, row) : row \in rows}
Lines(c, pa, rows, some) == {Line(c, pa, rows, row) : row \in some}

\* The sum over the lines of some rows is the aggregate of these rows, if they
\* are all that the lines count.
LEMMA LinesTotal ==
    ASSUME NEW q, NEW ctx, NEW c, NEW pa, RoutedTo(q, ctx, c, pa), NEW m \in ToSet(q.measures),
           NEW rows, Typed(c, rows), NEW R \in SUBSET rows, R # {},
           \A row \in R : Cell(c, pa, rows, row) \subseteq R
    PROVE  SumOfLines(m[2], Lines(c, pa, rows, R)) = Aggregate(m, Ones(c, R))
  <1> DEFINE name   == m[2]
             lines  == Lines(c, pa, rows, R)
             group  == Ones(c, R)
             cellOf == [row \in R |-> Cell(c, pa, rows, row)]
             cells  == {cellOf[row] : row \in R}
             lineOf == [cell \in cells |-> Line(c, pa, rows, CHOOSE row \in cell : TRUE)]
             w      == [row \in rows |-> Weight(m, One(c, row))]
             worths == [line \in lines |-> Worth(line[name])]
             totals == [cell \in cells |-> SumFunctionOnSet(w, cell)]
             None1(row) == ~Counts(m, One(c, row))
  <1>0. /\ \A l : l \in lines <=> \E row \in R : l = Line(c, pa, rows, row)
        /\ \A x : x \in group <=> \E row \in R : x = One(c, row)
    BY DEF Lines, Ones
  <1> HIDE DEF lines, group
  <1>1. /\ Member(m).type \in AdditiveTypes /\ Creates(c, pa)
        /\ IsFiniteSet(rows) /\ IsFiniteSet(R)
        /\ \A row \in rows : row \in [registry[c].columns -> Values]
    BY RoutedMeasures, FS_Subset DEF RoutedTo, Typed
  <1>2. \A row \in rows : w[row] = Weight(m, One(c, row)) /\ w[row] \in Int
    BY <1>1, RoutedWeight
  <1> HIDE DEF w
  <1>3. \A row \in R : cellOf[row] = Cell(c, pa, rows, row) /\ cellOf[row] \in cells
    OBVIOUS
  <1>4. \A cell \in cells : \E row \in R : cell = Cell(c, pa, rows, row)
    OBVIOUS
  <1>5. IsFiniteSet(cells)
    <2> HIDE DEF cellOf
    <2> QED
      BY <1>1, ImageIsFinite
  <1> HIDE DEF cellOf, cells
  <1>6. \A cell \in cells : IsFiniteSet(cell) /\ cell \subseteq R /\ cell # {}
    <2> SUFFICES ASSUME NEW cell \in cells PROVE IsFiniteSet(cell) /\ cell \subseteq R /\ cell # {}
      OBVIOUS
    <2>1. PICK row \in R : cell = Cell(c, pa, rows, row)
      BY <1>4
    <2>2. cell \in SUBSET R /\ row \in cell
      BY <2>1 DEF Cell
    <2> QED
      BY <1>1, <2>2, FS_Subset
  <1>7. \A cell \in cells : \A row \in cell : cell = Cell(c, pa, rows, row)
    <2> SUFFICES ASSUME NEW cell \in cells, NEW row \in cell
                 PROVE  cell = Cell(c, pa, rows, row)
      OBVIOUS
    <2>1. PICK first \in R : cell = Cell(c, pa, rows, first)
      BY <1>4
    <2>2. LineKey(c, pa, row) = LineKey(c, pa, first)
      BY <2>1 DEF Cell
    <2> QED
      BY <2>1, <2>2, Zenon DEF Cell
  <1>8. UNION cells = R
    <2>1. \A row \in R : row \in Cell(c, pa, rows, row)
      BY DEF Cell
    <2> QED
      BY <1>3, <1>6, <2>1
  <1>9. \A x \in cells, y \in cells : x # y => \A row \in x : row \notin y
    BY <1>7
  <1>10. \A cell \in cells : \E row \in cell : lineOf[cell] = Line(c, pa, rows, row)
    <2>1. \A cell \in cells : (CHOOSE row \in cell : TRUE) \in cell
      BY <1>6
    <2> QED
      BY <2>1
  <1> HIDE DEF lineOf
  <1>11. \A x \in cells, y \in cells : lineOf[x] = lineOf[y] => x = y
    <2> SUFFICES ASSUME NEW x \in cells, NEW y \in cells, lineOf[x] = lineOf[y] PROVE x = y
      OBVIOUS
    <2>1. PICK a \in x : lineOf[x] = Line(c, pa, rows, a)
      BY <1>10
    <2>2. PICK b \in y : lineOf[y] = Line(c, pa, rows, b)
      BY <1>10
    <2>3. LineKey(c, pa, a) = LineKey(c, pa, b)
      <3>1. Line(c, pa, rows, a) = Line(c, pa, rows, b)
        BY <2>1, <2>2
      <3> QED
        BY <1>1, <3>1, SameLine, Zenon
    <2>4. Cell(c, pa, rows, a) = Cell(c, pa, rows, b)
      BY <2>3, Zenon DEF Cell
    <2> QED
      BY <1>7, <2>4
  <1>12. lines = {lineOf[cell] : cell \in cells}
    <2>0. \A l : l \in lines <=> \E row \in R : l = Line(c, pa, rows, row)
      BY <1>0
    <2>1. ASSUME NEW cell \in cells PROVE lineOf[cell] \in lines
      BY <1>6, <1>10, <2>0
    <2>2. ASSUME NEW row \in R PROVE \E cell \in cells : Line(c, pa, rows, row) = lineOf[cell]
      <3> DEFINE cell == Cell(c, pa, rows, row)
      <3>1. cell \in cells
        BY <1>3
      <3>2. PICK a \in cell : lineOf[cell] = Line(c, pa, rows, a)
        BY <1>10, <3>1
      <3>3. LineKey(c, pa, a) = LineKey(c, pa, row)
        BY DEF Cell
      <3>4. Line(c, pa, rows, a) = Line(c, pa, rows, row)
        BY <1>1, <3>3, SameLine
      <3> QED
        BY <3>1, <3>2, <3>4
    <2> QED
      BY <2>0, <2>1, <2>2
  <1>13. ASSUME NEW cell \in cells
         PROVE  /\ lineOf[cell][name] =
                      IF Member(m).type = "sum" /\ \A row \in cell : None1(row) THEN None
                      ELSE SumFunctionOnSet(w, cell)
                /\ SumFunctionOnSet(w, cell) \in Int
                /\ (\A row \in cell : None1(row)) => SumFunctionOnSet(w, cell) = 0
    <2>1. PICK row \in cell : lineOf[cell] = Line(c, pa, rows, row)
      BY <1>10
    <2>2. row \in rows /\ cell = Cell(c, pa, rows, row)
      BY <1>6, <1>7
    <2>3. lineOf[cell][name] =
                      IF Member(m).type = "sum" /\ \A other \in cell : None1(other) THEN None
                      ELSE SumFunctionOnSet(w, cell)
      BY <1>2, <2>1, <2>2, LineTotal
    <2>4. IsFiniteSet(cell) /\ \A other \in cell : other \in rows
      BY <1>6
    <2>5. SumFunctionOnSet(w, cell) \in Int
      BY <1>2, <2>4, SumType
    <2>6. ASSUME \A other \in cell : None1(other) PROVE SumFunctionOnSet(w, cell) = 0
      <3> DEFINE zeros == [other \in {} |-> 0]
      <3>1. \A other \in cell : w[other] = IF other \in {} THEN zeros[other] ELSE 0
        BY <1>2, <2>4, <2>6 DEF Weight
      <3>2. \A other \in {} : zeros[other] \in Int
        OBVIOUS
      <3> HIDE DEF zeros
      <3>3. SumFunctionOnSet(zeros, {}) = SumFunctionOnSet(w, cell)
        BY <2>4, <3>1, <3>2, SumWhere
      <3> QED
        BY <3>3, SumStep, FS_EmptySet
    <2> QED
      BY <2>3, <2>5, <2>6
  <1>14. \A cell \in cells : /\ totals[cell] = SumFunctionOnSet(w, cell) /\ totals[cell] \in Int
                             /\ lineOf[cell][name] \in Values
                             /\ Worth(lineOf[cell][name]) = totals[cell]
    <2> SUFFICES ASSUME NEW cell \in cells
                 PROVE  /\ totals[cell] = SumFunctionOnSet(w, cell) /\ totals[cell] \in Int
                        /\ lineOf[cell][name] \in Values
                        /\ Worth(lineOf[cell][name]) = totals[cell]
      OBVIOUS
    <2>1. totals[cell] = SumFunctionOnSet(w, cell)
      OBVIOUS
    <2> HIDE DEF totals
    <2>2. SumFunctionOnSet(w, cell) # None
      BY <1>13, UniverseAssumption
    <2> QED
      BY <1>13, <2>1, <2>2 DEF Worth, Values
  <1> HIDE DEF totals
  <1>15. IsFiniteSet(lines) /\ \A line \in lines : \E cell \in cells : line = lineOf[cell]
    BY <1>5, <1>12, ImageIsFinite
  <1>16. SumOfLines(name, lines) =
            IF \A line \in lines : line[name] = None THEN None ELSE SumFunctionOnSet(worths, lines)
    <2>1. \A line \in lines : line[name] \in Values
      BY <1>14, <1>15
    <2>2. \A line \in lines : worths[line] = Worth(line[name])
      OBVIOUS
    <2> HIDE DEF worths, name
    <2> QED
      BY <1>15, <2>1, <2>2, SumOfValues
  <1>17. SumFunctionOnSet(worths, lines) = SumFunctionOnSet(totals, cells)
    <2>1. \A cell \in cells : lineOf[cell] \in lines
      BY <1>12
    <2>2. \A cell \in cells : totals[cell] \in Int /\ worths[lineOf[cell]] = totals[cell]
      BY <1>14, <2>1
    <2> HIDE DEF worths, name
    <2>3. SumFunctionOnSet(worths, {lineOf[cell] : cell \in cells}) = SumFunctionOnSet(totals, cells)
      BY <1>5, <1>11, <2>2, SumImage
    <2> QED
      BY <1>12, <2>3
  <1>18. SumFunctionOnSet(w, R) = SumFunctionOnSet(totals, cells)
    <2>1. \A row \in UNION cells : w[row] \in Int
      BY <1>2, <1>8
    <2>2. SumFunctionOnSet(w, UNION cells) = SumFunctionOnSet(totals, cells)
      BY <1>5, <1>6, <1>9, <1>14, <2>1, SumParts
    <2> QED
      BY <1>8, <2>2
  <1>19. (\A line \in lines : line[name] = None)
            <=> Member(m).type = "sum" /\ \A row \in R : None1(row)
    <2>1. \A cell \in cells : SumFunctionOnSet(w, cell) # None
      BY <1>13, UniverseAssumption
    <2>2. \A cell \in cells : lineOf[cell][name] = None
                                 <=> Member(m).type = "sum" /\ \A row \in cell : None1(row)
      BY <1>13, <2>1, Zenon
    <2>3. \A row : row \in R <=> \E cell \in cells : row \in cell
      BY <1>8
    <2>4. cells # {}
      BY <1>3
    <2>5. \A line : line \in lines <=> \E cell \in cells : line = lineOf[cell]
      BY <1>12
    <2> HIDE DEF name, None1
    <2> QED
      BY <2>2, <2>3, <2>4, <2>5
  <1>20. Aggregate(m, group) =
            IF Member(m).type = "sum" /\ \A row \in R : None1(row) THEN None
            ELSE SumFunctionOnSet(w, R)
    <2>1. \A row \in R : w[row] = Weight(m, One(c, row)) /\ Weight(m, One(c, row)) \in Int
      BY <1>2
    <2>2. Aggregate(m, group) =
            IF Member(m).type = "sum" /\ \A row \in R : ~Counts(m, One(c, row)) THEN None
            ELSE SumFunctionOnSet(w, R)
      <3>1. IsFiniteSet(R) /\ Member(m).type \in AdditiveTypes
        BY <1>1
      <3>2. \A x : x \in group <=> \E row \in R : x = One(c, row)
        BY <1>0
      <3>3. \A row \in R : Weight(m, One(c, row)) \in Int
        BY <2>1
      <3>4. \A row \in R : w[row] = Weight(m, One(c, row))
        BY <2>1
      <3> HIDE DEF name, worths, None1, group
      <3> QED
        BY <3>1, <3>2, <3>3, <3>4, AdditiveOfOnes
    <2> QED
      BY <2>2
  <1> HIDE DEF None1, worths
  <1> QED
    BY <1>16, <1>17, <1>18, <1>19, <1>20 DEF lines, group

-----------------------------------------------------------------------------
(* The answers from a rollup. *)

\* The rows that are counted with a row in the answer.
Mates(q, ctx, c, rows, first) ==
    {row \in rows : /\ Selects(q, ctx, One(c, row))
                    /\ KeyOf(q, One(c, row)) = KeyOf(q, One(c, first))}

\* The row of an answer with the key of a row and the aggregates of a group.
AnswerRow(q, first, group) ==
    [p \in Keys(q) \cup ToSet(q.measures) |->
        IF p \in Keys(q) THEN KeyPart(p, first) ELSE Aggregate(p, group)]

\* The rows that a routed query has from its base cube ...
LEMMA BaseRows ==
    ASSUME NEW q, NEW ctx, NEW c, NEW pa, RoutedTo(q, ctx, c, pa), NEW db, NEW out
    PROVE  out \in Rows(q, ctx, db) <=>
              \E first \in db[c] :
                 /\ Selects(q, ctx, One(c, first))
                 /\ out = AnswerRow(q, One(c, first),
                             Ones(c, Mates(q, ctx, c, db[c], first)))
  <1> DEFINE rows == SelectedRows(q, ctx, db)
             groupOf(first) == Ones(c, Mates(q, ctx, c, db[c], first))
  <1>1. \A x : x \in rows <=> \E row \in db[c] : x = One(c, row) /\ Selects(q, ctx, One(c, row))
    <2>1. \A x : x \in rows <=> x \in JoinedRows(q, db) /\ Selects(q, ctx, x)
      BY DEF SelectedRows, Selects
    <2> HIDE DEF rows
    <2> QED
      BY <2>1, JoinedOnes
  <1>2. WindowsOf(q) = {} /\ Selected(q) = ToSet(q.measures)
    BY OneCube
  <1>3. \A g : Having(q, g)
    <2>1. \A f \in ToSet(q.filters) : ~IsMeasureFilter(f)
      BY RoutedFilters
    <2>2. ToSet(q.filters) = {q.filters[i] : i \in DOMAIN q.filters}
      BY ListOf DEF RoutedTo, IsQuery
    <2> QED
      BY <2>1, <2>2 DEF Having
  <1> HIDE DEF rows
  <1>4. out \in Rows(q, ctx, db) <=> \E g \in Groups(q, rows) : out = RowOf(q, g)
    BY <1>2, <1>3, RowsAre DEF rows
  <1>5. \A g : g \in Groups(q, rows) <=> \E x \in rows : g = GroupOf(q, rows, x)
    BY GroupsAre DEF RoutedTo
  <1>6. ASSUME NEW first \in db[c], Selects(q, ctx, One(c, first))
        PROVE  /\ GroupOf(q, rows, One(c, first)) = groupOf(first)
               /\ RowOf(q, groupOf(first)) = AnswerRow(q, One(c, first), groupOf(first))
    <2> DEFINE g == groupOf(first)
    <2>1. \A x : x \in g <=> x \in rows /\ KeyOf(q, x) = KeyOf(q, One(c, first))
      BY <1>1 DEF Mates, Ones
    <2>2. GroupOf(q, rows, One(c, first)) = {x \in rows : KeyOf(q, x) = KeyOf(q, One(c, first))}
      BY Zenon DEF GroupOf
    <2> HIDE DEF g
    <2>3. GroupOf(q, rows, One(c, first)) = g
      BY <2>1, <2>2
    <2>4. One(c, first) \in g
      BY <1>1, <1>6, <2>1
    <2>5. ChosenIn(g) \in g
      BY <2>4 DEF ChosenIn
    <2>6. KeyOf(q, ChosenIn(g)) = KeyOf(q, One(c, first))
      BY <2>1, <2>5
    <2>7. \A p \in Keys(q) : KeyPart(p, ChosenIn(g)) = KeyPart(p, One(c, first))
      <3>1. \A row : \A p \in Keys(q) : KeyOf(q, row)[p] = KeyPart(p, row)
        BY DEF KeyOf
      <3> QED
        BY <2>6, <3>1
    <2>8. RowOf(q, g) = [p \in Keys(q) \cup ToSet(q.measures) |->
             IF p \in Keys(q) THEN KeyPart(p, ChosenIn(g)) ELSE Aggregate(p, g)]
      BY <1>2, Zenon DEF RowOf
    <2>9. RowOf(q, g) = AnswerRow(q, One(c, first), g)
      BY <2>7, <2>8, Zenon DEF AnswerRow
    <2> QED
      BY <2>3, <2>9 DEF g
  <1> HIDE DEF groupOf
  <1>7. out \in Rows(q, ctx, db) <=>
           \E first \in db[c] : /\ Selects(q, ctx, One(c, first))
                                /\ out = RowOf(q, GroupOf(q, rows, One(c, first)))
    <2>1. out \in Rows(q, ctx, db) <=> \E x \in rows : out = RowOf(q, GroupOf(q, rows, x))
      BY <1>4, <1>5
    <2> QED
      BY <1>1, <2>1
  <1>8. out \in Rows(q, ctx, db) <=>
           \E first \in db[c] : /\ Selects(q, ctx, One(c, first))
                                /\ out = AnswerRow(q, One(c, first), groupOf(first))
    BY <1>6, <1>7
  <1> QED
    BY <1>8, Zenon DEF groupOf

\* ... and from its rollup, where a line has the same key as the rows it counts.
LineRow(c, q, lines, key) ==
    [p \in RollupOutputs(q) |->
        IF p \in RollupKeys(q) THEN key[p]
        ELSE SumOfLines(p[2], {line \in lines : LineGroup(c, q, line) = key})]

LEMMA RollupRowsAre ==
    ASSUME NEW q, NEW ctx, NEW c, NEW pa, RoutedTo(q, ctx, c, pa), NEW table, NEW out
    PROVE  out \in RollupRows(c, q, ctx, table) <=>
              \E line \in RollupSelected(c, q, ctx, table) :
                 out = LineRow(c, q, RollupSelected(c, q, ctx, table), LineGroup(c, q, line))
  <1> DEFINE lines == RollupSelected(c, q, ctx, table)
             keys  == RollupKeys(q)
  <1>1. keys # {}
    BY RoutedTimes DEF RoutedTo
  <1>2. RollupRows(c, q, ctx, table) =
           {LineRow(c, q, lines, key) :
               key \in IF keys = {} THEN {<<>>} ELSE {LineGroup(c, q, line) : line \in lines}}
    BY Zenon DEF RollupRows, LineRow, LineGroup, LinePart, SumOfLines
  <1>3. RollupRows(c, q, ctx, table) =
           {LineRow(c, q, lines, key) : key \in {LineGroup(c, q, line) : line \in lines}}
    BY <1>1, <1>2
  <1> HIDE DEF lines
  <1> QED
    BY <1>3, Zenon DEF lines

\* The lines that a rollup's statement selects.
LEMMA RollupSelectedAre ==
    ASSUME NEW q, NEW ctx, NEW c, NEW pa, RoutedTo(q, ctx, c, pa), NEW rows, Typed(c, rows), NEW l
    PROVE  l \in RollupSelected(c, q, ctx, Table(c, pa, rows)) <=>
              \E row \in rows : l = Line(c, pa, rows, row) /\ Selects(q, ctx, One(c, row))
  <1>1. l \in RollupSelected(c, q, ctx, Table(c, pa, rows))
           <=> l \in Table(c, pa, rows) /\ LineSelects(c, q, ctx, l)
    BY RollupSelects
  <1>2. l \in Table(c, pa, rows) <=> \E row \in rows : l = Line(c, pa, rows, row)
    BY TableLines
  <1>3. \A row \in rows : LineSelects(c, q, ctx, Line(c, pa, rows, row))
                             <=> Selects(q, ctx, One(c, row))
    BY LineSelectsRow DEF Typed
  <1> QED
    BY <1>1, <1>2, <1>3

LEMMA MatesAreWhole ==
    ASSUME NEW q, NEW ctx, NEW c, NEW pa, RoutedTo(q, ctx, c, pa), NEW rows, Typed(c, rows),
           NEW first, NEW row \in Mates(q, ctx, c, rows, first), NEW other \in Cell(c, pa, rows, row)
    PROVE  other \in Mates(q, ctx, c, rows, first)
  <1>1. /\ row \in rows /\ Selects(q, ctx, One(c, row))
        /\ KeyOf(q, One(c, row)) = KeyOf(q, One(c, first))
    BY DEF Mates
  <1>2. other \in rows /\ LineKey(c, pa, other) = LineKey(c, pa, row)
    BY DEF Cell
  <1>3. Line(c, pa, rows, other) = Line(c, pa, rows, row)
    BY <1>2, SameLine DEF RoutedTo
  <1>4. Selects(q, ctx, One(c, other)) <=> Selects(q, ctx, One(c, row))
    <2>1. LineSelects(c, q, ctx, Line(c, pa, rows, other)) <=> Selects(q, ctx, One(c, other))
      BY <1>2, LineSelectsRow DEF Typed
    <2>2. LineSelects(c, q, ctx, Line(c, pa, rows, row)) <=> Selects(q, ctx, One(c, row))
      BY <1>1, LineSelectsRow DEF Typed
    <2> QED
      BY <1>3, <2>1, <2>2
  <1>5. KeyOf(q, One(c, other)) = KeyOf(q, One(c, row))
    <2>1. LineGroup(c, q, Line(c, pa, rows, other)) = KeyOf(q, One(c, other))
      BY <1>2, LineGroupIs DEF Typed
    <2>2. LineGroup(c, q, Line(c, pa, rows, row)) = KeyOf(q, One(c, row))
      BY <1>1, LineGroupIs DEF Typed
    <2> QED
      BY <1>3, <2>1, <2>2
  <1> QED
    BY <1>1, <1>2, <1>4, <1>5 DEF Mates

LEMMA LineRowIs ==
    ASSUME NEW q, NEW ctx, NEW c, NEW pa, RoutedTo(q, ctx, c, pa), NEW rows, Typed(c, rows),
           NEW first \in rows, Selects(q, ctx, One(c, first))
    PROVE  LineRow(c, q, RollupSelected(c, q, ctx, Table(c, pa, rows)), KeyOf(q, One(c, first)))
              = AnswerRow(q, One(c, first),
                   Ones(c, Mates(q, ctx, c, rows, first)))
  <1> DEFINE all   == RollupSelected(c, q, ctx, Table(c, pa, rows))
             key   == KeyOf(q, One(c, first))
             R     == Mates(q, ctx, c, rows, first)
             lines == {line \in all : LineGroup(c, q, line) = key}
             group == Ones(c, R)
             names == Keys(q) \cup ToSet(q.measures)
  <1>1. /\ RollupKeys(q) = Keys(q) /\ RollupOutputs(q) = names
        /\ Keys(q) \cap ToSet(q.measures) = {}
    BY RoutedTimes DEF Keys, RollupOutputs
  <1>2. LineRow(c, q, all, key) =
           [p \in names |-> IF p \in Keys(q) THEN key[p] ELSE SumOfLines(p[2], lines)]
    BY <1>1, Zenon DEF LineRow
  <1>3. AnswerRow(q, One(c, first), group) =
           [p \in names |->
               IF p \in Keys(q) THEN KeyPart(p, One(c, first)) ELSE Aggregate(p, group)]
    BY Zenon DEF AnswerRow
  <1>4. \A p \in Keys(q) : key[p] = KeyPart(p, One(c, first))
    BY DEF KeyOf
  <1>5. ASSUME NEW m \in ToSet(q.measures)
        PROVE  SumOfLines(m[2], lines) = Aggregate(m, group)
    <2>1. R \in SUBSET rows /\ R # {}
      BY DEF Mates
    <2>2. \A row \in R : Cell(c, pa, rows, row) \subseteq R
      BY MatesAreWhole
    <2>3. lines = Lines(c, pa, rows, R)
      <3>1. \A l : l \in all <=> \E row \in rows : /\ l = Line(c, pa, rows, row)
                                                  /\ Selects(q, ctx, One(c, row))
        BY RollupSelectedAre
      <3>2. \A row \in rows : LineGroup(c, q, Line(c, pa, rows, row)) = KeyOf(q, One(c, row))
        BY LineGroupIs DEF Typed
      <3>3. \A row : row \in R <=> row \in rows /\ Selects(q, ctx, One(c, row))
                                                /\ KeyOf(q, One(c, row)) = key
        BY DEF Mates
      <3> HIDE DEF all, key, R
      <3> QED
        BY <3>1, <3>2, <3>3 DEF Lines
    <2> HIDE DEF lines, R, all, key
    <2>4. SumOfLines(m[2], Lines(c, pa, rows, R)) = Aggregate(m, Ones(c, R))
      BY <2>1, <2>2, LinesTotal
    <2> QED
      BY <2>3, <2>4
  <1> HIDE DEF lines, group, R, all, key
  <1>6. [p \in names |-> IF p \in Keys(q) THEN key[p] ELSE SumOfLines(p[2], lines)]
         = [p \in names |->
               IF p \in Keys(q) THEN KeyPart(p, One(c, first)) ELSE Aggregate(p, group)]
    BY <1>1, <1>4, <1>5
  <1> QED
    BY <1>2, <1>3, <1>6, Zenon DEF group, R, all, key

\* A routed query has the same rows from its rollup.
LEMMA RoutedRows ==
    ASSUME NEW q, NEW ctx, NEW c, NEW pa, RoutedTo(q, ctx, c, pa), NEW db, Typed(c, db[c])
    PROVE  RollupRows(c, q, ctx, Table(c, pa, db[c])) = Rows(q, ctx, db)
  <1> DEFINE rows  == db[c]
             all   == RollupSelected(c, q, ctx, Table(c, pa, rows))
             of(first) == AnswerRow(q, One(c, first),
                             Ones(c, Mates(q, ctx, c, rows, first)))
  <1>1. \A out : out \in Rows(q, ctx, db) <=>
              \E first \in rows : Selects(q, ctx, One(c, first)) /\ out = of(first)
    BY BaseRows
  <1>2. \A out : out \in RollupRows(c, q, ctx, Table(c, pa, rows)) <=>
              \E line \in all : out = LineRow(c, q, all, LineGroup(c, q, line))
    BY RollupRowsAre
  <1>3. \A l : l \in all <=> \E row \in rows : /\ l = Line(c, pa, rows, row)
                                              /\ Selects(q, ctx, One(c, row))
    BY RollupSelectedAre
  <1>4. \A first \in rows : LineGroup(c, q, Line(c, pa, rows, first)) = KeyOf(q, One(c, first))
    BY LineGroupIs DEF Typed
  <1>5. \A first \in rows : Selects(q, ctx, One(c, first)) =>
           LineRow(c, q, all, KeyOf(q, One(c, first))) = of(first)
    BY LineRowIs
  <1> HIDE DEF rows, all, of
  <1>6. \A out : out \in Rows(q, ctx, db) <=> out \in RollupRows(c, q, ctx, Table(c, pa, rows))
    BY <1>1, <1>2, <1>3, <1>4, <1>5
  <1> QED
    BY <1>6 DEF rows

-----------------------------------------------------------------------------
(* The tables. *)

\* While the clock stands, tables of the same rows are the same.
LEMMA OperatorStays ==
    ASSUME now' = now, NEW op, NEW v, NEW values
    PROVE  OperatorText(op, v, values)' = OperatorText(op, v, values)
  BY Zenon DEF OperatorText

LEMMA RowTextStays ==
    ASSUME now' = now, NEW f, NEW row
    PROVE  RowText(f, row)' = RowText(f, row)
  <1>1. \A leaf \in Leaves(f) :
           OperatorText(leaf.operator, ValueIn(row, leaf.member), leaf.values)'
              = OperatorText(leaf.operator, ValueIn(row, leaf.member), leaf.values)
    BY OperatorStays
  <1>2. [leaf \in Leaves(f) |-> OperatorText(leaf.operator, ValueIn(row, leaf.member), leaf.values)]'
         = [leaf \in Leaves(f) |-> OperatorText(leaf.operator, ValueIn(row, leaf.member), leaf.values)]
    BY <1>1, Zenon
  <1> QED
    BY <1>2, Zenon DEF RowText

LEMMA CountsStays ==
    ASSUME now' = now, NEW m, NEW row
    PROVE  Counts(m, row)' <=> Counts(m, row)
  <1> DEFINE filters == Member(m).filters
  <1>1. \A i \in DOMAIN filters : RowText(filters[i], row)' = RowText(filters[i], row)
    BY RowTextStays
  <1>2. [i \in DOMAIN filters |-> RowText(filters[i], row)]'
           = [i \in DOMAIN filters |-> RowText(filters[i], row)]
    BY <1>1, Zenon
  <1> QED
    BY <1>2, Zenon DEF Counts

LEMMA ConcreteStays ==
    ASSUME now' = now, NEW m, NEW group
    PROVE  Concrete(m, group)' = Concrete(m, group)
  <1>1. Counted(m, group) = {row \in group : Counts(m, row)}
    BY CountedAre
  <1>2. Counted(m, group)' = {row \in group : Counts(m, row)'}
    BY Zenon DEF Counted, Counts
  <1>3. \A row \in group : Counts(m, row)' <=> Counts(m, row)
    BY CountsStays
  <1>4. Counted(m, group)' = Counted(m, group)
    BY <1>1, <1>2, <1>3
  <1> QED
    BY <1>4, Zenon DEF Concrete

LEMMA TableStays ==
    ASSUME now' = now, NEW c, NEW pa, NEW rows
    PROVE  Table(c, pa, rows)' = Table(c, pa, rows)
  <1> DEFINE keys == {LineKey(c, pa, row) : row \in rows}
  <1>1. Table(c, pa, rows) = {LineOf(c, pa, rows, key) : key \in keys}
    BY Zenon DEF Table, LineOf, LineKey, One
  <1>2. Table(c, pa, rows)' = {LineOf(c, pa, rows, key)' : key \in keys}
    BY Zenon DEF Table, LineOf, LineKey, One
  <1>3. ASSUME NEW key PROVE LineOf(c, pa, rows, key)' = LineOf(c, pa, rows, key)
    <2> DEFINE group == {One(c, row) : row \in {row \in rows : LineKey(c, pa, row) = key}}
               columns == KeyColumns(c, pa) \cup pa.measures
    <2>1. \A column \in columns :
             (IF column \in pa.measures THEN Concrete(<<c, column>>, group) ELSE key[column])'
                = IF column \in pa.measures THEN Concrete(<<c, column>>, group) ELSE key[column]
      BY ConcreteStays
    <2>2. [column \in columns |->
              IF column \in pa.measures THEN Concrete(<<c, column>>, group) ELSE key[column]]'
           = [column \in columns |->
                IF column \in pa.measures THEN Concrete(<<c, column>>, group) ELSE key[column]]
      BY <2>1, Zenon
    <2> QED
      BY <2>2, Zenon DEF LineOf
  <1> HIDE DEF keys
  <1> QED
    BY <1>1, <1>2, <1>3

LEMMA BuiltStays ==
    ASSUME now' = now, NEW c, NEW rows
    PROVE  Built(c, rows)' = Built(c, rows)
  <1> DEFINE pas == {pa \in ToSet(registry[c].preAggregations) : Creates(c, pa)}
             names == {pa.name : pa \in pas}
             of(name) == CHOOSE pa \in pas : pa.name = name
  <1>1. \A name \in names : Table(c, of(name), rows)' = Table(c, of(name), rows)
    BY TableStays
  <1>2. [name \in names |-> Table(c, of(name), rows)]' = [name \in names |-> Table(c, of(name), rows)]
    BY <1>1, Zenon
  <1> QED
    BY <1>2, Zenon DEF Built

\* What the tables were built from, and that they are of it.
BuiltFromUniverse ==
    builtFrom # None =>
        /\ TablesAreBuilt
        /\ \A c \in DOMAIN registry : builtFrom[c] \subseteq Universe[c] /\ IsFiniteSet(builtFrom[c])

LEMMA TablesOfSource == Spec => []BuiltFromUniverse
  <1>1. Init => BuiltFromUniverse
    BY DEF Init, BuiltFromUniverse
  <1>2. SourceIsOfUniverse /\ BuiltFromUniverse /\ [Next]_vars => BuiltFromUniverse'
    <2> SUFFICES ASSUME SourceIsOfUniverse, BuiltFromUniverse, [Next]_vars, builtFrom' # None
                 PROVE  /\ TablesAreBuilt'
                        /\ \A c \in DOMAIN registry :
                              builtFrom'[c] \subseteq Universe[c] /\ IsFiniteSet(builtFrom'[c])
      BY DEF BuiltFromUniverse
    <2>1. now' = now
      BY DEF Next, vars, Insert, BuildAll
    <2>2. ASSUME NEW c \in DOMAIN registry
          PROVE  Built(c, builtFrom[c])' = Built(c, builtFrom'[c])
      <3>1. PICK rows : rows = builtFrom'[c]
        OBVIOUS
      <3>2. Built(c, rows)' = Built(c, rows)
        BY <2>1, BuiltStays
      <3>3. Built(c, builtFrom[c])' = Built(c, rows)'
        BY <3>1, Zenon
      <3> QED
        BY <3>1, <3>2, <3>3, Zenon
    <2>3. [c \in DOMAIN registry |-> Built(c, builtFrom[c])]'
             = [c \in DOMAIN registry |-> Built(c, builtFrom'[c])]
      BY <2>2, Zenon
    <2>4. CASE UNCHANGED <<tables, builtFrom>>
      <3>1. TablesAreBuilt /\ \A c \in DOMAIN registry : builtFrom[c] \subseteq Universe[c]
                                                       /\ IsFiniteSet(builtFrom[c])
        BY <2>4 DEF BuiltFromUniverse
      <3>2. [c \in DOMAIN registry |-> Built(c, builtFrom'[c])]
               = [c \in DOMAIN registry |-> Built(c, builtFrom[c])]
        BY <2>4
      <3>3. TablesAreBuilt'
        BY <2>3, <2>4, <3>1, <3>2, Zenon DEF TablesAreBuilt
      <3> QED
        BY <2>4, <3>1, <3>3
    <2>5. CASE BuildAll
      <3>1. tables' = [c \in DOMAIN registry |-> Built(c, source[c])] /\ builtFrom' = source
        BY <2>5 DEF BuildAll
      <3>2. [c \in DOMAIN registry |-> Built(c, builtFrom'[c])]
               = [c \in DOMAIN registry |-> Built(c, source[c])]
        BY <3>1
      <3>3. TablesAreBuilt'
        BY <2>3, <3>1, <3>2, Zenon DEF TablesAreBuilt
      <3> QED
        BY <3>1, <3>3 DEF SourceIsOfUniverse
    <2> QED
      BY <2>4, <2>5 DEF Next, Insert, vars
  <1> QED
    BY <1>1, <1>2, Sourced, PTL DEF Spec

\* A query that keeps the order of its rollup's answer keeps its pages.
LEMMA SamePages ==
    ASSUME NEW q, q.order # <<>> \/ (q.limit = None /\ q.offset = 0), NEW rows
    PROVE  RollupPages(q, rows) = Pages(InColumns(q, OrderItems(q)), q, rows)
  <1>1. CASE q.order # <<>>
    <2>1. OrderItems(q) = q.order
      BY <1>1 DEF OrderItems
    <2> QED
      BY <2>1, Zenon DEF RollupPages
  <1>2. CASE q.limit = None /\ q.offset = 0
    <2>1. \A items : Pages(items, q, rows) = {rows}
      BY <1>2, Zenon DEF Pages
    <2> QED
      BY <2>1 DEF RollupPages
  <1> QED
    BY <1>1, <1>2

\* Its rows have the columns of the select list and no others.
LEMMA ListedRows ==
    ASSUME NEW q, NEW ctx, NEW c, NEW pa, RoutedTo(q, ctx, c, pa), NEW db,
           NEW part, part \subseteq Rows(q, ctx, db)
    PROVE  Listed(q, part) = part
  <1>1. \A row \in part : \E h : row = [column \in Outputs(q) |-> h[column]]
    <2> SUFFICES ASSUME NEW row \in part
                 PROVE  \E h : row = [column \in Outputs(q) |-> h[column]]
      OBVIOUS
    <2>1. PICK first : row = AnswerRow(q, One(c, first), Ones(c, Mates(q, ctx, c, db[c], first)))
      BY BaseRows
    <2>2. Keys(q) \cup ToSet(q.measures) = Outputs(q)
      BY DEF Keys, Outputs
    <2>3. row = [column \in Outputs(q) |-> row[column]]
      BY <2>1, <2>2 DEF AnswerRow
    <2> QED
      BY <2>3
  <1>2. \A row \in part : [column \in Outputs(q) |-> row[column]] = row
    BY <1>1
  <1>3. Listed(q, part) = {[column \in Outputs(q) |-> row[column]] : row \in part}
    BY Zenon DEF Listed
  <1> QED
    BY <1>2, <1>3

\* The answer from a rollup that fits a query is the base cube's, from the
\* data that the rollup was built from.
THEOREM Fitting == Spec => []FittingRouteIsExact
  <1>1. BuiltFromUniverse => FittingRouteIsExact
    <2> SUFFICES ASSUME BuiltFromUniverse, NEW q \in Queried, NEW ctx \in Contexts,
                        builtFrom # None, Asked(q, ctx), NoneBare(q, ctx),
                        Routed(q, ctx, tables), Fits(q, ctx, Route(q)),
                        q.order # <<>> \/ (q.limit = None /\ q.offset = 0),
                        Keys(q) # {},
                        NEW answer \in Execute(q, ctx, tables, source)
                 PROVE  answer \in Answers(q, ctx, builtFrom)
      BY Zenon DEF FittingRouteIsExact, Keys
    <2> DEFINE c     == TheCube(q)
               pa    == Route(q)
               rows  == Rows(q, ctx, builtFrom)
               pages == Pages(InColumns(q, OrderItems(q)), q, rows)
    <2>1. IsQuery(q) /\ TablesAreBuilt
      BY IsAQuery DEF BuiltFromUniverse
    <2>2. RoutedTo(q, ctx, c, pa) /\ tables[c][pa.name] = Table(c, pa, builtFrom[c])
      BY <2>1, RouteIs
    <2>3. Typed(c, builtFrom[c])
      <3>1. c \in DOMAIN registry
        BY <2>2 DEF RoutedTo
      <3> QED
        BY <3>1, UniverseAssumption DEF BuiltFromUniverse, Typed, Values
    <2>4. Execute(q, ctx, tables, source)
             = RollupPages(q, RollupRows(c, q, ctx, tables[c][pa.name]))
      BY Zenon DEF Execute
    <2>5. Answers(q, ctx, builtFrom) = {Listed(q, page) : page \in pages}
      BY Zenon DEF Answers, Asked
    <2>6. pages \subseteq SUBSET rows
      <3> HIDE DEF rows
      <3> QED
        BY DEF Pages
    <2> HIDE DEF c, pa, pages
    <2>7. RollupRows(c, q, ctx, tables[c][pa.name]) = rows
      BY <2>2, <2>3, RoutedRows
    <2>8. RollupPages(q, rows) = pages
      BY SamePages DEF pages
    <2>9. answer \in pages
      BY <2>4, <2>7, <2>8
    <2>10. answer \subseteq rows
      BY <2>6, <2>9
    <2>11. Listed(q, answer) = answer
      BY <2>2, <2>10, ListedRows
    <2> QED
      BY <2>5, <2>9, <2>11
  <1> QED
    BY <1>1, TablesOfSource, PTL

=============================================================================
