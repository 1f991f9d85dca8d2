-------------------------- MODULE Hierarchy_proofs ---------------------------
(****************************************************************************)
(* Facts about the metadata of a hierarchy, what derives from a vtable, and *)
(* sums over sets, which the proofs about the passes share.                 *)
(****************************************************************************)
EXTENDS Hierarchy, FiniteSetsExt, TLAPS, FiniteSetTheorems, WellFoundedInduction

------------------------------------------------------------------------------
(* Metadata                                                                  *)

\* Name order is a total order.
LEMMA NameOrder ==
  ASSUME NEW a \in Class, NEW b \in Class, NEW c \in Class
  PROVE  /\ NameLeq(a, a)
         /\ NameLeq(a, b) \/ NameLeq(b, a)
         /\ NameLeq(a, b) /\ NameLeq(b, a) => a = b
         /\ NameLeq(a, b) /\ NameLeq(b, c) => NameLeq(a, c)
BY NameRankAssumption DEF NameLeq

\* A sub-vtable of a described class is a pair of that class and an order, and
\* its parents are vtables: the entries read by AddClassInfo are well typed.
LEMMA OwnVTableType ==
  ASSUME NEW md, IsMetadata(md), NEW c \in DOMAIN md,
         NEW v \in OwnVTables(md, c)
  PROVE  /\ c \in Class
         /\ v \in VTable
         /\ v = <<c, v[2]>>
         /\ v[1] = c
         /\ v[2] \in Nat
         /\ v[2] + 1 \in 1 .. Len(md[c].subVTables)
         /\ Parents(md, v) \in SUBSET VTable
         /\ IsRoot(md, v) \in BOOLEAN
<1>1. md[c] \in ClassInfo /\ c \in Class
  BY DEF IsMetadata
<1>2. md[c].subVTables \in Seq(SubVTable)
  BY <1>1 DEF ClassInfo
<1>3. PICK i \in 0 .. Len(md[c].subVTables) - 1 : v = <<c, i>>
  BY DEF OwnVTables
<1>4. Len(md[c].subVTables) \in Nat
  BY <1>2
<1>5. i \in Nat /\ i + 1 \in 1 .. Len(md[c].subVTables)
  BY <1>3, <1>4
<1>6. md[c].subVTables[i + 1] \in SubVTable
  BY <1>2, <1>5
<1>7. SubInfo(md, v) \in SubVTable
  BY <1>3, <1>6 DEF SubInfo
<1>8. QED
  BY <1>1, <1>3, <1>5, <1>7 DEF SubVTable, VTable, Parents, IsRoot

\* Every described class has its primary vtable.
LEMMA PrimaryVTable ==
  ASSUME NEW md, IsMetadata(md), NEW c \in DOMAIN md
  PROVE  <<c, 0>> \in OwnVTables(md, c)
<1>1. md[c].subVTables \in Seq(SubVTable)
  BY DEF IsMetadata, ClassInfo
<1>2. Len(md[c].subVTables) \in Nat
  BY <1>1
<1>3. Len(md[c].subVTables) > 0
  BY DEF IsMetadata
<1>4. 0 \in 0 .. Len(md[c].subVTables) - 1
  BY <1>2, <1>3
<1>5. QED
  BY <1>4 DEF OwnVTables

\* What the metadata describes are vtables.
LEMMA DescribedType ==
  ASSUME NEW md, IsMetadata(md)
  PROVE  Described(md) \subseteq VTable
BY OwnVTableType DEF Described

\* A sub-vtable never names one of its own class as a parent.
LEMMA OwnNotNamed ==
  ASSUME NEW md, IsMetadata(md), NEW c \in DOMAIN md,
         NEW v \in OwnVTables(md, c), NEW w \in OwnVTables(md, c)
  PROVE  v \notin Parents(md, w)
<1>1. v[1] = c /\ w[1] = c
  BY OwnVTableType
<1>2. w \in Described(md)
  BY DEF Described
<1>3. \A p \in Parents(md, w) : p[1] # w[1]
  BY <1>2 DEF IsMetadata
<1>4. QED
  BY <1>1, <1>3

\* A set of pairs with one first element and the second ones in an interval is
\* finite, with an element for each number.
LEMMA FiniteStrip ==
  ASSUME NEW v, NEW a \in Int, NEW b \in Int
  PROVE  IsFiniteSet({v} \X (a .. b))
<1>1. IsFiniteSet({v}) /\ IsFiniteSet(a .. b)
  BY FS_Singleton, FS_Interval
<1>2. QED
  BY <1>1, FS_Product

\* The union of a family of finite sets over a finite set is finite.
LEMMA FiniteUnion ==
  ASSUME NEW S, IsFiniteSet(S), NEW f, DOMAIN f = S,
         \A x \in S : IsFiniteSet(f[x])
  PROVE  IsFiniteSet(UNION {f[x] : x \in S})
<1> DEFINE T == {f[x] : x \in S}
           g == [x \in S |-> f[x]]
<1>1. g \in Surjection(S, T)
  BY DEF Surjection
<1>2. IsFiniteSet(T)
  BY <1>1, FS_Surjection
<1>3. QED
  BY <1>2, FS_UNION

\* There are finitely many vtables.
LEMMA DescribedFinite ==
  ASSUME NEW md, IsMetadata(md)
  PROVE  IsFiniteSet(Described(md))
<1> DEFINE f == [c \in DOMAIN md |-> OwnVTables(md, c)]
<1>1. ASSUME NEW c \in DOMAIN md
      PROVE  IsFiniteSet(OwnVTables(md, c))
  <2> DEFINE n == Len(md[c].subVTables)
  <2>1. n \in Nat
    BY DEF IsMetadata, ClassInfo
  <2>2. OwnVTables(md, c) = {c} \X (0 .. n - 1)
    BY DEF OwnVTables
  <2>3. 0 \in Int /\ n - 1 \in Int
    BY <2>1
  <2> HIDE DEF n
  <2>4. IsFiniteSet({c} \X (0 .. n - 1))
    BY <2>3, FiniteStrip
  <2>5. QED
    BY <2>2, <2>4
<1>2. IsFiniteSet(DOMAIN md)
  BY DEF IsMetadata
<1>3. DOMAIN f = DOMAIN md /\ \A c \in DOMAIN md : IsFiniteSet(f[c])
  BY <1>1
<1>4. Described(md) = UNION {f[c] : c \in DOMAIN md}
  BY DEF Described
<1> HIDE DEF f
<1>5. IsFiniteSet(UNION {f[c] : c \in DOMAIN md})
  BY <1>2, <1>3, FiniteUnion
<1>6. QED
  BY <1>4, <1>5

------------------------------------------------------------------------------
(* The vtables derived from a vtable                                         *)

\* A vtable derives from itself.
LEMMA DerivedSelf ==
  ASSUME NEW md, NEW v
  PROVE  v \in Derived(md, v)
BY DEF Derived

\* What derives from v is closed under children.
LEMMA DerivedClosed ==
  ASSUME NEW md, NEW v
  PROVE  ClosedUnderChildren(md, Derived(md, v))
<1> SUFFICES ASSUME NEW u \in Derived(md, v), NEW w \in Children(md, u)
             PROVE  w \in Derived(md, v)
  BY DEF ClosedUnderChildren
<1>1. w \in Described(md)
  BY DEF Children
<1>2. ASSUME NEW S \in SUBSET (Described(md) \cup {v}),
             v \in S, ClosedUnderChildren(md, S)
      PROVE  w \in S
  <2>1. u \in S
    BY <1>2 DEF Derived
  <2>2. QED
    BY <1>2, <2>1 DEF ClosedUnderChildren
<1>3. QED
  BY <1>1, <1>2 DEF Derived

\* Any set that holds v and the children of its members holds all that derives
\* from v.
LEMMA DerivedLeast ==
  ASSUME NEW md, NEW v, NEW S, v \in S,
         \A u \in S \cap Derived(md, v) : Children(md, u) \subseteq S
  PROVE  Derived(md, v) \subseteq S
<1> DEFINE T == S \cap Derived(md, v)
<1>1. T \in SUBSET (Described(md) \cup {v})
  BY DEF Derived
<1>2. v \in T
  BY DerivedSelf
<1>3. ClosedUnderChildren(md, T)
  BY DerivedClosed DEF ClosedUnderChildren
<1>4. \A w \in Derived(md, v) : w \in T
  BY <1>1, <1>2, <1>3 DEF Derived
<1>5. QED
  BY <1>4

\* A vtable that derives from another one has a parent that does.
LEMMA DerivedParent ==
  ASSUME NEW md, NEW v, NEW w \in Derived(md, v), w # v
  PROVE  /\ w \in Described(md)
         /\ \E p \in Parents(md, w) : p \in Derived(md, v)
<1>1. w \in Described(md)
  BY DEF Derived
<1> SUFFICES ASSUME \A p \in Parents(md, w) : p \notin Derived(md, v)
             PROVE  FALSE
  BY <1>1
<1> DEFINE S == Derived(md, v) \ {w}
<1>2. v \in S
  BY DerivedSelf
<1>3. ASSUME NEW u \in Derived(md, v)
      PROVE  Children(md, u) \subseteq S
  BY DerivedClosed DEF ClosedUnderChildren, Children
<1>4. \A u \in S \cap Derived(md, v) : Children(md, u) \subseteq S
  BY <1>3
<1> HIDE DEF S
<1>5. Derived(md, v) \subseteq S
  BY <1>2, <1>4, DerivedLeast
<1>6. QED
  BY <1>5 DEF S

\* A vtable flagged as a root derives from no other vtable.
LEMMA RootDerivesFromItself ==
  ASSUME NEW md, IsMetadata(md), NEW c \in DOMAIN md, IsRoot(md, <<c, 0>>),
         NEW v, <<c, 0>> \in Derived(md, v)
  PROVE  v = <<c, 0>>
<1>1. <<c, 0>> \in Described(md)
  BY PrimaryVTable DEF Described
<1>2. Parents(md, <<c, 0>>) = {}
  BY <1>1 DEF IsMetadata
<1>3. QED
  BY <1>2, DerivedParent

------------------------------------------------------------------------------
(* Every vtable of an acyclic hierarchy is reached                           *)

\* A nonempty set of natural numbers has a least element.
LEMMA LeastNat ==
  ASSUME NEW T, T \subseteq Nat, T # {}
  PROVE  \E x \in T : \A y \in T : x <= y
<1>1. IsWellFoundedOn(OpToRel(<, Nat), Nat)
  BY NatLessThanWellFounded
<1>2. PICK x \in T : \A y \in T : ~ (<<y, x>> \in OpToRel(<, Nat))
  BY <1>1, WFMin
<1>3. ASSUME NEW y \in T
      PROVE  x <= y
  <2>1. ~ (y < x)
    BY <1>2, <1>3 DEF OpToRel
  <2>2. QED
    BY <2>1
<1>4. QED
  BY <1>3

\* A set of vtables that holds the root vtables and is closed under children
\* holds every described vtable, if every named parent is described: inheritance
\* is acyclic and only roots have no parent.
LEMMA ForestReached ==
  ASSUME NEW md, IsMetadata(md), NamedParents(md) \subseteq Described(md),
         NEW S, \A v \in Described(md) : IsRoot(md, v) => v \in S,
         \A v \in S : Children(md, v) \subseteq S
  PROVE  Described(md) \subseteq S
<1> DEFINE Missing == Described(md) \ S
<1> SUFFICES ASSUME Missing # {}
             PROVE  FALSE
  OBVIOUS
<1>1. PICK depth \in [DOMAIN md -> 1 .. Cardinality(DOMAIN md)] :
        \A v \in Described(md) : \A p \in Parents(md, v) \cap Described(md) :
          depth[p[1]] < depth[v[1]]
  BY DEF IsMetadata
<1>2. \A v \in Described(md) : v[1] \in DOMAIN md
  BY OwnVTableType DEF Described
<1>3. Cardinality(DOMAIN md) \in Nat
  BY FS_CardinalityType DEF IsMetadata
<1> DEFINE T == {depth[v[1]] : v \in Missing}
<1>4. \A v \in Missing : depth[v[1]] \in Nat
  BY <1>1, <1>2, <1>3
<1>5. T \subseteq Nat /\ T # {}
  BY <1>4
<1> HIDE DEF T
<1>6. PICK x \in T : \A y \in T : x <= y
  BY <1>5, LeastNat
<1>7. PICK v \in Missing : x = depth[v[1]]
  BY <1>6 DEF T
<1>8. PICK p \in Parents(md, v) : TRUE
  BY <1>7 DEF IsMetadata
<1>9. p \in Described(md)
  BY <1>7, <1>8 DEF NamedParents
<1>10. depth[p[1]] < depth[v[1]]
  BY <1>1, <1>7, <1>8, <1>9
<1>11. p \in S
  <2> SUFFICES ASSUME p \notin S
               PROVE  FALSE
    OBVIOUS
  <2>1. p \in Missing
    BY <1>9
  <2>2. depth[p[1]] \in T
    BY <2>1 DEF T
  <2>3. x <= depth[p[1]]
    BY <1>6, <2>2
  <2>4. QED
    BY <1>4, <1>7, <1>10, <2>1, <2>3
<1>12. v \in Children(md, p)
  BY <1>7, <1>8 DEF Children
<1>13. QED
  BY <1>7, <1>11, <1>12

\* What derives from v is v and what derives from its children.
LEMMA DerivedOfChildren ==
  ASSUME NEW md, NEW v
  PROVE  Derived(md, v) = {v} \cup UNION {Derived(md, w) : w \in Children(md, v)}
<1> DEFINE S == {v} \cup UNION {Derived(md, w) : w \in Children(md, v)}
<1>1. Derived(md, v) \subseteq S
  <2>1. \A u \in S : Children(md, u) \subseteq S
    <3>1. Children(md, v) \subseteq S
      BY DerivedSelf
    <3>2. \A w \in Children(md, v) : \A u \in Derived(md, w) : Children(md, u) \subseteq Derived(md, w)
      BY DerivedClosed DEF ClosedUnderChildren
    <3>3. QED
      BY <3>1, <3>2
  <2> HIDE DEF S
  <2>2. v \in S
    BY DEF S
  <2>3. QED
    BY <2>1, <2>2, DerivedLeast
<1>2. S \subseteq Derived(md, v)
  <2>1. v \in Derived(md, v)
    BY DerivedSelf
  <2>2. ASSUME NEW w \in Children(md, v)
        PROVE  Derived(md, w) \subseteq Derived(md, v)
    <3>1. w \in Derived(md, v)
      BY <2>1, DerivedClosed DEF ClosedUnderChildren
    <3>2. \A u \in Derived(md, v) : Children(md, u) \subseteq Derived(md, v)
      BY DerivedClosed DEF ClosedUnderChildren
    <3>3. QED
      BY <3>1, <3>2, DerivedLeast
  <2>3. QED
    BY <2>1, <2>2
<1>3. QED
  BY <1>1, <1>2

\* Inheritance is acyclic: a bounded number falls along children.
LEMMA HeightExists ==
  ASSUME NEW md, IsMetadata(md)
  PROVE  \E n \in Nat : \E h \in [Described(md) -> Nat] :
           /\ \A v \in Described(md) : h[v] < n
           /\ \A v \in Described(md) : \A w \in Children(md, v) : h[w] < h[v]
<1> DEFINE n == Cardinality(DOMAIN md)
           V == Described(md)
<1>1. n \in Nat
  BY FS_CardinalityType DEF IsMetadata
<1>2. PICK depth \in [DOMAIN md -> 1 .. n] :
        \A v \in V : \A p \in Parents(md, v) \cap V : depth[p[1]] < depth[v[1]]
  BY DEF IsMetadata
<1> HIDE DEF n
<1> DEFINE h == [v \in V |-> n - depth[v[1]]]
<1>3. \A v \in V : depth[v[1]] \in 1 .. n
  BY <1>2, OwnVTableType DEF Described
<1>4. h \in [V -> Nat] /\ \A v \in V : h[v] < n
  BY <1>1, <1>3
<1>5. ASSUME NEW v \in V, NEW w \in Children(md, v)
      PROVE  h[w] < h[v]
  <2>1. w \in V /\ v \in Parents(md, w)
    BY DEF Children
  <2>2. depth[v[1]] < depth[w[1]]
    BY <1>2, <2>1
  <2>3. h[v] = n - depth[v[1]] /\ h[w] = n - depth[w[1]]
    BY <2>1
  <2> HIDE DEF h, V
  <2>4. QED
    BY <1>1, <1>3, <2>1, <2>2, <2>3
<1> HIDE DEF h
<1>6. QED
  BY <1>1, <1>4, <1>5

------------------------------------------------------------------------------
(* Sums                                                                      *)

\* A set with as many elements as the values of f on s add up to.
Tokens(f, s) == UNION {{x} \X (1 .. f[x]) : x \in s}

\* The tokens of a set are those of one element and those of the others.
LEMMA TokensStep ==
  ASSUME NEW S, IsFiniteSet(S), NEW f, \A x \in S : f[x] \in Nat
  PROVE  /\ IsFiniteSet(Tokens(f, S)) /\ Cardinality(Tokens(f, S)) \in Nat
         /\ Cardinality(Tokens(f, {})) = 0
         /\ \A s \in SUBSET S : \A x \in s :
              /\ IsFiniteSet(Tokens(f, s)) /\ Cardinality(Tokens(f, s)) \in Nat
              /\ Cardinality(Tokens(f, s)) = f[x] + Cardinality(Tokens(f, s \ {x}))
<1>1. ASSUME NEW x \in S
      PROVE  IsFiniteSet({x} \X (1 .. f[x])) /\ Cardinality({x} \X (1 .. f[x])) = f[x]
  <2>1. f[x] \in Nat
    OBVIOUS
  <2>2. IsFiniteSet(1 .. f[x]) /\ Cardinality(1 .. f[x]) = f[x]
    <3>1. 1 \in Int /\ f[x] \in Int
      BY <2>1
    <3>2. /\ IsFiniteSet(1 .. f[x])
          /\ Cardinality(1 .. f[x]) = IF 1 > f[x] THEN 0 ELSE f[x] - 1 + 1
      BY <3>1, FS_Interval
    <3>3. QED
      BY <2>1, <3>2
  <2>3. IsFiniteSet({x}) /\ Cardinality({x}) = 1
    BY FS_Singleton
  <2>4. /\ IsFiniteSet({x} \X (1 .. f[x]))
        /\ Cardinality({x} \X (1 .. f[x])) = Cardinality({x}) * Cardinality(1 .. f[x])
    BY <2>2, <2>3, FS_Product
  <2>5. QED
    BY <2>1, <2>2, <2>3, <2>4
<1>2. ASSUME NEW s \in SUBSET S
      PROVE  IsFiniteSet(Tokens(f, s)) /\ Cardinality(Tokens(f, s)) \in Nat
  <2> DEFINE P == {{x} \X (1 .. f[x]) : x \in s}
  <2>1. IsFiniteSet(s)
    BY FS_Subset
  <2>2. IsFiniteSet(P)
    <3> DEFINE g == [x \in s |-> {x} \X (1 .. f[x])]
    <3>1. g \in Surjection(s, P)
      BY DEF Surjection
    <3> HIDE DEF g, P
    <3>2. QED
      BY <2>1, <3>1, FS_Surjection
  <2>3. \A T \in P : IsFiniteSet(T)
    BY <1>1
  <2>4. IsFiniteSet(UNION P)
    <3> HIDE DEF P
    <3>1. QED
      BY <2>2, <2>3, FS_UNION
  <2>5. QED
    BY <2>4, FS_CardinalityType DEF Tokens
<1>3. Cardinality(Tokens(f, {})) = 0
  <2>1. Tokens(f, {}) = {}
    BY DEF Tokens
  <2>2. QED
    BY <2>1, FS_EmptySet
<1>4. ASSUME NEW s \in SUBSET S, NEW x \in s
      PROVE  Cardinality(Tokens(f, s)) = f[x] + Cardinality(Tokens(f, s \ {x}))
  <2> DEFINE A == {x} \X (1 .. f[x])
             B == Tokens(f, s \ {x})
  <2>1. Tokens(f, s) = A \cup B /\ A \cap B = {}
    BY DEF Tokens
  <2>2. /\ IsFiniteSet(A) /\ Cardinality(A) = f[x] /\ f[x] \in Nat
        /\ IsFiniteSet(B) /\ Cardinality(B) \in Nat
    BY <1>1, <1>2
  <2> HIDE DEF A, B
  <2>3. Cardinality(A \cup B) = Cardinality(A) + Cardinality(B) - Cardinality(A \cap B)
    BY <2>2, FS_Union
  <2>4. Cardinality(A \cap B) = 0
    BY <2>1, FS_EmptySet
  <2>5. QED
    BY <2>1, <2>2, <2>3, <2>4 DEF B
<1>5. QED
  BY <1>2, <1>3, <1>4

\* The function that a fold computes.
IsFold(f, S, F) ==
  F = [s \in SUBSET S |->
         IF s = {} THEN 0
         ELSE LET x == CHOOSE x \in s : TRUE IN f[x] + F[s \ {x}]]

\* There is one such function, the number of tokens.
LEMMA FoldOfSum ==
  ASSUME NEW S, IsFiniteSet(S), NEW f, \A x \in S : f[x] \in Nat
  PROVE  /\ IsFold(f, S, [s \in SUBSET S |-> Cardinality(Tokens(f, s))])
         /\ \A F : IsFold(f, S, F) => F[S] = Cardinality(Tokens(f, S))
<1> DEFINE G == [s \in SUBSET S |-> Cardinality(Tokens(f, s))]
           x(s) == CHOOSE y \in s : TRUE
<1>1. \A s \in SUBSET S : s # {} => x(s) \in s /\ s \ {x(s)} \in SUBSET S
  OBVIOUS
<1> HIDE DEF x
<1>2. G = [s \in SUBSET S |-> IF s = {} THEN 0 ELSE f[x(s)] + G[s \ {x(s)}]]
  <2>1. ASSUME NEW s \in SUBSET S
        PROVE  G[s] = IF s = {} THEN 0 ELSE f[x(s)] + G[s \ {x(s)}]
    <3>1. CASE s = {}
      BY <3>1, TokensStep
    <3>2. CASE s # {}
      <4>1. Cardinality(Tokens(f, s)) = f[x(s)] + Cardinality(Tokens(f, s \ {x(s)}))
        BY <1>1, <3>2, TokensStep
      <4>2. s \ {x(s)} \in SUBSET S
        BY <1>1, <3>2
      <4>3. QED
        BY <3>2, <4>1, <4>2
    <3>3. QED
      BY <3>1, <3>2
  <2>2. QED
    BY <2>1
<1>3. IsFold(f, S, G)
  BY <1>2 DEF IsFold, x
<1>4. ASSUME NEW F, IsFold(f, S, F), NEW t \in SUBSET S, F[t] # G[t]
      PROVE  FALSE
  <2> DEFINE Bad == {s \in SUBSET S : F[s] # G[s]}
             N == {Cardinality(s) : s \in Bad}
  <2>1. \A s \in SUBSET S : IsFiniteSet(s) /\ Cardinality(s) \in Nat
    BY FS_Subset, FS_CardinalityType
  <2>2. N \subseteq Nat /\ N # {}
    BY <1>4, <2>1
  <2>3. PICK n \in N : \A m \in N : n <= m
    BY <2>2, LeastNat
  <2>4. PICK s \in Bad : n = Cardinality(s)
    BY <2>3
  <2>5. F = [u \in SUBSET S |-> IF u = {} THEN 0 ELSE f[x(u)] + F[u \ {x(u)}]]
    BY <1>4 DEF IsFold, x
  <2>6. s # {}
    BY <1>2, <2>4, <2>5
  <2> DEFINE u == s \ {x(s)}
  <2>7. u \in SUBSET S /\ u \in SUBSET s /\ u # s
    BY <1>1, <2>4, <2>6
  <2>8. Cardinality(u) < Cardinality(s)
    <3> HIDE DEF u, Bad
    <3>1. IsFiniteSet(s) /\ Cardinality(s) \in Nat /\ Cardinality(u) \in Nat
      BY <2>1, <2>4, <2>7 DEF Bad
    <3>2. QED
      BY <2>7, <3>1, FS_Subset
  <2>9. F[u] = G[u]
    <3> SUFFICES ASSUME F[u] # G[u]
                 PROVE  FALSE
      OBVIOUS
    <3>1. u \in Bad
      BY <2>7
    <3>2. Cardinality(u) \in N /\ Cardinality(u) \in Nat /\ Cardinality(s) \in Nat
      BY <2>1, <2>4, <2>7, <3>1
    <3> HIDE DEF N, u, Bad
    <3>3. QED
      BY <2>3, <2>4, <2>8, <3>2
  <2>10. F[s] = f[x(s)] + F[u] /\ G[s] = f[x(s)] + G[u]
    <3> HIDE DEF G
    <3>1. QED
      BY <1>2, <2>4, <2>5, <2>6
  <2>11. QED
    BY <2>4, <2>9, <2>10
<1>5. \A F : IsFold(f, S, F) => F[S] = Cardinality(Tokens(f, S))
  BY <1>4
<1>6. QED
  BY <1>3, <1>5

\* The sum of a function is the number of its tokens.
LEMMA SumIsTokens ==
  ASSUME NEW S, IsFiniteSet(S), NEW f, \A x \in S : f[x] \in Nat
  PROVE  MapThenSumSet(LAMBDA x : f[x], S) = Cardinality(Tokens(f, S))
<1> DEFINE F == CHOOSE iter : IsFold(f, S, iter)
<1>1. MapThenSumSet(LAMBDA x : f[x], S) = F[S]
  BY DEF MapThenSumSet, MapThenFoldSet, IsFold
<1>2. IsFold(f, S, F)
  BY FoldOfSum
<1> HIDE DEF F
<1>3. QED
  BY <1>1, <1>2, FoldOfSum

\* The union of sets; the set of x meets no other one; bounds that are exact.
UnionOf(A, s)  == UNION {A[x] : x \in s}
Apart(A, s, x) == \A y \in s \ {x} : A[x] \cap A[y] = {}
Tight(f, A, s) == \A x \in s : f[x] = Cardinality(A[x]) /\ Apart(A, s, x)

\* A union has at most as many elements as bounds for its parts add up to, and
\* exactly as many if the bounds are met and no two parts overlap.
LEMMA UnionFits ==
  ASSUME NEW S, IsFiniteSet(S), NEW f, \A x \in S : f[x] \in Nat,
         NEW A, \A x \in S : IsFiniteSet(A[x]) /\ Cardinality(A[x]) <= f[x]
  PROVE  /\ IsFiniteSet(UnionOf(A, S))
         /\ Cardinality(UnionOf(A, S)) <= Cardinality(Tokens(f, S))
         /\ Tight(f, A, S) => Cardinality(UnionOf(A, S)) = Cardinality(Tokens(f, S))
<1> DEFINE Fits(s) == /\ IsFiniteSet(UnionOf(A, s)) /\ Cardinality(UnionOf(A, s)) <= Cardinality(Tokens(f, s))
                      /\ Tight(f, A, s) => Cardinality(UnionOf(A, s)) = Cardinality(Tokens(f, s))
           Bad == {s \in SUBSET S : ~ Fits(s)}
           N == {Cardinality(s) : s \in Bad}
<1>1. \A s \in SUBSET S : IsFiniteSet(s) /\ Cardinality(s) \in Nat
  BY FS_Subset, FS_CardinalityType
<1>2. ASSUME Bad # {}
      PROVE  FALSE
  <2>1. N \subseteq Nat /\ N # {}
    <3> HIDE DEF Fits
    <3>1. QED
      BY <1>1, <1>2
  <2>2. PICK n \in N : \A m \in N : n <= m
    BY <2>1, LeastNat
  <2>3. PICK s \in Bad : n = Cardinality(s)
    BY <2>2
  <2>4. s \in SUBSET S /\ ~ Fits(s)
    BY <2>3
  <2>5. Fits({})
    <3>1. UnionOf(A, {}) = {} /\ Cardinality(Tokens(f, {})) = 0
      BY TokensStep DEF UnionOf
    <3>2. QED
      BY <3>1, FS_EmptySet
  <2>6. s # {}
    BY <2>4, <2>5
  <2>7. PICK x \in s : TRUE
    BY <2>6
  <2> DEFINE t == s \ {x}
  <2>8. t \in SUBSET S /\ t \in SUBSET s /\ t # s /\ x \in S
    BY <2>4, <2>7
  <2> HIDE DEF Fits
  <2>9. Fits(t)
    <3> SUFFICES ASSUME ~ Fits(t)
                 PROVE  FALSE
      OBVIOUS
    <3>1. t \in Bad
      BY <2>8
    <3>2. Cardinality(t) \in N /\ Cardinality(t) \in Nat /\ Cardinality(s) \in Nat
      BY <1>1, <2>4, <2>8, <3>1
    <3> HIDE DEF N, Bad, t
    <3>3. Cardinality(t) < Cardinality(s)
      BY <1>1, <2>4, <2>8, <3>2, FS_Subset
    <3>4. QED
      BY <2>2, <2>3, <3>2, <3>3
  <2>10. UnionOf(A, s) = A[x] \cup UnionOf(A, t)
    BY <2>7 DEF UnionOf
  <2>11. /\ Cardinality(Tokens(f, s)) = f[x] + Cardinality(Tokens(f, t))
         /\ Cardinality(Tokens(f, s)) \in Nat
    BY <2>4, <2>7, TokensStep
  <2>12. /\ IsFiniteSet(A[x]) /\ Cardinality(A[x]) <= f[x] /\ f[x] \in Nat
         /\ IsFiniteSet(UnionOf(A, t)) /\ Cardinality(UnionOf(A, t)) <= Cardinality(Tokens(f, t))
    BY <2>8, <2>9 DEF Fits
  <2>13. Cardinality(Tokens(f, t)) \in Nat
    <3>1. IsFiniteSet(t) /\ \A y \in t : f[y] \in Nat
      BY <1>1, <2>8
    <3> HIDE DEF t
    <3>2. QED
      BY <3>1, TokensStep
  <2> HIDE DEF t
  <2>14. /\ IsFiniteSet(A[x] \cup UnionOf(A, t))
         /\ Cardinality(A[x] \cup UnionOf(A, t)) =
              Cardinality(A[x]) + Cardinality(UnionOf(A, t)) - Cardinality(A[x] \cap UnionOf(A, t))
    BY <2>12, FS_Union
  <2>15. IsFiniteSet(A[x] \cap UnionOf(A, t))
    BY <2>12, FS_Intersection
  <2>16. /\ Cardinality(A[x]) \in Nat /\ Cardinality(UnionOf(A, t)) \in Nat
         /\ Cardinality(A[x] \cap UnionOf(A, t)) \in Nat
    BY <2>12, <2>15, FS_CardinalityType
  <2>17. Cardinality(UnionOf(A, s)) <= Cardinality(Tokens(f, s))
    BY <2>10, <2>11, <2>12, <2>13, <2>14, <2>16
  <2>18. ASSUME Tight(f, A, s)
         PROVE  Cardinality(UnionOf(A, s)) = Cardinality(Tokens(f, s))
    <3>1. Tight(f, A, t) /\ A[x] \cap UnionOf(A, t) = {} /\ f[x] = Cardinality(A[x])
      BY <2>7, <2>18 DEF Tight, Apart, UnionOf, t
    <3>2. Cardinality(UnionOf(A, t)) = Cardinality(Tokens(f, t))
      BY <2>9, <3>1 DEF Fits
    <3>3. Cardinality(A[x] \cap UnionOf(A, t)) = 0
      BY <3>1, FS_EmptySet
    <3>4. QED
      BY <2>10, <2>11, <2>14, <2>16, <3>1, <3>2, <3>3
  <2>19. QED
    BY <2>4, <2>10, <2>14, <2>17, <2>18 DEF Fits
<1>3. Fits(S)
  <2> HIDE DEF Fits
  <2>1. QED
    BY <1>2
<1>4. QED
  BY <1>3

\* A number too large, or sets that overlap, leave the union short of the sum.
LEMMA UnionShort ==
  ASSUME NEW S, IsFiniteSet(S), NEW f, \A x \in S : f[x] \in Nat,
         NEW A, \A x \in S : IsFiniteSet(A[x]) /\ Cardinality(A[x]) <= f[x],
         NEW x \in S, f[x] # Cardinality(A[x]) \/ ~ Apart(A, S, x)
  PROVE  Cardinality(UnionOf(A, S)) < Cardinality(Tokens(f, S))
<1> DEFINE t == S \ {x}
           U == UnionOf(A, t)
           W == UnionOf(A, S)
<1>1. /\ IsFiniteSet(t)
      /\ \A y \in t : f[y] \in Nat
      /\ \A y \in t : IsFiniteSet(A[y]) /\ Cardinality(A[y]) <= f[y]
  BY FS_Subset
<1>2. W = A[x] \cup U
  BY DEF UnionOf
<1>3. /\ Cardinality(Tokens(f, S)) = f[x] + Cardinality(Tokens(f, t))
      /\ Cardinality(Tokens(f, S)) \in Nat
  BY TokensStep
<1>4. ~ Apart(A, S, x) => A[x] \cap U # {}
  BY DEF Apart, UnionOf
<1> HIDE DEF t
<1>5. Cardinality(Tokens(f, t)) \in Nat
  BY <1>1, TokensStep
<1>6. IsFiniteSet(U) /\ Cardinality(U) <= Cardinality(Tokens(f, t))
  BY <1>1, UnionFits
<1> HIDE DEF U, W
<1>7. Cardinality(A[x] \cup U) = Cardinality(A[x]) + Cardinality(U) - Cardinality(A[x] \cap U)
  BY <1>6, FS_Union
<1>8. IsFiniteSet(A[x] \cap U)
  BY <1>6, FS_Intersection
<1>9. /\ Cardinality(A[x]) \in Nat /\ Cardinality(U) \in Nat /\ Cardinality(A[x] \cap U) \in Nat
      /\ f[x] \in Nat /\ Cardinality(A[x]) <= f[x]
  BY <1>6, <1>8, FS_CardinalityType
<1>10. A[x] \cap U # {} => Cardinality(A[x] \cap U) # 0
  BY <1>8, FS_EmptySet
<1>11. Cardinality(W) < Cardinality(Tokens(f, S))
  <2> HIDE DEF t
  <2>1. CASE f[x] # Cardinality(A[x])
    <3>1. Cardinality(A[x]) < f[x]
      BY <1>9, <2>1
    <3>2. Cardinality(A[x]) + Cardinality(U) < f[x] + Cardinality(Tokens(f, t))
      BY <1>5, <1>6, <1>9, <3>1
    <3>3. QED
      BY <1>2, <1>3, <1>5, <1>7, <1>9, <3>2
  <2>2. CASE ~ Apart(A, S, x)
    <3>1. Cardinality(A[x] \cap U) # 0
      BY <1>4, <1>10, <2>2
    <3>2. QED
      BY <1>2, <1>3, <1>5, <1>6, <1>7, <1>9, <3>1
  <2>3. QED
    BY <2>1, <2>2
<1>12. QED
  BY <1>11 DEF W

\* Along a relation without cycles a number can be given to everything: its own
\* and those of its children, a child counted for every parent.
LEMMA CountExists ==
  ASSUME NEW V, NEW kids \in [V -> SUBSET V], NEW own \in [V -> Nat],
         NEW n \in Nat, NEW h \in [V -> Nat],
         \A v \in V : h[v] < n /\ IsFiniteSet(kids[v]),
         \A v \in V : \A w \in kids[v] : h[w] < h[v]
  PROVE  \E g \in [V -> Nat] : \A v \in V : g[v] = own[v] + Cardinality(Tokens(g, kids[v]))
<1> DEFINE H(k) == {v \in V : h[v] < k}
           Counts(g, k) == /\ g \in [H(k) -> Nat]
                           /\ \A v \in H(k) : g[v] = own[v] + Cardinality(Tokens(g, kids[v]))
           Bad == {k \in Nat : ~ \E g : Counts(g, k)}
<1>1. ASSUME Bad # {}
      PROVE  FALSE
  <2>1. PICK k \in Bad : \A m \in Bad : k <= m
    BY <1>1, LeastNat
  <2>2. CASE k = 0
    <3>1. H(0) = {}
      OBVIOUS
    <3> DEFINE g == [v \in {} |-> 0]
    <3>2. g \in [H(0) -> Nat] /\ \A v \in H(0) : g[v] = own[v] + Cardinality(Tokens(g, kids[v]))
      BY <3>1
    <3> HIDE DEF g
    <3>3. Counts(g, 0)
      BY <3>2
    <3>4. QED
      BY <2>1, <2>2, <3>3
  <2>3. CASE k # 0
    <3> DEFINE j == k - 1
    <3>1. j \in Nat /\ k = j + 1 /\ ~ (k <= j)
      BY <2>1, <2>3
    <3> HIDE DEF j
    <3>2. j \notin Bad
      BY <2>1, <3>1
    <3>3. PICK g : Counts(g, j)
      BY <3>1, <3>2
    <3> DEFINE e == [v \in H(k) |-> IF v \in H(j) THEN g[v]
                                    ELSE own[v] + Cardinality(Tokens(g, kids[v]))]
    <3>4. ASSUME NEW v \in H(k)
          PROVE  /\ e[v] \in Nat
                 /\ e[v] = own[v] + Cardinality(Tokens(e, kids[v]))
      <4>1. v \in V /\ h[v] \in Nat /\ h[v] < k
        OBVIOUS
      <4>2. \A w \in kids[v] : w \in H(j) /\ w \in H(k)
        <5> SUFFICES ASSUME NEW w \in kids[v]
                     PROVE  w \in H(j) /\ w \in H(k)
          OBVIOUS
        <5>1. w \in V /\ h[w] \in Nat /\ h[w] < h[v]
          BY <4>1
        <5>2. h[w] < j /\ h[w] < k
          BY <3>1, <4>1, <5>1
        <5>3. QED
          BY <5>1, <5>2
      <4>3. \A w \in kids[v] : e[w] = g[w]
        BY <4>2
      <4>4. Tokens(e, kids[v]) = Tokens(g, kids[v])
        <5> HIDE DEF e
        <5>1. QED
          BY <4>3 DEF Tokens
      <4>5. Cardinality(Tokens(g, kids[v])) \in Nat
        <5>1. \A w \in kids[v] : g[w] \in Nat
          BY <3>3, <4>2
        <5>2. IsFiniteSet(kids[v])
          BY <4>1
        <5>3. QED
          BY <5>1, <5>2, TokensStep
      <4>6. e[v] = own[v] + Cardinality(Tokens(g, kids[v]))
        BY <3>3
      <4>7. own[v] \in Nat
        BY <4>1
      <4> HIDE DEF e
      <4>8. QED
        BY <4>4, <4>5, <4>6, <4>7
    <3>5. e \in [H(k) -> Nat]
      BY <3>4
    <3> HIDE DEF e
    <3>6. Counts(e, k)
      BY <3>4, <3>5
    <3>7. QED
      BY <2>1, <3>6
  <2>4. QED
    BY <2>2, <2>3
<1>2. PICK g : Counts(g, n)
  <2> HIDE DEF Counts
  <2>1. QED
    BY <1>1
<1>3. H(n) = V
  OBVIOUS
<1>4. QED
  BY <1>2, <1>3

==============================================================================
