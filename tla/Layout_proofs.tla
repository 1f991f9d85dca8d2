---------------------------- MODULE Layout_proofs ----------------------------
(****************************************************************************)
(* Proofs about the layout builder, for every set of linked programs: the   *)
(* types of its maps, that no entry is lost or overwritten, where the vptrs *)
(* point, which of them the ranges of a class admit, and that calls and     *)
(* thunks find their entries.                                               *)
(****************************************************************************)
EXTENDS Layout, Hierarchy_proofs

------------------------------------------------------------------------------
(* Numbers                                                                   *)

\* A nonempty set of natural numbers has a minimum.
LEMMA MinOfNats ==
  ASSUME NEW S, S \subseteq Nat, S # {}
  PROVE  Min(S) \in S /\ \A y \in S : Min(S) <= y
<1>1. \E x \in S : \A y \in S : x <= y
  BY LeastNat
<1>2. QED
  BY <1>1 DEF Min

\* A nonempty finite set of integers has a maximum: an element with the fewest
\* above it.
LEMMA MaxOfFinite ==
  ASSUME NEW S, S \subseteq Int, S # {}, IsFiniteSet(S)
  PROVE  Max(S) \in S /\ \A y \in S : y <= Max(S)
<1> DEFINE above(x) == {y \in S : y > x}
           T == {Cardinality(above(x)) : x \in S}
<1>1. ASSUME NEW x \in S
      PROVE  IsFiniteSet(above(x)) /\ Cardinality(above(x)) \in Nat
  BY FS_Subset, FS_CardinalityType
<1>2. T \subseteq Nat /\ T # {}
  BY <1>1
<1>3. PICK n \in T : \A y \in T : n <= y
  BY <1>2, LeastNat
<1>4. PICK x \in S : n = Cardinality(above(x))
  BY <1>3
<1>5. ASSUME NEW y \in S, y > x
      PROVE  FALSE
  <2>1. above(y) \in SUBSET above(x) /\ y \in above(x) /\ y \notin above(y)
    <3>1. \A z \in S : z > y => z > x
      BY <1>5
    <3>2. ~ (y > y)
      OBVIOUS
    <3>3. QED
      BY <1>5, <3>1, <3>2, Zenon
  <2>2. /\ Cardinality(above(y)) <= Cardinality(above(x))
        /\ Cardinality(above(y)) # Cardinality(above(x))
    <3>1. above(y) # above(x)
      BY <2>1
    <3> HIDE DEF above
    <3>2. QED
      BY <1>1, <2>1, <3>1, FS_Subset
  <2>3. Cardinality(above(y)) \in T
    BY <1>5
  <2>4. Cardinality(above(y)) \in Nat /\ Cardinality(above(x)) \in Nat
    BY <1>1, <1>5
  <2>5. Cardinality(above(x)) <= Cardinality(above(y))
    BY <1>3, <1>4, <2>3
  <2> HIDE DEF above
  <2>6. QED
    BY <2>2, <2>4, <2>5
<1>6. \A y \in S : x >= y
  BY <1>5
<1>7. QED
  BY <1>4, <1>6 DEF Max

\* Powers of two count subsets.
LEMMA PowerOfTwo ==
  ASSUME NEW k \in Nat
  PROVE  /\ 2^k \in Nat \ {0}
         /\ 2^(k + 1) = 2^k + 2^k
         /\ 2^0 = 1
<1> DEFINE S == 1 .. k
           A == SUBSET S
           B == {T \cup {k + 1} : T \in A}
<1>1. ASSUME NEW n \in Nat
      PROVE  /\ IsFiniteSet(SUBSET (1 .. n))
             /\ Cardinality(SUBSET (1 .. n)) = 2^n
             /\ Cardinality(SUBSET (1 .. n)) \in Nat
  <2>1. IsFiniteSet(1 .. n) /\ Cardinality(1 .. n) = n
    BY FS_Interval
  <2>2. QED
    BY <2>1, FS_SUBSET, FS_CardinalityType
<1>2. 2^k = Cardinality(A) /\ Cardinality(A) \in Nat /\ IsFiniteSet(A)
  BY <1>1
<1>3. Cardinality(A) # 0
  <2>1. {} \in A
    OBVIOUS
  <2>2. QED
    BY <1>2, <2>1, FS_EmptySet
<1>4. SUBSET (1 .. k + 1) = A \cup B /\ A \cap B = {}
  <2>1. 1 .. k + 1 = S \cup {k + 1} /\ k + 1 \notin S
    OBVIOUS
  <2> HIDE DEF S
  <2>2. ASSUME NEW T \in SUBSET (1 .. k + 1), T \notin A
        PROVE  T \in B
    <3>1. T \ {k + 1} \in A /\ T = (T \ {k + 1}) \cup {k + 1}
      BY <2>1, <2>2
    <3>2. QED
      BY <3>1
  <2>3. QED
    BY <2>1, <2>2
<1>5. IsFiniteSet(B) /\ Cardinality(B) = Cardinality(A)
  <2> DEFINE f == [T \in A |-> T \cup {k + 1}]
  <2>1. k + 1 \notin S
    OBVIOUS
  <2> HIDE DEF S
  <2>2. f \in Bijection(A, B)
    <3>1. f \in [A -> B]
      OBVIOUS
    <3>2. ASSUME NEW T \in A, NEW U \in A, f[T] = f[U]
          PROVE  T = U
      BY <2>1, <3>2
    <3>3. \A V \in B : \E T \in A : f[T] = V
      OBVIOUS
    <3>4. QED
      BY <3>1, <3>2, <3>3, Zenon DEF Bijection, Injection, Surjection, IsInjective
  <2>3. QED
    BY <1>2, <2>2, FS_Bijection DEF ExistsBijection
<1>6. Cardinality(A \cup B) = Cardinality(A) + Cardinality(B)
  <2>1. Cardinality(A \cap B) = 0
    BY <1>4, FS_EmptySet
  <2>2. Cardinality(A \cup B) = Cardinality(A) + Cardinality(B) - Cardinality(A \cap B)
    BY <1>2, <1>5, FS_Union
  <2> HIDE DEF A, B
  <2>3. QED
    BY <1>2, <1>5, <2>1, <2>2
<1>7. 2^(k + 1) = Cardinality(SUBSET (1 .. k + 1))
  BY <1>1
<1>8. 2^0 = 1
  <2>1. SUBSET (1 .. 0) = {{}}
    OBVIOUS
  <2>2. 0 \in Nat
    OBVIOUS
  <2>3. Cardinality({{}}) = 1
    BY FS_Singleton
  <2>4. QED
    BY <1>1, <2>1, <2>2, <2>3
<1> HIDE DEF A, B
<1>9. QED
  BY <1>2, <1>3, <1>4, <1>5, <1>6, <1>7, <1>8

\* Between a size and its double there is a power of two.
LEMMA NextPowerOfTwo ==
  ASSUME NEW n \in Nat \ {0}
  PROVE  \E k \in 0 .. n : 2^k \in n .. 2 * n
<1> DEFINE Bad == {k \in Nat : 2^k < k}
           Enough == {k \in Nat : n <= 2^k}
<1>1. ASSUME Bad # {}
      PROVE  FALSE
  <2>1. PICK k \in Bad : \A y \in Bad : k <= y
    BY <1>1, LeastNat
  <2>2. 2^k \in Nat \ {0} /\ 2^k < k
    BY <2>1, PowerOfTwo
  <2> DEFINE j == k - 1
  <2>3. j \in Nat /\ k = j + 1 /\ j \notin Bad
    BY <2>1, <2>2
  <2>4. 2^j \in Nat \ {0} /\ 2^(j + 1) = 2^j + 2^j
    BY <2>3, PowerOfTwo
  <2>5. j <= 2^j
    BY <2>3, <2>4
  <2>6. 2^k = 2^j + 2^j
    BY <2>3, <2>4
  <2> HIDE DEF j
  <2>7. QED
    BY <2>2, <2>3, <2>4, <2>5, <2>6
<1>2. n \in Enough
  BY <1>1, 2^n \in Nat \ {0}, PowerOfTwo
<1>3. PICK k \in Enough : \A y \in Enough : k <= y
  BY <1>2, LeastNat
<1>4. 2^k \in Nat \ {0} /\ n <= 2^k /\ k <= n
  BY <1>2, <1>3, PowerOfTwo
<1>5. 2^k <= 2 * n
  <2>1. CASE k = 0
    BY <2>1, <1>4, PowerOfTwo
  <2>2. CASE k # 0
    <3> DEFINE j == k - 1
    <3>1. j \in Nat /\ k = j + 1 /\ j \notin Enough
      BY <1>3, <2>2
    <3>2. 2^j \in Nat \ {0} /\ 2^(j + 1) = 2^j + 2^j
      BY <3>1, PowerOfTwo
    <3>3. 2^j < n
      BY <3>1, <3>2
    <3>4. 2^k = 2^j + 2^j
      BY <3>1, <3>2
    <3> HIDE DEF j
    <3>5. QED
      BY <3>2, <3>3, <3>4
  <2>3. QED
    BY <2>1, <2>2
<1>6. QED
  BY <1>3, <1>4, <1>5

------------------------------------------------------------------------------
(* The input                                                                 *)

InputInv ==
  /\ program \in Programs
  /\ cha = ClassHierarchy(program.metadata)

\* The hierarchy and the regions of a program that the analysis accepted.
LEMMA InputFacts ==
  ASSUME InputInv
  PROVE  /\ IsMetadata(program.metadata)
         /\ VTables = Described(program.metadata)
         /\ VTables \subseteq VTable
         /\ IsFiniteSet(VTables)
         /\ roots = RootClasses(program.metadata)
         /\ roots \subseteq DOMAIN program.metadata
         /\ roots \subseteq Class
         /\ NoCloud \notin roots
         /\ program.interleave \in BOOLEAN
         /\ program.region \in [VTables -> Region]
<1>1. IsProgram(program)
  BY ProgramsAssumption DEF InputInv
<1>2. IsMetadata(program.metadata)
  BY <1>1 DEF IsProgram
<1>3. VTables = Described(program.metadata) /\ roots = RootClasses(program.metadata)
  BY DEF InputInv, VTables, roots, ClassHierarchy
<1>4. roots \subseteq DOMAIN program.metadata
  BY <1>3 DEF RootClasses
<1>5. roots \subseteq Class
  BY <1>2, <1>4 DEF IsMetadata
<1>6. QED
  BY <1>1, <1>2, <1>3, <1>4, <1>5, DescribedType, DescribedFinite, NoCloudAssumption
     DEF IsProgram

\* Every region has room in front of the address point and behind.
LEMMA RegionFacts ==
  ASSUME InputInv, NEW v \in VTables
  PROVE  /\ first(v) \in Nat /\ addrPt(v) \in Nat /\ last(v) \in Nat
         /\ first(v) < addrPt(v) /\ addrPt(v) <= last(v)
<1>1. IsProgram(program) /\ v \in Described(program.metadata)
  BY ProgramsAssumption, InputFacts DEF InputInv
<1>2. program.region[v] \in Region
  BY InputFacts
<1>3. QED
  BY <1>1, <1>2 DEF IsProgram, first, addrPt, last, Region

\* The preorder of a vtable lists what derives from it.
LEMMA OrderFacts ==
  ASSUME InputInv, NEW v \in VTables
  PROVE  /\ Order(v) \in Seq(VTables)
         /\ Len(Order(v)) \in Nat
         /\ DOMAIN Order(v) = 1 .. Len(Order(v))
         /\ Descendants(v) = Derived(program.metadata, v)
         /\ Descendants(v) \subseteq VTables
         /\ v \in Descendants(v)
         /\ \A w \in Descendants(v) : ChildrenOf(w) \subseteq Descendants(v)
         /\ \A i, j \in DOMAIN Order(v) : Order(v)[i] = Order(v)[j] => i = j
<1> DEFINE md == program.metadata
           s == Preorder(md, v)
<1>1. v \in Described(md) /\ md \in {p.metadata : p \in Programs}
  BY InputFacts DEF InputInv
<1>2. s \in Seq(VTable) /\ ToSet(s) = Derived(md, v) /\ IsInjective(s)
  BY <1>1, PreorderAssumption
<1>3. Order(v) = s
  BY <1>1 DEF InputInv, Order, ClassHierarchy
<1> HIDE DEF s, md
<1>4. Descendants(v) = Derived(md, v)
  BY <1>2, <1>3 DEF Descendants, Order
<1>5. Derived(md, v) \subseteq VTables
  BY <1>1, InputFacts DEF Derived, md
<1>6. Len(s) \in Nat /\ DOMAIN s = 1 .. Len(s)
  BY <1>2
<1>7. \A i \in 1 .. Len(s) : s[i] \in VTables
  BY <1>2, <1>5, <1>6 DEF ToSet
<1>8. s \in Seq(VTables)
  BY <1>2, <1>6, <1>7
<1>9. v \in Derived(md, v)
  BY DerivedSelf
<1>10. ASSUME NEW w \in Derived(md, v)
       PROVE  ChildrenOf(w) \subseteq Derived(md, v)
  <2>1. w \in Described(md)
    BY <1>5, InputFacts DEF md
  <2>2. ChildrenOf(w) = Children(md, w)
    BY <2>1 DEF InputInv, ChildrenOf, ClassHierarchy, md
  <2>3. QED
    BY <2>2, DerivedClosed DEF ClosedUnderChildren
<1>11. \A i, j \in DOMAIN s : s[i] = s[j] => i = j
  BY <1>2 DEF IsInjective
<1>12. QED
  BY <1>3, <1>4, <1>5, <1>6, <1>8, <1>9, <1>10, <1>11 DEF md

\* Every vtable is in the cloud of one root.
LEMMA Clouds ==
  ASSUME InputInv
  PROVE  /\ \A r \in roots : <<r, 0>> \in VTables /\ CloudOf(r) \subseteq VTables
         /\ \A v \in VTables : \E r \in roots : v \in CloudOf(r)
         /\ \A r, s \in roots : \A v \in VTables :
              v \in CloudOf(r) /\ v \in CloudOf(s) => r = s
<1> DEFINE md == program.metadata
<1>1. ASSUME NEW r \in roots
      PROVE  <<r, 0>> \in VTables /\ CloudOf(r) = Derived(md, <<r, 0>>)
                /\ CloudOf(r) \subseteq VTables
  <2>1. <<r, 0>> \in VTables
    BY InputFacts, PrimaryVTable DEF Described
  <2>2. QED
    BY <2>1, OrderFacts DEF CloudOf
<1>2. ASSUME NEW v \in VTables
      PROVE  \E r \in roots : {s \in roots : v \in CloudOf(s)} = {r}
  <2> DEFINE R == {s \in RootClasses(md) : v \in Derived(md, <<s, 0>>)}
  <2>1. Cardinality(R) = 1
    BY ForestAssumption, InputFacts DEF InputInv
  <2>2. IsFiniteSet(RootClasses(md))
    <3>1. IsFiniteSet(DOMAIN md) /\ RootClasses(md) \in SUBSET DOMAIN md
      BY InputFacts DEF IsMetadata, RootClasses
    <3>2. QED
      BY <3>1, FS_Subset
  <2>3. IsFiniteSet(R)
    BY <2>2, FS_Subset
  <2>4. \E r : R = {r}
    BY <2>1, <2>3, FS_Singleton
  <2>5. R = {s \in roots : v \in CloudOf(s)}
    BY <1>1, InputFacts
  <2>6. QED
    BY <2>4, <2>5
<1>3. QED
  BY <1>1, <1>2

\* The place of a vtable in the preorder of its cloud.
LEMMA IndexFacts ==
  ASSUME InputInv, NEW r \in roots
  PROVE  /\ CloudOrder(r) \in Seq(VTables)
         /\ Len(CloudOrder(r)) \in Nat
         /\ DOMAIN CloudOrder(r) = 1 .. Len(CloudOrder(r))
         /\ CloudOf(r) = {CloudOrder(r)[i] : i \in 1 .. Len(CloudOrder(r))}
         /\ \A v \in CloudOf(r) : /\ Index(r, v) \in 1 .. Len(CloudOrder(r))
                                  /\ CloudOrder(r)[Index(r, v)] = v
         /\ \A i \in 1 .. Len(CloudOrder(r)) : /\ CloudOrder(r)[i] \in CloudOf(r)
                                               /\ Index(r, CloudOrder(r)[i]) = i
         /\ \A v, w \in CloudOf(r) : Index(r, v) = Index(r, w) => v = w
<1> DEFINE s == Order(<<r, 0>>)
<1>1. /\ s \in Seq(VTables) /\ Len(s) \in Nat /\ DOMAIN s = 1 .. Len(s)
      /\ \A i, j \in DOMAIN s : s[i] = s[j] => i = j
  BY Clouds, OrderFacts
<1>2. CloudOf(r) = {s[i] : i \in 1 .. Len(s)}
  BY <1>1 DEF CloudOf, Descendants, ToSet, Order
<1>3. CloudOrder(r) = s
  BY DEF CloudOrder
<1>4. \A v : Index(r, v) = CHOOSE i \in 1 .. Len(s) : s[i] = v
  BY <1>1, <1>3 DEF Index
<1> HIDE DEF s
<1>5. ASSUME NEW v \in CloudOf(r)
      PROVE  Index(r, v) \in 1 .. Len(s) /\ s[Index(r, v)] = v
  <2>1. \E i \in 1 .. Len(s) : s[i] = v
    BY <1>2
  <2>2. QED
    BY <1>4, <2>1
<1>6. ASSUME NEW i \in 1 .. Len(s)
      PROVE  s[i] \in CloudOf(r) /\ Index(r, s[i]) = i
  <2>1. s[i] \in CloudOf(r)
    BY <1>2
  <2>2. Index(r, s[i]) \in 1 .. Len(s) /\ s[Index(r, s[i])] = s[i]
    BY <1>5, <2>1
  <2>3. QED
    BY <1>1, <2>1, <2>2
<1>7. QED
  BY <1>1, <1>2, <1>3, <1>5, <1>6

\* The entries of the vtables of a cloud are finitely many.
LEMMA CloudFinite ==
  ASSUME InputInv, NEW r \in roots
  PROVE  IsFiniteSet(CloudOf(r))
<1>1. CloudOf(r) \in SUBSET VTables /\ IsFiniteSet(VTables)
  BY Clouds, InputFacts
<1>2. QED
  BY <1>1, FS_Subset

\* orderCloud: the alignment is positive, and the largest vtable fits in it.
LEMMA RoundedSizeFits ==
  ASSUME InputInv, NEW r \in roots
  PROVE  /\ RoundedSize(r) \in Nat \ {0}
         /\ \A v \in CloudOf(r) : Size(v) <= RoundedSize(r)
         /\ \E v \in CloudOf(r) : /\ RoundedSize(r) = RoundedUp(Size(v))
                                  /\ \A w \in CloudOf(r) : Size(w) <= Size(v)
<1> DEFINE sizes == {Size(v) : v \in CloudOf(r)}
           max == Max(sizes)
           powers == {2^k : k \in 0 .. max} \cap (max .. 2 * max)
<1>1. ASSUME NEW v \in CloudOf(r)
      PROVE  Size(v) \in Nat \ {0}
  <2>1. v \in VTables
    BY Clouds
  <2>2. QED
    BY <2>1, RegionFacts DEF Size
<1>2. sizes \subseteq Nat \ {0} /\ sizes # {}
  <2>1. <<r, 0>> \in CloudOf(r)
    BY Clouds, OrderFacts DEF CloudOf
  <2>2. QED
    BY <1>1, <2>1
<1>3. IsFiniteSet(sizes)
  <2> DEFINE f == [v \in CloudOf(r) |-> Size(v)]
  <2>1. f \in Surjection(CloudOf(r), sizes)
    BY DEF Surjection
  <2>2. QED
    BY <2>1, CloudFinite, FS_Surjection
<1>4. max \in sizes /\ \A n \in sizes : n <= max
  <2>1. sizes \subseteq Int
    BY <1>2
  <2> HIDE DEF sizes
  <2>2. QED
    BY <1>2, <1>3, <2>1, MaxOfFinite
<1>5. max \in Nat \ {0}
  BY <1>2, <1>4
<1>6. powers \subseteq Nat /\ powers # {}
  <2> HIDE DEF max
  <2>1. PICK k \in 0 .. max : 2^k \in max .. 2 * max
    BY <1>5, NextPowerOfTwo
  <2>2. max .. 2 * max \subseteq Nat
    BY <1>5
  <2>3. 2^k \in powers
    BY <2>1
  <2>4. QED
    BY <2>2, <2>3, Zenon
<1>7. RoundedSize(r) = Min(powers)
  BY DEF RoundedSize, RoundedUp
<1>8. RoundedSize(r) \in powers
  <2> HIDE DEF powers
  <2>1. QED
    BY <1>6, <1>7, MinOfNats
<1>9. RoundedSize(r) \in max .. 2 * max
  BY <1>8
<1>10. \A v \in CloudOf(r) : Size(v) <= max
  BY <1>4
<1>11. PICK v \in CloudOf(r) : Size(v) = max
  BY <1>4
<1>12. RoundedSize(r) = RoundedUp(Size(v))
  BY <1>11 DEF RoundedSize
<1> HIDE DEF max
<1>13. QED
  BY <1>1, <1>5, <1>9, <1>10, <1>11, <1>12

\* What is read from the input stays.
LEMMA InputUnchanged ==
  ASSUME program' = program, cha' = cha
  PROVE  /\ VTables' = VTables /\ roots' = roots
         /\ \A v : /\ Order(v)' = Order(v) /\ Descendants(v)' = Descendants(v)
                   /\ ChildrenOf(v)' = ChildrenOf(v) /\ isDefined(v)' = isDefined(v)
                   /\ first(v)' = first(v) /\ addrPt(v)' = addrPt(v) /\ last(v)' = last(v)
         /\ \A r : CloudOrder(r)' = CloudOrder(r) /\ CloudOf(r)' = CloudOf(r)
         /\ \A r, v : /\ Index(r, v)' = Index(r, v)
                      /\ LaterChildren(r, v)' = LaterChildren(r, v)
         /\ \A t, r : Holders(t, r)' = Holders(t, r)
BY DEF VTables, roots, Order, Descendants, ChildrenOf, isDefined, first, addrPt, last,
       CloudOrder, CloudOf, Index, LaterChildren, Holders

------------------------------------------------------------------------------
(* The inductive invariant                                                   *)

\* The defined vtables of a cloud, their entries, and the place of an entry when
\* all of them are taken row by row.
DefinedIn(r)    == {v \in CloudOf(r) : isDefined(v)}
CloudEntries(r) == UNION {Entries(v) : v \in DefinedIn(r)}
Rank(r, e)      == Cardinality({d \in CloudEntries(r) : Precedes(r, d, e)})

\* How far the first loop has come in the preorder of a cloud, and the vtables
\* whose entries have their place.
PlacedUpTo(r) ==
  CASE pc # "place" \/ r \notin todo \cup {cloud} -> Len(CloudOrder(r))
    [] pc = "place" /\ r \notin todo /\ r = cloud /\ ~ program.interleave ->
         Len(CloudOrder(r)) - Len(queue)
    [] OTHER -> 0

PlacedIn(r) == {v \in DefinedIn(r) : Index(r, v) <= PlacedUpTo(r)}
Placed      == UNION {PlacedIn(r) : r \in roots}

\* The cursor of the loops: the queue is what is left of the preorder.
CursorInv ==
  /\ pc = "place" /\ cloud = NoCloud => queue = <<>>
  /\ pc = "place" /\ cloud # NoCloud =>
       /\ cloud \in roots \ todo
       /\ Len(queue) <= Len(CloudOrder(cloud))
       /\ \A i \in 1 .. Len(queue) :
            queue[i] = CloudOrder(cloud)[Len(CloudOrder(cloud)) - Len(queue) + i]
  /\ pc \in {"emit", "verify"} => cloud = NoCloud
  /\ DOMAIN alignmentMap = IF pc = "place" THEN roots \ todo ELSE roots

\* The first loop places the entries of the vtables it has passed, no others.
PlacedInv == DOMAIN newIndex = UNION {Entries(v) : v \in Placed}

\* w is the first defined vtable behind v.
Adjacent(r, v, w) ==
  /\ Index(r, v) < Index(r, w)
  /\ \A x \in DefinedIn(r) : ~ (Index(r, v) < Index(r, x) /\ Index(r, x) < Index(r, w))

\* An ordered cloud: its tables are moved in one piece, follow each other in
\* preorder, as closely as the multiples of the alignment allow on which they have
\* their address points.
OrderedInv ==
  ~ program.interleave =>
    /\ \A v \in VTables : prePadMap[v] = 0
    /\ \A r \in DOMAIN alignmentMap : alignmentMap[r] = RoundedSize(r)
    /\ \A r \in roots : \A v \in PlacedIn(r) :
         /\ \A i \in first(v) .. last(v) :
              newIndex[<<v, i>>] = newIndex[<<v, addrPt(v)>>] + i - addrPt(v)
         /\ newIndex[<<v, addrPt(v)>>] % alignmentMap[r] = 0
         /\ pc = "place" /\ r = cloud =>
              /\ newIndex[<<v, last(v)>>] < filled
              /\ (\A x \in PlacedIn(r) : Index(r, x) <= Index(r, v)) =>
                   filled = newIndex[<<v, last(v)>>] + 1
         /\ \A w \in PlacedIn(r) :
              /\ Index(r, v) < Index(r, w) => newIndex[<<v, last(v)>>] < newIndex[<<w, first(w)>>]
              /\ Adjacent(r, v, w) =>
                   newIndex[<<w, first(w)>>] <= newIndex[<<v, last(v)>>] + alignmentMap[r]

\* An interleaved cloud: an entry has as many before it as its rank says.
RankedInv ==
  program.interleave =>
    /\ \A r \in DOMAIN alignmentMap : alignmentMap[r] = 1
    /\ \A r \in roots : PlacedUpTo(r) > 0 =>
         \A e \in CloudEntries(r) : newIndex[e] = Rank(r, e)

\* The second loop: a vptr is the new index of the entry as far behind the first
\* one as the address point was, pads included; a thunk is translated for one of
\* the vtables that hold it.
EmitInv ==
  /\ pc = "place" => vptr = EmptyMap /\ thunkIndex = EmptyMap
  /\ \A v \in DOMAIN vptr :
       /\ v \in VTables /\ isDefined(v)
       /\ vptr[v] = newIndex[<<v, addrPt(v) - prePadMap[v]>>]
  /\ \A k \in DOMAIN thunkIndex : \E a \in Holders(k[1], k[2]) :
       thunkIndex[k] = translateVtblInd(a, k[1].offset)
  /\ pc \in {"emit", "range", "verify", "done"} =>
       \A r \in (IF pc = "emit" THEN roots \ todo ELSE roots) :
         /\ DefinedIn(r) \subseteq DOMAIN vptr
         /\ \A t \in program.thunks : Holders(t, r) # {} => <<t, r>> \in DOMAIN thunkIndex

\* The third loop: the ranges of v cover what derives from v.
Below(r, v) == {Index(r, w) : w \in Descendants(v)}

RangeInv ==
  /\ pc \in {"place", "emit"} => rangeMap = EmptyMap /\ memRangeMap = EmptyMap
  /\ \A r \in roots : \A v \in CloudOf(r) :
       /\ v \in DOMAIN rangeMap => rangeMap[v] = Coalesced(Below(r, v))
       /\ v \in DOMAIN memRangeMap => memRangeMap[v] = MemRanges(r, Coalesced(Below(r, v)))
  /\ pc = "range" /\ cloud # NoCloud => cloud \in roots /\ CloudOf(cloud) \subseteq DOMAIN rangeMap
  /\ pc \in {"range", "verify", "done"} =>
       \A r \in (IF pc = "range" THEN roots \ (todo \cup {cloud}) ELSE roots) :
         CloudOf(r) \subseteq DOMAIN memRangeMap

\* The asserts have held.
VerifiedInv == pc = "done" /\ program.interleave => \A r \in roots : CloudVerified(r)

\* What every step keeps, by the loop it belongs to.
LEMMA Phases ==
  ASSUME [Next]_vars
  PROVE  /\ program' = program /\ cha' = cha
         /\ pc = "place" => /\ UNCHANGED <<emitted, ranges>>
                            /\ pc' \in {"place", "emit"}
         /\ pc # "place" => UNCHANGED layout /\ pc' # "place"
         /\ pc # "emit" => UNCHANGED emitted
         /\ pc # "range" => UNCHANGED ranges
<1> USE DEF layout, emitted, ranges
<1>1. ASSUME NEW r \in todo, StartCloud(r)
      PROVE  UNCHANGED <<program, cha, pc, emitted, ranges>> /\ pc = "place"
  BY <1>1 DEF StartCloud
<1>2. ASSUME NEW v \in VTables, OrderVTable(v)
      PROVE  UNCHANGED <<program, cha, pc, emitted, ranges>> /\ pc = "place"
  BY <1>2 DEF OrderVTable
<1>3. ASSUME NEW v \in VTables, PadChildren(v)
      PROVE  UNCHANGED <<program, cha, pc, emitted, ranges>> /\ pc = "place"
  BY <1>3 DEF PadChildren
<1>4. ASSUME InterleaveCloud
      PROVE  UNCHANGED <<program, cha, pc, emitted, ranges>> /\ pc = "place"
  BY <1>4 DEF InterleaveCloud
<1>5. ASSUME FinishOrder
      PROVE  UNCHANGED <<program, cha, pc, emitted, ranges>> /\ pc = "place"
  BY <1>5 DEF FinishOrder
<1>6. ASSUME NextLoop
      PROVE  /\ UNCHANGED <<program, cha, layout, emitted, ranges>>
             /\ pc = "place" => pc' = "emit"
             /\ pc # "place" => pc' # "place"
  BY <1>6 DEF NextLoop
<1>7. ASSUME NEW r \in todo, EmitCloud(r)
      PROVE  UNCHANGED <<program, cha, layout, ranges>> /\ pc = "emit" /\ pc' # "place"
  BY <1>7 DEF EmitCloud
<1>8. ASSUME NEW r \in todo, CoalesceRanges(r)
      PROVE  UNCHANGED <<program, cha, layout, emitted>> /\ pc = "range" /\ pc' # "place"
  BY <1>8 DEF CoalesceRanges
<1>9. ASSUME BuildMemRanges
      PROVE  UNCHANGED <<program, cha, layout, emitted>> /\ pc = "range" /\ pc' # "place"
  BY <1>9 DEF BuildMemRanges
<1>10. ASSUME VerifyNewLayouts
       PROVE  /\ UNCHANGED <<program, cha, layout, emitted, ranges>>
              /\ pc = "verify" /\ pc' # "place"
  BY <1>10 DEF VerifyNewLayouts
<1>11. ASSUME Finished \/ UNCHANGED vars
       PROVE  UNCHANGED <<program, cha, pc, layout, emitted, ranges>>
  BY <1>11 DEF Finished, vars
<1>12. QED
  BY <1>1, <1>2, <1>3, <1>4, <1>5, <1>6, <1>7, <1>8, <1>9, <1>10, <1>11 DEF Next, Place

\* The vtable that is laid out next, and how far the loop has come.
LEMMA HeadOfQueue ==
  ASSUME InputInv, CursorInv, queue \in Seq(VTables), pc = "place", queue # <<>>
  PROVE  LET n == Len(CloudOrder(cloud))  q == Len(queue) IN
         /\ cloud \in roots \ todo
         /\ n \in Nat /\ q \in 1 .. n
         /\ Head(queue) \in CloudOf(cloud)
         /\ Index(cloud, Head(queue)) = n - q + 1
         /\ Tail(queue) \in Seq(VTables)
         /\ Len(Tail(queue)) = q - 1
         /\ \A i \in 1 .. q - 1 : Tail(queue)[i] = CloudOrder(cloud)[n - (q - 1) + i]
<1> DEFINE n == Len(CloudOrder(cloud))
           q == Len(queue)
<1>1. /\ cloud \in roots \ todo
      /\ q <= n
      /\ \A i \in 1 .. q : queue[i] = CloudOrder(cloud)[n - q + i]
  BY DEF CursorInv
<1>2. n \in Nat
  BY <1>1, IndexFacts
<1>3. q \in Nat \ {0}
  OBVIOUS
<1>4. /\ Head(queue) = queue[1]
      /\ Tail(queue) \in Seq(VTables)
      /\ Len(Tail(queue)) = q - 1
      /\ \A i \in 1 .. q - 1 : Tail(queue)[i] = queue[i + 1]
  OBVIOUS
<1>5. Head(queue) = CloudOrder(cloud)[n - q + 1] /\ n - q + 1 \in 1 .. n
  BY <1>1, <1>2, <1>3, <1>4
<1>6. Head(queue) \in CloudOf(cloud) /\ Index(cloud, Head(queue)) = n - q + 1
  BY <1>1, <1>5, IndexFacts
<1> HIDE DEF n, q
<1>7. ASSUME NEW i \in 1 .. q - 1
      PROVE  Tail(queue)[i] = CloudOrder(cloud)[n - (q - 1) + i]
  <2>1. i + 1 \in 1 .. q /\ n - q + (i + 1) = n - (q - 1) + i
    BY <1>2, <1>3
  <2>2. queue[i + 1] = CloudOrder(cloud)[n - q + (i + 1)]
    BY <1>1, <2>1
  <2>3. QED
    BY <1>4, <2>1, <2>2
<1>8. QED
  BY <1>1, <1>2, <1>3, <1>4, <1>6, <1>7 DEF n, q

\* Every step keeps the input and the cursor.
LEMMA CursorStep ==
  ASSUME InputInv, CursorInv, todo \subseteq roots, queue \in Seq(VTables), [Next]_vars
  PROVE  InputInv' /\ CursorInv'
<1>1. program' = program /\ cha' = cha
  BY Phases
<1>2. InputInv'
  BY <1>1 DEF InputInv
<1>0. ASSUME Finished \/ UNCHANGED vars
      PROVE  UNCHANGED <<pc, todo, cloud, queue, alignmentMap>>
  <2>1. UNCHANGED vars
    BY <1>0 DEF Finished
  <2>2. UNCHANGED <<pc, todo, cloud, queue, layout>>
    BY <2>1 DEF vars
  <2>3. QED
    BY <2>2 DEF layout
<1> USE <1>1, <1>2, InputUnchanged
<1>3. CASE \E r \in todo : StartCloud(r)
  <2>1. PICK r \in todo : StartCloud(r)
    BY <1>3
  <2>2. /\ pc' = pc /\ pc = "place" /\ cloud' = r /\ todo' = todo \ {r}
        /\ queue' = CloudOrder(r)
        /\ DOMAIN alignmentMap' = DOMAIN alignmentMap \cup {r}
    BY <2>1 DEF StartCloud, Merge
  <2>3. r \in roots /\ r # NoCloud
    BY InputFacts
  <2>4. Len(CloudOrder(r)) \in Nat
    BY <2>3, IndexFacts
  <2>5. \A i \in 1 .. Len(CloudOrder(r)) :
          Len(CloudOrder(r)) - Len(CloudOrder(r)) + i = i
    BY <2>4
  <2>6. DOMAIN alignmentMap = roots \ todo
    BY <2>2 DEF CursorInv
  <2>7. QED
    BY <2>2, <2>3, <2>4, <2>5, <2>6 DEF CursorInv
<1>4. ASSUME NEW v \in VTables, OrderVTable(v) \/ PadChildren(v)
      PROVE  CursorInv'
  <2>1. /\ pc = "place" /\ pc' = "place" /\ queue # <<>> /\ queue' = Tail(queue)
        /\ UNCHANGED <<todo, cloud, alignmentMap>>
    BY <1>4 DEF OrderVTable, PadChildren
  <2>2. cloud # NoCloud
    BY <2>1 DEF CursorInv
  <2>3. LET n == Len(CloudOrder(cloud))  q == Len(queue) IN
        /\ cloud \in roots \ todo
        /\ n \in Nat /\ q \in 1 .. n
        /\ Len(Tail(queue)) = q - 1
        /\ \A i \in 1 .. q - 1 : Tail(queue)[i] = CloudOrder(cloud)[n - (q - 1) + i]
    BY <2>1, HeadOfQueue
  <2>4. Len(queue') <= Len(CloudOrder(cloud))
    BY <2>1, <2>3
  <2>5. \A i \in 1 .. Len(queue') :
          queue'[i] = CloudOrder(cloud)[Len(CloudOrder(cloud)) - Len(queue') + i]
    BY <2>1, <2>3
  <2>6. DOMAIN alignmentMap = roots \ todo
    BY <2>1 DEF CursorInv
  <2>7. /\ cloud' = cloud /\ todo' = todo /\ roots' = roots
        /\ CloudOrder(cloud)' = CloudOrder(cloud) /\ alignmentMap' = alignmentMap
    BY <2>1
  <2>8. QED
    BY ONLY <2>1, <2>2, <2>3, <2>4, <2>5, <2>6, <2>7 DEF CursorInv
<1>5. CASE InterleaveCloud \/ FinishOrder
  <2>1. /\ pc = "place" /\ pc' = "place" /\ queue = <<>> /\ cloud' = NoCloud
        /\ UNCHANGED <<todo, queue, alignmentMap>>
    BY <1>5 DEF InterleaveCloud, FinishOrder, layout
  <2>2. QED
    BY <2>1 DEF CursorInv
<1>6. CASE NextLoop
  <2>1. /\ pc' # "place" /\ cloud = NoCloud /\ cloud' = NoCloud /\ todo = {}
        /\ UNCHANGED alignmentMap
    BY <1>6 DEF NextLoop, layout
  <2>2. QED
    BY <2>1 DEF CursorInv
<1>7. CASE \E r \in todo : EmitCloud(r)
  <2>1. /\ pc = "emit" /\ pc' # "place" /\ UNCHANGED <<cloud, alignmentMap>>
    BY <1>7 DEF EmitCloud, layout
  <2>2. QED
    BY <2>1 DEF CursorInv
<1>8. CASE BuildMemRanges \/ \E r \in todo : CoalesceRanges(r)
  <2>1. /\ pc = "range" /\ pc' \in {"range", "aborted"} /\ UNCHANGED alignmentMap
    BY <1>8 DEF BuildMemRanges, CoalesceRanges, layout
  <2>2. QED
    BY <2>1 DEF CursorInv
<1>9. CASE VerifyNewLayouts
  <2>1. /\ pc = "verify" /\ pc' \in {"done", "aborted"} /\ UNCHANGED <<cloud, alignmentMap>>
    BY <1>9 DEF VerifyNewLayouts, layout
  <2>2. QED
    BY <2>1 DEF CursorInv
<1>10. CASE Finished \/ UNCHANGED vars
  <2>1. UNCHANGED <<pc, todo, cloud, queue, alignmentMap>>
    BY <1>0, <1>10
  <2>2. CursorInv'
    BY <2>1 DEF CursorInv
  <2>3. QED
    BY <2>2
<1>11. QED
  BY <1>3, <1>4, <1>5, <1>6, <1>7, <1>8, <1>9, <1>10 DEF Next, Place

------------------------------------------------------------------------------
(* The first loop                                                            *)

\* The second map wins.
LEMMA MergeFacts ==
  ASSUME NEW f, NEW g
  PROVE  /\ DOMAIN Merge(f, g) = DOMAIN f \cup DOMAIN g
         /\ \A x \in DOMAIN g : Merge(f, g)[x] = g[x]
         /\ \A x \in DOMAIN f : x \notin DOMAIN g => Merge(f, g)[x] = f[x]
BY DEF Merge

\* A merge of two typed maps is typed.
LEMMA MergeType ==
  ASSUME NEW f, NEW g, NEW S, NEW T, PartialMap(f, S, T), PartialMap(g, S, T)
  PROVE  PartialMap(Merge(f, g), S, T)
BY DEF Merge, PartialMap

\* Only the steps that place entries move the bound of what is placed.
LEMMA BoundSteps ==
  ASSUME InputInv, CursorInv, todo \subseteq roots, queue \in Seq(VTables), [Next]_vars,
         NEW r \in roots
  PROVE  /\ PlacedUpTo(r) \in Nat
         /\ PlacedUpTo(r)' =
              CASE (\E v \in VTables : OrderVTable(v)) /\ r = cloud -> PlacedUpTo(r) + 1
                [] InterleaveCloud /\ r = cloud -> Len(CloudOrder(r))
                [] OTHER -> PlacedUpTo(r)
<1>1. program' = program /\ cha' = cha
  BY Phases
<1>2. /\ roots' = roots /\ CloudOrder(r)' = CloudOrder(r)
      /\ Len(CloudOrder(r)) \in Nat /\ r # NoCloud
  BY <1>1, InputUnchanged, IndexFacts, InputFacts
<1>3. PlacedUpTo(r) \in Nat
  BY <1>2 DEF PlacedUpTo, CursorInv
<1> DEFINE bound ==
      CASE pc' # "place" \/ r \notin todo' \cup {cloud'} -> Len(CloudOrder(r))
        [] pc' = "place" /\ r \notin todo' /\ r = cloud' /\ ~ program.interleave ->
             Len(CloudOrder(r)) - Len(queue')
        [] OTHER -> 0
<1>4. PlacedUpTo(r)' = bound
  BY <1>1, <1>2 DEF PlacedUpTo
<1>5. CASE \E s \in todo : StartCloud(s)
  <2>1. PICK s \in todo : StartCloud(s)
    BY <1>5
  <2>2. /\ pc' = pc /\ pc = "place" /\ cloud = NoCloud /\ cloud' = s
        /\ todo' = todo \ {s} /\ queue' = CloudOrder(s) /\ queue = <<>>
    BY <2>1 DEF StartCloud, CursorInv
  <2>3. ~ InterleaveCloud /\ ~ (\E v \in VTables : OrderVTable(v))
    BY <2>2 DEF InterleaveCloud, OrderVTable
  <2>4. bound = PlacedUpTo(r)
    BY <1>2, <2>2 DEF PlacedUpTo
  <2>5. QED
    BY <1>3, <1>4, <2>3, <2>4
<1>6. CASE \E v \in VTables : OrderVTable(v)
  <2>1. /\ pc = "place" /\ ~ program.interleave /\ queue # <<>>
        /\ UNCHANGED <<pc, todo, cloud>> /\ queue' = Tail(queue)
    BY <1>6 DEF OrderVTable
  <2>2. /\ cloud \in roots \ todo /\ Len(CloudOrder(cloud)) \in Nat
        /\ Len(queue) \in Nat /\ Len(Tail(queue)) = Len(queue) - 1
    BY <2>1, HeadOfQueue
  <2>3. ~ InterleaveCloud
    BY <2>1 DEF InterleaveCloud
  <2>4. bound = IF r = cloud THEN PlacedUpTo(r) + 1 ELSE PlacedUpTo(r)
    BY <1>2, <2>1, <2>2 DEF PlacedUpTo
  <2>5. QED
    BY <1>3, <1>4, <1>6, <2>3, <2>4
<1>7. CASE \E v \in VTables : PadChildren(v)
  <2>1. /\ pc = "place" /\ program.interleave /\ queue # <<>>
        /\ UNCHANGED <<pc, todo, cloud>>
    BY <1>7 DEF PadChildren
  <2>2. ~ InterleaveCloud /\ ~ (\E v \in VTables : OrderVTable(v))
    BY <2>1 DEF InterleaveCloud, OrderVTable
  <2>3. bound = PlacedUpTo(r)
    BY <1>2, <2>1 DEF PlacedUpTo
  <2>4. QED
    BY <1>3, <1>4, <2>2, <2>3
<1>8. CASE InterleaveCloud \/ FinishOrder
  <2>1. /\ pc = "place" /\ queue = <<>> /\ cloud # NoCloud /\ cloud' = NoCloud
        /\ UNCHANGED <<pc, todo>>
    BY <1>8 DEF InterleaveCloud, FinishOrder
  <2>2. cloud \notin todo /\ Len(queue) = 0
    BY <2>1 DEF CursorInv
  <2>3. ~ (\E v \in VTables : OrderVTable(v))
    BY <2>1 DEF OrderVTable
  <2>4. InterleaveCloud <=> program.interleave
    BY <1>8 DEF InterleaveCloud, FinishOrder
  <2>5. bound = IF InterleaveCloud /\ r = cloud THEN Len(CloudOrder(r)) ELSE PlacedUpTo(r)
    BY <1>2, <2>1, <2>2, <2>4 DEF PlacedUpTo
  <2>6. QED
    BY <1>3, <1>4, <2>3, <2>5
<1>9. CASE NextLoop /\ pc = "place"
  <2>1. /\ pc' # "place" /\ cloud = NoCloud /\ todo = {}
    BY <1>9, Phases DEF NextLoop
  <2>2. ~ InterleaveCloud /\ ~ (\E v \in VTables : OrderVTable(v))
    BY <2>1 DEF InterleaveCloud, OrderVTable
  <2>3. bound = PlacedUpTo(r)
    BY <1>2, <2>1 DEF PlacedUpTo
  <2>4. QED
    BY <1>3, <1>4, <2>2, <2>3
<1>10. CASE pc # "place"
  <2>1. pc' # "place"
    BY <1>10, Phases
  <2>2. ~ InterleaveCloud /\ ~ (\E v \in VTables : OrderVTable(v))
    BY <1>10 DEF InterleaveCloud, OrderVTable
  <2>3. bound = PlacedUpTo(r)
    BY <1>2, <1>10, <2>1 DEF PlacedUpTo
  <2>4. QED
    BY <1>3, <1>4, <2>2, <2>3
<1>11. CASE pc = "place" /\ UNCHANGED vars
  <2>1. UNCHANGED <<pc, todo, cloud, queue>>
    BY <1>11 DEF vars
  <2>2. ~ InterleaveCloud /\ ~ (\E v \in VTables : OrderVTable(v))
    <3>1. queue # <<>> => queue # Tail(queue)
      BY <1>11, HeadOfQueue
    <3>2. QED
      BY <2>1, <3>1 DEF InterleaveCloud, OrderVTable
  <2>3. bound = PlacedUpTo(r)
    BY <1>2, <2>1 DEF PlacedUpTo
  <2>4. QED
    BY <1>3, <1>4, <2>2, <2>3
<1>12. QED
  <2>1. pc = "place" => ~ ((\E s \in todo : EmitCloud(s) \/ CoalesceRanges(s)) \/ BuildMemRanges
                            \/ VerifyNewLayouts \/ Finished)
    BY DEF EmitCloud, CoalesceRanges, BuildMemRanges, VerifyNewLayouts, Finished
  <2>2. QED
    BY <1>5, <1>6, <1>7, <1>8, <1>9, <1>10, <1>11, <2>1 DEF Next, Place

\* The pads of a cloud are settled when its entries are placed.
LEMMA PadsSettled ==
  ASSUME InputInv, CursorInv, queue \in Seq(VTables), prePadMap \in [VTables -> Nat],
         [Next]_vars, NEW r \in roots, PlacedUpTo(r) > 0, NEW v \in CloudOf(r)
  PROVE  prePadMap'[v] = prePadMap[v]
<1>1. CASE \E u \in VTables : PadChildren(u)
  <2>1. PICK u \in VTables : PadChildren(u)
    BY <1>1
  <2>2. /\ pc = "place" /\ program.interleave /\ queue # <<>> /\ u = Head(queue)
        /\ prePadMap' = [w \in VTables |->
             IF isDefined(u) /\ w \in LaterChildren(cloud, u) /\ Depth(u) > Depth(w)
             THEN Depth(u) - Depth(w) ELSE prePadMap[w]]
    BY <2>1 DEF PadChildren
  <2>3. cloud \in roots \ todo /\ u \in CloudOf(cloud)
    BY <2>2, HeadOfQueue
  <2>4. LaterChildren(cloud, u) \subseteq CloudOf(cloud)
    BY <2>3, Clouds, OrderFacts DEF LaterChildren, CloudOf
  <2>5. r # cloud
    BY <2>2, <2>3 DEF PlacedUpTo
  <2>6. v \in VTables /\ v \notin LaterChildren(cloud, u)
    BY <2>3, <2>4, <2>5, Clouds
  <2>7. QED
    BY <2>2, <2>6, Zenon
<1>2. CASE ~ (\E u \in VTables : PadChildren(u))
  <2>1. prePadMap' = prePadMap
    BY <1>2 DEF Next, Place, StartCloud, OrderVTable, InterleaveCloud, FinishOrder, NextLoop,
       EmitCloud, CoalesceRanges, BuildMemRanges, VerifyNewLayouts, Finished, vars, layout
  <2>2. QED
    BY <2>1
<1>3. QED
  BY <1>1, <1>2

\* The steps that place nothing.
LEMMA QuietSteps ==
  ASSUME InputInv, CursorInv, [Next]_vars, TypeOK,
         ~ (\E v \in VTables : OrderVTable(v)), ~ InterleaveCloud
  PROVE  /\ newIndex' = newIndex
         /\ \A r \in roots : PlacedIn(r)' = PlacedIn(r)
         /\ Placed' = Placed
         /\ \A r \in DOMAIN alignmentMap :
              r \in DOMAIN alignmentMap' /\ alignmentMap'[r] = alignmentMap[r]
         /\ \A r \in roots : PlacedIn(r) # {} => r \in DOMAIN alignmentMap
<1>1. program' = program /\ cha' = cha
  BY Phases
<1>2. newIndex' = newIndex
  BY DEF Next, Place, StartCloud, PadChildren, FinishOrder, NextLoop,
     EmitCloud, CoalesceRanges, BuildMemRanges, VerifyNewLayouts, Finished, vars, layout
<1>3. roots' = roots
  BY <1>1, InputUnchanged
<1>4. ASSUME NEW r \in roots
      PROVE  PlacedIn(r)' = PlacedIn(r)
  <2>1. PlacedUpTo(r)' = PlacedUpTo(r)
    BY BoundSteps DEF TypeOK
  <2>2. QED
    BY <1>1, <2>1, InputUnchanged DEF PlacedIn, DefinedIn
<1>5. Placed' = Placed
  BY <1>3, <1>4 DEF Placed
<1>6. \A r \in DOMAIN alignmentMap :
        r \in DOMAIN alignmentMap' /\ alignmentMap'[r] = alignmentMap[r]
  <2>1. CASE \E r \in todo : StartCloud(r)
    <3>1. PICK r \in todo : StartCloud(r)
      BY <2>1
    <3>2. PICK n : alignmentMap' = Merge(alignmentMap, [c \in {r} |-> n]) /\ pc = "place"
      BY <3>1 DEF StartCloud
    <3>3. r \notin DOMAIN alignmentMap
      BY <3>2 DEF CursorInv
    <3>4. QED
      BY <3>2, <3>3 DEF Merge
  <2>2. CASE ~ (\E r \in todo : StartCloud(r))
    <3>1. alignmentMap' = alignmentMap
      BY <2>2 DEF Next, Place, PadChildren, FinishOrder, NextLoop,
       EmitCloud, CoalesceRanges, BuildMemRanges, VerifyNewLayouts, Finished, vars, layout
    <3>2. QED
      BY <3>1
  <2>3. QED
    BY <2>1, <2>2
<1>7. ASSUME NEW r \in roots, PlacedIn(r) # {}
      PROVE  r \in DOMAIN alignmentMap
  <2>1. PlacedUpTo(r) # 0
    BY <1>7, IndexFacts DEF PlacedIn, DefinedIn
  <2>2. pc = "place" => r \notin todo
    BY <2>1 DEF PlacedUpTo
  <2>3. QED
    BY <2>2 DEF CursorInv
<1>8. QED
  BY <1>2, <1>4, <1>5, <1>6, <1>7

\* Among as many numbers in a row as the alignment there is a multiple of it.
LEMMA NextMultiple ==
  ASSUME NEW n \in Nat, NEW d \in Nat, NEW a \in Nat \ {0}
  PROVE  \E b \in n .. n + a - 1 : (b + d) % a = 0
<1> DEFINE q == (n + d) \div a
           m == (n + d) % a
<1>1. q \in Nat /\ m \in 0 .. a - 1 /\ n + d = a * q + m
  OBVIOUS
<1> HIDE DEF q, m
<1>2. CASE m = 0
  <2>1. (n + d) % a = 0
    BY <1>2 DEF m
  <2>2. QED
    BY <2>1
<1>3. CASE m # 0
  <2> DEFINE b == n + a - m
  <2>1. b \in n .. n + a - 1 /\ b + d = a * (q + 1) + 0
    BY <1>1, <1>3
  <2>2. \A x, y \in Nat : x = a * y + 0 => x % a = 0
    OBVIOUS
  <2>3. b + d \in Nat /\ q + 1 \in Nat
    BY <1>1, <1>3
  <2>4. (b + d) % a = 0
    BY <2>1, <2>2, <2>3
  <2>5. QED
    BY <2>1, <2>4
<1>4. QED
  BY <1>2, <1>3

\* orderCloud, one vtable: it comes next in preorder, begins behind what was
\* placed, and has its address point aligned.
LEMMA OrderStep ==
  ASSUME InputInv, CursorInv, TypeOK, NEW v \in VTables, OrderVTable(v)
  PROVE  /\ cloud \in roots \ todo /\ v \in CloudOf(cloud)
         /\ Index(cloud, v) = PlacedUpTo(cloud) + 1
         /\ v \notin Placed
         /\ \A r \in roots :
              PlacedIn(r)' = IF r = cloud /\ isDefined(v) THEN PlacedIn(r) \cup {v}
                             ELSE PlacedIn(r)
         /\ isDefined(v) =>
              \E base \in Nat :
                /\ filled <= base /\ base < filled + alignmentMap[cloud]
                /\ (base + addrPt(v) - first(v)) % alignmentMap[cloud] = 0
                /\ newIndex' = Merge(newIndex, [e \in {v} \X (first(v) .. last(v)) |->
                                                  base + e[2] - first(v)])
                /\ filled' = base + Size(v)
<1>1. /\ pc = "place" /\ ~ program.interleave
      /\ queue # <<>> /\ v = Head(queue)
      /\ program' = program /\ cha' = cha
  BY DEF OrderVTable
<1>2. /\ cloud \in roots \ todo /\ v \in CloudOf(cloud)
      /\ Index(cloud, v) = PlacedUpTo(cloud) + 1
  BY <1>1, HeadOfQueue DEF TypeOK, PlacedUpTo
<1>3. ASSUME NEW r \in roots
      PROVE  /\ PlacedIn(r)' = IF r = cloud /\ isDefined(v) THEN PlacedIn(r) \cup {v}
                               ELSE PlacedIn(r)
             /\ v \notin PlacedIn(r)
  <2>1. /\ PlacedUpTo(r) \in Nat
        /\ PlacedUpTo(r)' = IF r = cloud THEN PlacedUpTo(r) + 1 ELSE PlacedUpTo(r)
    <3>1. [Next]_vars
      BY DEF Next, Place
    <3>2. ~ InterleaveCloud
      BY <1>1 DEF InterleaveCloud
    <3>3. QED
      BY <3>1, <3>2, BoundSteps DEF TypeOK
  <2>2. PlacedIn(r)' = {w \in DefinedIn(r) : Index(r, w) <= PlacedUpTo(r)'}
    BY <1>1, InputUnchanged DEF PlacedIn, DefinedIn
  <2>3. v \in CloudOf(r) => r = cloud
    BY <1>2, Clouds
  <2>4. \A w \in CloudOf(r) : Index(r, w) \in Nat /\ (Index(r, w) = Index(r, v) /\ r = cloud => w = v)
    BY <1>2, IndexFacts
  <2>5. QED
    BY <1>2, <2>1, <2>2, <2>3, <2>4 DEF PlacedIn, DefinedIn
<1>4. v \notin Placed
  BY <1>3 DEF Placed
<1>5. ASSUME isDefined(v)
      PROVE  \E base \in Nat :
                /\ filled <= base /\ base < filled + alignmentMap[cloud]
                /\ (base + addrPt(v) - first(v)) % alignmentMap[cloud] = 0
                /\ newIndex' = Merge(newIndex, [e \in {v} \X (first(v) .. last(v)) |->
                                                  base + e[2] - first(v)])
                /\ filled' = base + Size(v)
  <2> DEFINE max == alignmentMap[cloud]
             base == CHOOSE b \in filled .. filled + max - 1 :
                       (b + addrPt(v) - first(v)) % max = 0
  <2>1. filled \in Nat /\ max \in Nat \ {0}
    BY <1>1, <1>2 DEF TypeOK, PartialMap, CursorInv
  <2>2. first(v) \in Nat /\ addrPt(v) \in Nat /\ first(v) < addrPt(v)
    BY RegionFacts
  <2>3. \E b \in filled .. filled + max - 1 : (b + (addrPt(v) - first(v))) % max = 0
    <3> HIDE DEF max
    <3>1. addrPt(v) - first(v) \in Nat
      BY <2>2
    <3>2. QED
      BY <2>1, <3>1, NextMultiple
  <2>4. \A b \in filled .. filled + max - 1 :
          b + (addrPt(v) - first(v)) = b + addrPt(v) - first(v)
    BY <2>1, <2>2
  <2>5. \E b \in filled .. filled + max - 1 : (b + addrPt(v) - first(v)) % max = 0
    BY <2>3, <2>4
  <2>6. base \in filled .. filled + max - 1 /\ (base + addrPt(v) - first(v)) % max = 0
    <3> HIDE DEF max
    <3>1. QED
      BY <2>5
  <2>7. /\ newIndex' = Merge(newIndex, [e \in {v} \X (first(v) .. last(v)) |->
                                          base + e[2] - first(v)])
        /\ filled' = base + Size(v)
    BY <1>5 DEF OrderVTable
  <2>8. base \in Nat /\ filled <= base /\ base < filled + max
    <3> HIDE DEF base, max
    <3>1. QED
      BY <2>1, <2>6
  <2> HIDE DEF base
  <2>9. QED
    BY <2>6, <2>7, <2>8
<1>6. QED
  BY <1>2, <1>3, <1>4, <1>5

\* InterleaveCloud places all of a cloud.
LEMMA InterleaveStep ==
  ASSUME InputInv, CursorInv, TypeOK, InterleaveCloud
  PROVE  /\ cloud \in roots \ todo
         /\ PlacedUpTo(cloud) = 0 /\ PlacedIn(cloud) = {}
         /\ \A r \in roots : /\ PlacedUpTo(r)' = IF r = cloud THEN Len(CloudOrder(r))
                                                ELSE PlacedUpTo(r)
                             /\ PlacedIn(r)' = IF r = cloud THEN DefinedIn(r) ELSE PlacedIn(r)
                             /\ CloudEntries(r)' = CloudEntries(r)
                             /\ \A e : Rank(r, e)' = Rank(r, e)
         /\ newIndex' = Merge(newIndex, [e \in CloudEntries(cloud) |-> Rank(cloud, e)])
<1>1. /\ pc = "place" /\ program.interleave /\ cloud # NoCloud
      /\ program' = program /\ cha' = cha /\ prePadMap' = prePadMap
  BY DEF InterleaveCloud
<1>2. cloud \in roots \ todo
  BY <1>1 DEF CursorInv
<1>3. PlacedUpTo(cloud) = 0
  BY <1>1, <1>2 DEF PlacedUpTo
<1>4. PlacedIn(cloud) = {}
  BY <1>2, <1>3, IndexFacts DEF PlacedIn, DefinedIn
<1>5. ASSUME NEW r \in roots
      PROVE  PlacedUpTo(r)' = IF r = cloud THEN Len(CloudOrder(r)) ELSE PlacedUpTo(r)
  <2>1. [Next]_vars
    BY DEF Next, Place
  <2>2. ~ (\E u \in VTables : OrderVTable(u))
    BY <1>1 DEF OrderVTable
  <2>3. QED
    BY <2>1, <2>2, BoundSteps DEF TypeOK
<1>6. ASSUME NEW r \in roots
      PROVE  /\ PlacedIn(r)' = IF r = cloud THEN DefinedIn(r) ELSE PlacedIn(r)
             /\ CloudEntries(r)' = CloudEntries(r)
             /\ \A e : Rank(r, e)' = Rank(r, e)
  <2>1. PlacedIn(r)' = {w \in DefinedIn(r) : Index(r, w) <= PlacedUpTo(r)'}
    BY <1>1, InputUnchanged DEF PlacedIn, DefinedIn
  <2>2. \A w \in DefinedIn(r) : Index(r, w) <= Len(CloudOrder(r))
    BY IndexFacts DEF DefinedIn
  <2>3. CloudEntries(r)' = CloudEntries(r)
    BY <1>1, InputUnchanged DEF CloudEntries, DefinedIn, Entries
  <2>4. \A e : Rank(r, e)' = Rank(r, e)
    BY <1>1, <2>3, InputUnchanged DEF Rank, Precedes
  <2>5. QED
    BY <1>5, <2>1, <2>2, <2>3, <2>4 DEF PlacedIn
<1>7. newIndex' = Merge(newIndex, [e \in CloudEntries(cloud) |-> Rank(cloud, e)])
  BY DEF InterleaveCloud, CloudEntries, DefinedIn, Rank
<1>8. QED
  BY <1>2, <1>3, <1>4, <1>5, <1>6, <1>7

\* What is placed of a cloud is defined there, and of no other cloud.
LEMMA PlacedFacts ==
  ASSUME InputInv, NEW r \in roots, NEW v \in PlacedIn(r)
  PROVE  /\ v \in Placed /\ v \in VTables /\ isDefined(v) /\ v \in CloudOf(r)
         /\ \A s \in roots : v \in CloudOf(s) => s = r
<1>1. v \in CloudOf(r) /\ isDefined(v) /\ v \in Placed
  BY DEF Placed, PlacedIn, DefinedIn
<1>2. QED
  BY <1>1, Clouds

LEMMA PlacedStep ==
  ASSUME InputInv, CursorInv, TypeOK, PlacedInv, OrderedInv, [Next]_vars
  PROVE  PlacedInv'
<1>1. program' = program /\ cha' = cha /\ roots' = roots
  BY Phases, InputUnchanged
<1>2. ASSUME NEW v \in Placed
      PROVE  Entries(v)' = Entries(v)
  <2>1. PICK r \in roots : v \in PlacedIn(r)
    BY DEF Placed
  <2>2. PlacedUpTo(r) > 0
    BY <2>1, IndexFacts, BoundSteps DEF PlacedIn, DefinedIn, TypeOK
  <2>3. prePadMap'[v] = prePadMap[v]
    BY <2>1, <2>2, PlacedFacts, PadsSettled DEF TypeOK
  <2>4. QED
    BY <1>1, <2>3, InputUnchanged DEF Entries
<1>3. CASE \E v \in VTables : OrderVTable(v)
  <2>1. PICK v \in VTables : OrderVTable(v)
    BY <1>3
  <2>2. prePadMap' = prePadMap /\ ~ program.interleave
    BY <2>1 DEF OrderVTable
  <2>3. /\ cloud \in roots /\ v \in CloudOf(cloud)
        /\ \A r \in roots :
              PlacedIn(r)' = IF r = cloud /\ isDefined(v) THEN PlacedIn(r) \cup {v}
                             ELSE PlacedIn(r)
    BY <2>1, OrderStep
  <2>4. Placed' = IF isDefined(v) THEN Placed \cup {v} ELSE Placed
    BY <1>1, <2>3 DEF Placed
  <2>5. CASE isDefined(v)
    <3>1. DOMAIN newIndex' = DOMAIN newIndex \cup ({v} \X (first(v) .. last(v)))
      BY <2>1, <2>5, OrderStep DEF Merge
    <3>2. Entries(v)' = {v} \X (first(v) .. last(v))
      <4>1. prePadMap'[v] = 0 /\ first(v)' = first(v) /\ last(v)' = last(v)
        BY <1>1, <2>2, InputUnchanged DEF OrderedInv
      <4>2. first(v) - 0 = first(v)
        BY RegionFacts
      <4>3. QED
        BY <4>1, <4>2 DEF Entries
    <3>3. QED
      BY <1>2, <2>4, <2>5, <3>1, <3>2 DEF PlacedInv
  <2>6. CASE ~ isDefined(v)
    <3>1. newIndex' = newIndex
      BY <2>1, <2>6 DEF OrderVTable
    <3>2. QED
      BY <1>2, <2>4, <2>6, <3>1 DEF PlacedInv
  <2>7. QED
    BY <2>5, <2>6
<1>4. CASE InterleaveCloud
  <2>1. /\ cloud \in roots
        /\ \A r \in roots : PlacedIn(r)' = IF r = cloud THEN DefinedIn(r) ELSE PlacedIn(r)
        /\ PlacedIn(cloud) = {}
        /\ DOMAIN newIndex' = DOMAIN newIndex \cup CloudEntries(cloud)
    BY <1>4, InterleaveStep DEF Merge
  <2>2. Placed' = Placed \cup DefinedIn(cloud)
    BY <1>1, <2>1 DEF Placed
  <2>3. \A v : Entries(v)' = Entries(v)
    BY <1>1, <1>4, InputUnchanged DEF InterleaveCloud, Entries
  <2>4. QED
    BY <2>1, <2>2, <2>3 DEF PlacedInv, CloudEntries
<1>5. CASE ~ (\E v \in VTables : OrderVTable(v)) /\ ~ InterleaveCloud
  <2>1. newIndex' = newIndex /\ Placed' = Placed
    BY <1>5, QuietSteps
  <2>2. QED
    BY <1>2, <2>1 DEF PlacedInv
<1>6. QED
  BY <1>3, <1>4, <1>5

\* The indices of a placed entry.
LEMMA EntryPlaced ==
  ASSUME InputInv, PlacedInv, NEW v \in Placed, prePadMap \in [VTables -> Nat],
         PartialMap(newIndex, VTables \X Int, Nat),
         NEW i \in first(v) - prePadMap[v] .. last(v)
  PROVE  <<v, i>> \in DOMAIN newIndex /\ newIndex[<<v, i>>] \in Nat
<1>1. <<v, i>> \in Entries(v)
  BY DEF Entries
<1>2. <<v, i>> \in DOMAIN newIndex
  BY <1>1 DEF PlacedInv
<1>3. QED
  BY <1>2 DEF PartialMap

\* An ordered cloud is aligned as its largest vtable asks for.
LEMMA AlignmentStep ==
  ASSUME InputInv, OrderedInv, ~ program.interleave, [Next]_vars
  PROVE  \A r \in DOMAIN alignmentMap' : alignmentMap'[r] = RoundedSize(r)'
<1>1. program' = program /\ cha' = cha
  BY Phases
<1>2. \A r : RoundedSize(r)' = RoundedSize(r)
  <2>1. \A r : {Size(v) : v \in CloudOf(r)}' = {Size(v) : v \in CloudOf(r)}
    BY <1>1, InputUnchanged DEF Size
  <2>2. QED
    BY <2>1 DEF RoundedSize
<1>3. \A r \in DOMAIN alignmentMap : alignmentMap[r] = RoundedSize(r)
  BY DEF OrderedInv
<1>4. CASE \E r \in todo : StartCloud(r)
  <2>1. PICK s \in todo : StartCloud(s)
    BY <1>4
  <2>2. alignmentMap' = Merge(alignmentMap, [c \in {s} |-> RoundedSize(s)])
    BY <2>1 DEF StartCloud
  <2>3. QED
    BY <1>2, <1>3, <2>2 DEF Merge
<1>5. CASE ~ (\E r \in todo : StartCloud(r))
  <2>1. alignmentMap' = alignmentMap
    BY <1>5 DEF Next, Place, OrderVTable, PadChildren, InterleaveCloud, FinishOrder, NextLoop,
       EmitCloud, CoalesceRanges, BuildMemRanges, VerifyNewLayouts, Finished, vars, layout
  <2>2. QED
    BY <1>2, <1>3, <2>1
<1>6. QED
  BY <1>4, <1>5

LEMMA OrderedStep ==
  ASSUME InputInv, CursorInv, TypeOK, PlacedInv, OrderedInv, [Next]_vars
  PROVE  OrderedInv'
<1>1. program' = program /\ cha' = cha /\ roots' = roots /\ VTables' = VTables
  BY Phases, InputUnchanged
<1> SUFFICES ASSUME ~ program.interleave
             PROVE  OrderedInv'
  BY <1>1 DEF OrderedInv
<1>2. \A v \in VTables : prePadMap'[v] = 0
  <2>1. prePadMap' = prePadMap
    BY DEF Next, Place, StartCloud, OrderVTable, PadChildren, InterleaveCloud, FinishOrder,
       NextLoop, EmitCloud, CoalesceRanges, BuildMemRanges, VerifyNewLayouts, Finished, vars, layout
  <2>2. QED
    BY <2>1 DEF OrderedInv
<1> DEFINE Moved(v, a, f) ==
             /\ \A i \in first(v) .. last(v) : f[<<v, i>>] = f[<<v, addrPt(v)>>] + i - addrPt(v)
             /\ f[<<v, addrPt(v)>>] % a = 0
           Filled(r, v, S, f, n) ==
             /\ f[<<v, last(v)>>] < n
             /\ (\A x \in S : Index(r, x) <= Index(r, v)) => n = f[<<v, last(v)>>] + 1
           Behind(r, v, w, a, f) ==
             /\ Index(r, v) < Index(r, w) => f[<<v, last(v)>>] < f[<<w, first(w)>>]
             /\ Adjacent(r, v, w) => f[<<w, first(w)>>] <= f[<<v, last(v)>>] + a
<1>3. /\ \A r \in roots : \A v \in PlacedIn(r) :
           /\ Moved(v, alignmentMap[r], newIndex)
           /\ pc = "place" /\ r = cloud => Filled(r, v, PlacedIn(r), newIndex, filled)
           /\ \A w \in PlacedIn(r) : Behind(r, v, w, alignmentMap[r], newIndex)
      /\ (\A r \in roots : \A v \in PlacedIn(r)' :
             /\ Moved(v, alignmentMap'[r], newIndex')
             /\ pc' = "place" /\ r = cloud' => Filled(r, v, PlacedIn(r)', newIndex', filled')
             /\ \A w \in PlacedIn(r)' : Behind(r, v, w, alignmentMap'[r], newIndex')) =>
         OrderedInv'
  <2>1. \A r : DefinedIn(r)' = DefinedIn(r)
    BY <1>1, InputUnchanged DEF DefinedIn
  <2>2. \A r, v, w : Adjacent(r, v, w)' <=> Adjacent(r, v, w)
    BY <1>1, <2>1, InputUnchanged DEF Adjacent
  <2>3. \A r \in DOMAIN alignmentMap' : alignmentMap'[r] = RoundedSize(r)'
    BY <1>1, AlignmentStep
  <2>4. QED
    BY <1>1, <1>2, <2>2, <2>3, InputUnchanged DEF OrderedInv
<1> HIDE DEF Moved, Filled, Behind
<1>4. CASE \E v \in VTables : OrderVTable(v) /\ isDefined(v)
  <2>1. PICK v \in VTables : OrderVTable(v) /\ isDefined(v)
    BY <1>4
  <2>2. PICK base \in Nat :
           /\ filled <= base /\ base < filled + alignmentMap[cloud]
           /\ (base + addrPt(v) - first(v)) % alignmentMap[cloud] = 0
           /\ newIndex' = Merge(newIndex, [e \in {v} \X (first(v) .. last(v)) |->
                                             base + e[2] - first(v)])
           /\ filled' = base + Size(v)
    BY <2>1, OrderStep
  <2>3. /\ cloud \in roots /\ cloud \notin todo /\ v \in CloudOf(cloud)
        /\ Index(cloud, v) = PlacedUpTo(cloud) + 1
        /\ v \notin Placed
        /\ \A r \in roots : PlacedIn(r)' = IF r = cloud THEN PlacedIn(r) \cup {v}
                                           ELSE PlacedIn(r)
    BY <2>1, OrderStep
  <2>4. pc = "place" /\ pc' = pc /\ alignmentMap' = alignmentMap /\ cloud' = cloud
    BY <2>1 DEF OrderVTable
  <2>5. /\ first(v) \in Nat /\ addrPt(v) \in Nat /\ last(v) \in Nat
        /\ first(v) < addrPt(v) /\ addrPt(v) <= last(v)
    BY RegionFacts
  <2>6. \A i \in first(v) .. last(v) : newIndex'[<<v, i>>] = base + i - first(v)
    BY <2>2 DEF Merge
  <2>7. \A w \in Placed, i \in Int : <<w, i>> \in DOMAIN newIndex =>
          newIndex'[<<w, i>>] = newIndex[<<w, i>>]
    <3>1. \A w \in Placed, i \in Int : <<w, i>> \notin {v} \X (first(v) .. last(v))
      BY <2>3
    <3>2. ASSUME NEW w \in Placed, NEW i \in Int, <<w, i>> \in DOMAIN newIndex
          PROVE  newIndex'[<<w, i>>] = newIndex[<<w, i>>]
      <4>1. <<w, i>> \notin {v} \X (first(v) .. last(v))
        BY <3>1
      <4> DEFINE g == [e \in {v} \X (first(v) .. last(v)) |-> base + e[2] - first(v)]
      <4>2. newIndex' = Merge(newIndex, g) /\ <<w, i>> \notin DOMAIN g
        BY <2>2, <4>1
      <4> HIDE DEF g
      <4>3. QED
        BY <3>2, <4>2, MergeFacts
    <3>3. QED
      BY <3>2
  <2>8. ASSUME NEW w \in Placed
        PROVE  /\ w \in VTables
               /\ \A i \in first(w) .. last(w) : /\ newIndex'[<<w, i>>] = newIndex[<<w, i>>]
                                                 /\ newIndex[<<w, i>>] \in Nat
               /\ first(w) \in first(w) .. last(w) /\ addrPt(w) \in first(w) .. last(w)
               /\ last(w) \in first(w) .. last(w)
    <3>1. w \in VTables
      BY PlacedFacts DEF Placed
    <3>2. prePadMap[w] = 0 /\ first(w) \in Nat /\ last(w) \in Nat /\ addrPt(w) \in Nat
          /\ first(w) < addrPt(w) /\ addrPt(w) <= last(w)
      BY <3>1, RegionFacts DEF OrderedInv
    <3>3. ASSUME NEW i \in first(w) .. last(w)
          PROVE  newIndex'[<<w, i>>] = newIndex[<<w, i>>] /\ newIndex[<<w, i>>] \in Nat
      <4>1. i \in first(w) - prePadMap[w] .. last(w) /\ i \in Int
        BY <3>2
      <4>2. <<w, i>> \in DOMAIN newIndex /\ newIndex[<<w, i>>] \in Nat
        BY <4>1, EntryPlaced DEF TypeOK
      <4>3. QED
        BY <2>7, <4>1, <4>2
    <3>4. QED
      BY <3>1, <3>2, <3>3
  <2>9. ASSUME NEW r \in roots, NEW w \in PlacedIn(r)
        PROVE  /\ Moved(w, alignmentMap[r], newIndex')
               /\ newIndex'[<<w, last(w)>>] = newIndex[<<w, last(w)>>]
               /\ newIndex'[<<w, first(w)>>] = newIndex[<<w, first(w)>>]
    BY <1>3, <2>8, PlacedFacts DEF Moved
  <2>10. Moved(v, alignmentMap[cloud], newIndex')
    <3>1. newIndex'[<<v, addrPt(v)>>] = base + addrPt(v) - first(v)
      BY <2>5, <2>6
    <3>2. \A i \in first(v) .. last(v) :
            base + i - first(v) = (base + addrPt(v) - first(v)) + i - addrPt(v)
      BY <2>5
    <3>3. QED
      BY <2>2, <2>6, <3>1, <3>2 DEF Moved
  <2>11. /\ newIndex'[<<v, first(v)>>] = base
         /\ newIndex'[<<v, last(v)>>] = base + last(v) - first(v)
         /\ newIndex'[<<v, last(v)>>] < filled'
         /\ filled' = newIndex'[<<v, last(v)>>] + 1
    <3>1. first(v) \in first(v) .. last(v) /\ last(v) \in first(v) .. last(v)
      BY <2>5
    <3>2. base + first(v) - first(v) = base /\ filled' = base + (last(v) - first(v) + 1)
      BY <2>2, <2>5 DEF Size
    <3>3. /\ newIndex'[<<v, first(v)>>] = base
          /\ newIndex'[<<v, last(v)>>] = base + last(v) - first(v)
      BY <2>6, <3>1, <3>2
    <3>4. /\ base + last(v) - first(v) < base + (last(v) - first(v) + 1)
          /\ base + (last(v) - first(v) + 1) = base + last(v) - first(v) + 1
      BY <2>5
    <3>5. QED
      BY <3>2, <3>3, <3>4
  <2>12. ASSUME NEW w \in PlacedIn(cloud)
         PROVE  /\ newIndex'[<<w, last(w)>>] < base
                /\ newIndex'[<<w, last(w)>>] < filled'
                /\ Index(cloud, w) < Index(cloud, v)
                /\ Index(cloud, w) \in Nat /\ Index(cloud, v) \in Nat
                /\ (\A x \in PlacedIn(cloud) : Index(cloud, x) <= Index(cloud, w)) =>
                     base <= newIndex'[<<w, last(w)>>] + alignmentMap[cloud]
    <3>0. Filled(cloud, w, PlacedIn(cloud), newIndex, filled)
      BY <1>3, <2>3, <2>4
    <3>1. newIndex[<<w, last(w)>>] < filled /\ newIndex[<<w, last(w)>>] \in Nat
      BY <2>3, <2>8, <3>0, PlacedFacts DEF Filled
    <3>10. ASSUME \A x \in PlacedIn(cloud) : Index(cloud, x) <= Index(cloud, w)
           PROVE  base <= newIndex[<<w, last(w)>>] + alignmentMap[cloud]
      <4>1. filled = newIndex[<<w, last(w)>>] + 1
        BY <3>0, <3>10 DEF Filled
      <4>2. alignmentMap[cloud] \in Nat
        BY <2>3, <2>4 DEF TypeOK, PartialMap, CursorInv
      <4>3. QED
        BY <2>2, <3>1, <4>1, <4>2
    <3>2. /\ Index(cloud, w) < Index(cloud, v)
          /\ Index(cloud, w) \in Nat /\ Index(cloud, v) \in Nat
      <4>1. w \in CloudOf(cloud) /\ Index(cloud, w) <= PlacedUpTo(cloud)
        BY DEF PlacedIn, DefinedIn
      <4>2. Index(cloud, w) \in Nat /\ PlacedUpTo(cloud) \in Nat
        <5>1. PlacedUpTo(cloud) \in Nat
          BY <2>3, BoundSteps DEF TypeOK
        <5>2. Index(cloud, w) \in Nat
          BY <2>3, <4>1, IndexFacts
        <5>3. QED
          BY <5>1, <5>2
      <4>3. QED
        BY <2>3, <4>1, <4>2
    <3>3. filled \in Nat /\ filled' = base + (last(v) - first(v) + 1)
      BY <2>2 DEF TypeOK, Size
    <3>4. newIndex'[<<w, last(w)>>] = newIndex[<<w, last(w)>>]
      BY <2>3, <2>9
    <3>5. filled <= base /\ base < filled'
      BY <2>2, <2>5, <3>3
    <3>6. newIndex[<<w, last(w)>>] < base /\ newIndex[<<w, last(w)>>] < filled'
      BY <2>2, <2>5, <3>1, <3>3, <3>5
    <3>7. QED
      BY <3>2, <3>4, <3>6, <3>10
  <2>13. Index(cloud, v) \in Nat
    BY <2>3, IndexFacts
  <2>14. ASSUME NEW r \in roots, NEW w \in PlacedIn(r)'
         PROVE  /\ Moved(w, alignmentMap'[r], newIndex')
                /\ pc' = "place" /\ r = cloud' =>
                     Filled(r, w, PlacedIn(r)', newIndex', filled')
                /\ \A u \in PlacedIn(r)' : Behind(r, w, u, alignmentMap'[r], newIndex')
    <3>1. w \in PlacedIn(r) \/ (r = cloud /\ w = v)
      BY <2>3
    <3>2. Moved(w, alignmentMap'[r], newIndex')
      BY <2>4, <2>9, <2>10, <3>1
    <3>3. ASSUME r = cloud
          PROVE  Filled(r, w, PlacedIn(r)', newIndex', filled')
      <4>1. CASE w = v
        BY <2>11, <3>3, <4>1 DEF Filled
      <4>2. CASE w \in PlacedIn(r)
        <5>1. newIndex'[<<w, last(w)>>] < filled' /\ ~ (Index(r, v) <= Index(r, w))
          BY <2>12, <3>3, <4>2
        <5>2. v \in PlacedIn(r)'
          BY <2>3, <3>3
        <5>3. QED
          BY <5>1, <5>2 DEF Filled
      <4>3. QED
        BY <3>1, <4>1, <4>2
    <3>4. ASSUME NEW u \in PlacedIn(r)'
          PROVE  Behind(r, w, u, alignmentMap'[r], newIndex')
      <4>1. u \in PlacedIn(r) \/ (r = cloud /\ u = v)
        BY <2>3
      <4>2. CASE w \in PlacedIn(r) /\ u \in PlacedIn(r)
        BY <1>3, <2>4, <2>9, <4>2 DEF Behind
      <4>3. CASE r = cloud /\ w = v
        <5>1. ~ (Index(r, w) < Index(r, u))
          <6>1. u \in PlacedIn(r) => Index(r, u) < Index(r, v) /\ Index(r, u) \in Nat
            BY <2>12, <4>3
          <6>2. CASE u = v
            BY <2>13, <4>3, <6>2
          <6>3. CASE u \in PlacedIn(r)
            BY <2>13, <4>3, <6>1, <6>3
          <6>4. QED
            BY <4>1, <6>2, <6>3
        <5>2. ~ Adjacent(r, w, u)
          BY <5>1 DEF Adjacent
        <5>3. QED
          BY <5>1, <5>2 DEF Behind
      <4>4. CASE r = cloud /\ u = v /\ w \in PlacedIn(r)
        <5>1. newIndex'[<<w, last(w)>>] < newIndex'[<<v, first(v)>>]
          BY <2>11, <2>12, <4>4
        <5>2. ASSUME Adjacent(r, w, v)
              PROVE  newIndex'[<<v, first(v)>>] <= newIndex'[<<w, last(w)>>] + alignmentMap'[r]
          <6>1. ASSUME NEW x \in PlacedIn(r)
                PROVE  Index(r, x) <= Index(r, w)
            <7>1. x \in DefinedIn(r)
              BY DEF PlacedIn
            <7>2. ~ (Index(r, w) < Index(r, x) /\ Index(r, x) < Index(r, v))
              BY <5>2, <7>1 DEF Adjacent
            <7>3. Index(r, x) < Index(r, v) /\ Index(r, x) \in Nat /\ Index(r, w) \in Nat
              BY <2>12, <4>4
            <7>4. QED
              BY <7>2, <7>3
          <6>2. QED
            BY <2>4, <2>11, <2>12, <4>4, <6>1
        <5>3. QED
          BY <4>4, <5>1, <5>2 DEF Behind
      <4>5. QED
        BY <3>1, <4>1, <4>2, <4>3, <4>4
    <3>5. QED
      BY <2>4, <3>2, <3>3, <3>4
  <2>15. QED
    BY <1>3, <2>14
<1>5. CASE \E v \in VTables : OrderVTable(v) /\ ~ isDefined(v)
  <2>1. PICK v \in VTables : OrderVTable(v) /\ ~ isDefined(v)
    BY <1>5
  <2>2. UNCHANGED <<pc, cloud, newIndex, filled, alignmentMap>>
    BY <2>1 DEF OrderVTable
  <2>3. \A r \in roots : PlacedIn(r)' = PlacedIn(r)
    BY <2>1, OrderStep
  <2>4. QED
    BY <1>3, <2>2, <2>3
<1>6. CASE ~ (\E v \in VTables : OrderVTable(v))
  <2>1. ~ InterleaveCloud
    BY DEF InterleaveCloud
  <2>2. /\ newIndex' = newIndex
        /\ \A r \in roots : PlacedIn(r)' = PlacedIn(r)
        /\ \A r \in roots : PlacedIn(r) # {} => alignmentMap'[r] = alignmentMap[r]
    BY <1>6, <2>1, QuietSteps
  <2>3. ASSUME NEW r \in roots, NEW v \in PlacedIn(r), pc' = "place", r = cloud'
        PROVE  Filled(r, v, PlacedIn(r)', newIndex', filled')
    <3>1. \A s \in todo : ~ StartCloud(s)
      <4> SUFFICES ASSUME NEW s \in todo, StartCloud(s)
                   PROVE  FALSE
        OBVIOUS
      <4>1. r \in todo /\ cloud = NoCloud /\ pc = "place"
        BY <2>3 DEF StartCloud
      <4>2. r # NoCloud
        BY InputFacts
      <4>3. PlacedUpTo(r) = 0
        BY <4>1, <4>2 DEF PlacedUpTo
      <4>4. QED
        BY <4>3, IndexFacts DEF PlacedIn, DefinedIn
    <3>2. r # NoCloud /\ pc = "place"
      BY <2>3, InputFacts, Phases
    <3>3. cloud' = cloud /\ filled' = filled
      BY <1>6, <2>1, <2>3, <3>1, <3>2
         DEF Next, Place, PadChildren, FinishOrder, NextLoop, EmitCloud, CoalesceRanges,
             BuildMemRanges, VerifyNewLayouts, Finished, vars
    <3>4. QED
      BY <1>3, <2>2, <2>3, <3>2, <3>3
  <2>4. QED
    BY <1>3, <2>2, <2>3
<1>7. QED
  BY <1>4, <1>5, <1>6

LEMMA RankedStep ==
  ASSUME InputInv, CursorInv, TypeOK, PlacedInv, RankedInv, [Next]_vars
  PROVE  RankedInv'
<1>1. program' = program /\ cha' = cha /\ roots' = roots
  BY Phases, InputUnchanged
<1> SUFFICES ASSUME program.interleave
             PROVE  RankedInv'
  BY <1>1 DEF RankedInv
<1>2. \A r \in DOMAIN alignmentMap' : alignmentMap'[r] = 1
  <2>1. CASE \E r \in todo : StartCloud(r)
    BY <2>1 DEF StartCloud, Merge, RankedInv
  <2>2. CASE ~ (\E r \in todo : StartCloud(r))
    <3>1. alignmentMap' = alignmentMap
      BY <2>2 DEF Next, Place, OrderVTable, PadChildren, InterleaveCloud, FinishOrder, NextLoop,
       EmitCloud, CoalesceRanges, BuildMemRanges, VerifyNewLayouts, Finished, vars, layout
    <3>2. QED
      BY <3>1 DEF RankedInv
  <2>3. QED
    BY <2>1, <2>2
<1>3. ~ (\E v \in VTables : OrderVTable(v))
  BY DEF OrderVTable
<1>4. ASSUME NEW r \in roots, PlacedUpTo(r)' > 0, NEW e \in CloudEntries(r)'
      PROVE  newIndex'[e] = Rank(r, e)'
  <2>1. CASE InterleaveCloud
    <3>1. /\ cloud \in roots
          /\ PlacedUpTo(r)' = IF r = cloud THEN Len(CloudOrder(r)) ELSE PlacedUpTo(r)
          /\ CloudEntries(r)' = CloudEntries(r) /\ Rank(r, e)' = Rank(r, e)
          /\ newIndex' = Merge(newIndex, [d \in CloudEntries(cloud) |-> Rank(cloud, d)])
      BY <2>1, InterleaveStep
    <3>2. CASE r = cloud
      BY <1>4, <3>1, <3>2 DEF Merge
    <3>3. CASE r # cloud
      <4>1. PICK v \in DefinedIn(r) : e \in Entries(v)
        BY <1>4, <3>1 DEF CloudEntries
      <4>2. v \in CloudOf(r) /\ e[1] = v
        BY <4>1 DEF DefinedIn, Entries
      <4>3. e \notin CloudEntries(cloud)
        <5>1. \A d \in CloudEntries(cloud) : d[1] \in CloudOf(cloud)
          BY DEF CloudEntries, DefinedIn, Entries
        <5>2. QED
          BY <3>1, <3>3, <4>2, <5>1, Clouds
      <4>4. r \in roots /\ PlacedUpTo(r) > 0
        BY <1>4, <3>1, <3>3
      <4>5. newIndex[e] = Rank(r, e)
        BY <1>4, <3>1, <4>4 DEF RankedInv
      <4>6. e \in DOMAIN newIndex
        <5>1. PlacedUpTo(r) = Len(CloudOrder(r))
          BY <4>4 DEF PlacedUpTo
        <5>2. v \in PlacedIn(r)
          BY <4>1, <4>2, <5>1, IndexFacts DEF PlacedIn
        <5>3. QED
          BY <4>1, <5>2 DEF PlacedInv, Placed
      <4>7. newIndex'[e] = newIndex[e]
        <5> DEFINE E == CloudEntries(cloud)
                   g == [d \in E |-> Rank(cloud, d)]
        <5>1. newIndex' = Merge(newIndex, g) /\ DOMAIN g = E /\ e \notin DOMAIN g
          BY <3>1, <4>3
        <5> HIDE DEF g
        <5>2. QED
          BY <4>6, <5>1, MergeFacts
      <4>8. QED
        BY <3>1, <4>5, <4>7
    <3>4. QED
      BY <3>2, <3>3
  <2>2. CASE ~ InterleaveCloud
    <3>1. newIndex' = newIndex
      BY <1>3, <2>2, QuietSteps
    <3>2. PlacedUpTo(r)' = PlacedUpTo(r)
      BY <1>3, <2>2, BoundSteps DEF TypeOK
    <3>3. \A v \in CloudOf(r) : prePadMap'[v] = prePadMap[v]
      BY <1>4, <3>2, PadsSettled DEF TypeOK
    <3>4. \A v \in DefinedIn(r) : Entries(v)' = Entries(v)
      BY <1>1, <3>3, InputUnchanged DEF Entries, DefinedIn
    <3>5. CloudEntries(r)' = CloudEntries(r)
      BY <1>1, <3>4, InputUnchanged DEF CloudEntries, DefinedIn
    <3>6. Rank(r, e)' = Rank(r, e)
      BY <1>1, <3>5, InputUnchanged DEF Rank, Precedes
    <3>7. QED
      BY <1>4, <3>1, <3>2, <3>5, <3>6 DEF RankedInv
  <2>3. QED
    BY <2>1, <2>2
<1>5. QED
  BY <1>1, <1>2, <1>4 DEF RankedInv

------------------------------------------------------------------------------
(* The second loop                                                           *)

\* After the first loop every entry has its place.
LEMMA AllPlaced ==
  ASSUME InputInv, pc # "place"
  PROVE  /\ \A r \in roots : PlacedIn(r) = DefinedIn(r) /\ PlacedUpTo(r) > 0
         /\ \A v \in VTables : isDefined(v) => v \in Placed
<1>1. ASSUME NEW r \in roots
      PROVE  PlacedIn(r) = DefinedIn(r) /\ PlacedUpTo(r) > 0
  <2>1. PlacedUpTo(r) = Len(CloudOrder(r))
    BY DEF PlacedUpTo
  <2>2. <<r, 0>> \in CloudOf(r)
    BY Clouds, OrderFacts DEF CloudOf
  <2>3. QED
    BY <2>1, <2>2, IndexFacts DEF PlacedIn, DefinedIn
<1>2. ASSUME NEW v \in VTables, isDefined(v)
      PROVE  v \in Placed
  <2>1. PICK r \in roots : v \in CloudOf(r)
    BY Clouds
  <2>2. QED
    BY <1>1, <1>2, <2>1 DEF Placed, DefinedIn
<1>3. QED
  BY <1>1, <1>2

\* newLayoutInds at the address point, and as far behind it as an entry is.
LEMMA StartOfTable ==
  ASSUME InputInv, prePadMap \in [VTables -> Nat], NEW v \in VTables, NEW k \in Int
  PROVE  /\ newLayoutInds(v, addrPt(v) - first(v)) = newIndex[<<v, addrPt(v) - prePadMap[v]>>]
         /\ newLayoutInds(v, addrPt(v) - first(v) + k) =
              newIndex[<<v, addrPt(v) + k - prePadMap[v]>>]
         /\ addrPt(v) - prePadMap[v] \in first(v) - prePadMap[v] .. last(v)
<1> DEFINE f == first(v)  a == addrPt(v)  z == last(v)  pad == prePadMap[v]
<1>1. f \in Nat /\ a \in Nat /\ z \in Nat /\ f < a /\ a <= z /\ pad \in Nat
  BY RegionFacts
<1>2. \A i : newLayoutInds(v, i) = newIndex[<<v, f - pad + i>>]
  BY DEF newLayoutInds
<1> HIDE DEF f, a, z, pad
<1>3. /\ f - pad + (a - f) = a - pad /\ f - pad + (a - f + k) = a + k - pad
      /\ a - pad \in f - pad .. z
  BY <1>1
<1>4. QED
  BY <1>2, <1>3 DEF f, a, z, pad

\* createThunkFunctions: of the vtables that hold a thunk one is met first.
LEMMA OneIsMetFirst ==
  ASSUME InputInv, NEW r \in roots, NEW H \in SUBSET VTables, H # {},
         \A v \in H : v[1] \in Classes(r)
  PROVE  \E v \in H : \A w \in H \ {v} : MetBefore(r, v, w)
<1> DEFINE places(c) == {i \in DOMAIN CloudOrder(r) : CloudOrder(r)[i][1] = c}
<1>1. ASSUME NEW c \in Classes(r)
      PROVE  ClassIndex(r, c) \in Nat /\ CloudOrder(r)[ClassIndex(r, c)][1] = c
  <2>1. PICK v \in CloudOf(r) : c = v[1]
    BY DEF Classes
  <2>2. Index(r, v) \in places(c) /\ places(c) \subseteq Nat
    BY <2>1, IndexFacts
  <2>3. Min(places(c)) \in places(c)
    <3> HIDE DEF places
    <3>1. QED
      BY <2>2, MinOfNats
  <2>4. QED
    BY <2>2, <2>3 DEF ClassIndex
<1> HIDE DEF places
<1> DEFINE T == {ClassIndex(r, v[1]) : v \in H}
<1>2. T \subseteq Nat /\ T # {}
  BY <1>1
<1>3. PICK n \in T : \A m \in T : n <= m
  BY <1>2, LeastNat
<1>4. PICK u \in H : n = ClassIndex(r, u[1])
  BY <1>3
<1> DEFINE K == {v \in H : v[1] = u[1]}
           O == {v[2] : v \in K}
<1>5. \A v \in H : v \in VTable /\ v = <<v[1], v[2]>> /\ v[2] \in Nat
  BY InputFacts DEF VTable
<1>6. O \subseteq Nat /\ O # {}
  BY <1>4, <1>5
<1>7. PICK o \in O : \A m \in O : o <= m
  BY <1>6, LeastNat
<1>8. PICK v \in K : o = v[2]
  BY <1>7
<1>9. ASSUME NEW w \in H \ {v}
      PROVE  MetBefore(r, v, w)
  <2>1. ClassIndex(r, v[1]) \in Nat /\ ClassIndex(r, w[1]) \in Nat
    BY <1>1
  <2>2. ClassIndex(r, v[1]) <= ClassIndex(r, w[1])
    BY <1>3, <1>4, <1>8
  <2>3. CASE v[1] = w[1]
    <3>1. w[2] \in O
      BY <1>8, <2>3
    <3>2. v[2] # w[2]
      BY <1>5, <1>8, <2>3
    <3>3. v[2] <= w[2] /\ v[2] \in Nat /\ w[2] \in Nat
      BY <1>5, <1>7, <1>8, <3>1
    <3>4. QED
      BY <2>3, <3>2, <3>3 DEF MetBefore
  <2>4. CASE v[1] # w[1]
    <3>1. ClassIndex(r, v[1]) # ClassIndex(r, w[1])
      BY <1>1, <1>8, <2>4
    <3>2. QED
      BY <2>1, <2>2, <3>1 DEF MetBefore
  <2>5. QED
    BY <2>3, <2>4
<1>10. QED
  BY <1>8, <1>9

\* createThunkFunctions for one cloud.
LEMMA ThunkStep ==
  ASSUME InputInv, NEW r \in roots
  PROVE  /\ ThunkIndices(r) = [k \in DOMAIN ThunkIndices(r) |-> ThunkIndices(r)[k]]
         /\ \A k \in DOMAIN ThunkIndices(r) :
              /\ k \in program.thunks \X roots
              /\ \E a \in Holders(k[1], k[2]) :
                   ThunkIndices(r)[k] = translateVtblInd(a, k[1].offset)
         /\ \A t \in program.thunks :
              Holders(t, r) # {} => <<t, r>> \in DOMAIN ThunkIndices(r) \cup DOMAIN thunkIndex
<1> DEFINE met(k) == {v \in Holders(k[1], k[2]) : v[1] \in Classes(r)}
           new == {k \in program.thunks \X roots : met(k) # {}} \ DOMAIN thunkIndex
           asked(k) == CHOOSE v \in met(k) : \A w \in met(k) \ {v} : MetBefore(r, v, w)
<1>1. ThunkIndices(r) = [k \in new |-> translateVtblInd(asked(k), k[1].offset)]
  BY DEF ThunkIndices
<1>2. ASSUME NEW k \in new
      PROVE  asked(k) \in Holders(k[1], k[2])
  <2>1. k[2] \in roots /\ met(k) # {}
    OBVIOUS
  <2>2. met(k) \in SUBSET VTables /\ \A v \in met(k) : v[1] \in Classes(r)
    BY <2>1, Clouds DEF Holders
  <2> HIDE DEF met
  <2>3. \E v \in met(k) : \A w \in met(k) \ {v} : MetBefore(r, v, w)
    BY <2>1, <2>2, OneIsMetFirst
  <2>4. asked(k) \in met(k)
    BY <2>3
  <2>5. QED
    BY <2>4 DEF met
<1>3. ASSUME NEW t \in program.thunks, Holders(t, r) # {}
      PROVE  <<t, r>> \in new \cup DOMAIN thunkIndex
  <2>1. PICK v \in Holders(t, r) : TRUE
    BY <1>3
  <2>2. v[1] \in Classes(r)
    BY <2>1 DEF Holders, Classes
  <2>3. v \in met(<<t, r>>)
    BY <2>1, <2>2
  <2>4. QED
    BY <2>3
<1> HIDE DEF asked, new
<1>4. \A k \in new : k \in program.thunks \X roots
  BY DEF new
<1>5. QED
  BY <1>1, <1>2, <1>3, <1>4

\* A translated index stays.
LEMMA TranslationUnchanged ==
  ASSUME program' = program, cha' = cha, UNCHANGED layout
  PROVE  /\ \A v, i : newLayoutInds(v, i)' = newLayoutInds(v, i)
         /\ \A v, k : translateVtblInd(v, k)' = translateVtblInd(v, k)
<1> USE InputUnchanged DEF layout
<1>1. \A v, i : newLayoutInds(v, i)' = newLayoutInds(v, i)
  BY DEF newLayoutInds
<1>2. \A v : Translated(v)' = Translated(v)
  BY DEF Translated, FirstDefinedChild
<1>3. QED
  BY <1>1, <1>2 DEF translateVtblInd

LEMMA EmitStep ==
  ASSUME InputInv, CursorInv, TypeOK, EmitInv, [Next]_vars
  PROVE  EmitInv'
<1>1. program' = program /\ cha' = cha
  BY Phases
<1>2. /\ roots' = roots /\ VTables' = VTables
      /\ \A r : DefinedIn(r)' = DefinedIn(r)
      /\ \A v : isDefined(v)' = isDefined(v) /\ addrPt(v)' = addrPt(v)
      /\ \A t, r : Holders(t, r)' = Holders(t, r)
  BY <1>1, InputUnchanged DEF DefinedIn
<1>3. CASE pc = "place"
  <2>1. vptr' = EmptyMap /\ thunkIndex' = EmptyMap
    BY <1>3, Phases DEF EmitInv, emitted
  <2>2. pc' # "place" => pc' = "emit" /\ todo' = roots
    BY <1>3 DEF Next, Place, StartCloud, OrderVTable, PadChildren, InterleaveCloud, FinishOrder,
       NextLoop, EmitCloud, CoalesceRanges, BuildMemRanges, VerifyNewLayouts, Finished, vars
  <2>3. DOMAIN EmptyMap = {}
    BY DEF EmptyMap
  <2>4. QED
    BY <1>2, <2>1, <2>2, <2>3 DEF EmitInv
<1>4. CASE pc # "place"
  <2>1. UNCHANGED layout /\ pc' # "place"
    BY <1>4, Phases
  <2>2. \A v, k : translateVtblInd(v, k)' = translateVtblInd(v, k)
    BY <1>1, <2>1, TranslationUnchanged
  <2>3. newIndex' = newIndex /\ prePadMap' = prePadMap
    BY <2>1 DEF layout
  <2>4. CASE \E r \in todo : EmitCloud(r)
    <3>1. PICK r \in todo : EmitCloud(r)
      BY <2>4
    <3>2. r \in roots
      BY DEF TypeOK
    <3>3. /\ thunkIndex' = Merge(thunkIndex, ThunkIndices(r)) /\ pc = "emit"
          /\ todo' = todo \ {r} /\ pc' \in {"emit", "aborted"}
      BY <3>1 DEF EmitCloud
    <3>4. \A k \in DOMAIN thunkIndex' : \E a \in Holders(k[1], k[2]) :
            thunkIndex'[k] = translateVtblInd(a, k[1].offset)
      BY <3>2, <3>3, ThunkStep DEF Merge, EmitInv
    <3>5. DOMAIN thunkIndex \subseteq DOMAIN thunkIndex'
      BY <3>3 DEF Merge
    <3>6. \A t \in program.thunks : Holders(t, r) # {} => <<t, r>> \in DOMAIN thunkIndex'
      BY <3>2, <3>3, ThunkStep DEF Merge
    <3> DEFINE g == [v \in {w \in CloudOf(r) : isDefined(w)} |->
                       newLayoutInds(v, addrPt(v) - first(v))]
    <3>7. \/ pc' = "aborted" /\ vptr' = vptr
          \/ pc' = "emit" /\ vptr' = Merge(vptr, g)
      BY <3>1, <3>3 DEF EmitCloud
    <3>8. ASSUME NEW v \in {w \in CloudOf(r) : isDefined(w)}
          PROVE  v \in VTables /\ isDefined(v)
                 /\ newLayoutInds(v, addrPt(v) - first(v)) = newIndex[<<v, addrPt(v) - prePadMap[v]>>]
      <4>1. v \in VTables
        BY <3>2, Clouds
      <4>2. 0 \in Int
        OBVIOUS
      <4>3. QED
        BY <4>1, <4>2, StartOfTable DEF TypeOK
    <3>9. \A v \in DOMAIN vptr' : /\ v \in VTables /\ isDefined(v)
                                  /\ vptr'[v] = newIndex[<<v, addrPt(v) - prePadMap[v]>>]
      BY <3>7, <3>8 DEF Merge, EmitInv
    <3>10. ASSUME pc' = "emit"
           PROVE  DOMAIN vptr \subseteq DOMAIN vptr' /\ DefinedIn(r) \subseteq DOMAIN vptr'
      BY <3>7, <3>10 DEF Merge, DefinedIn
    <3>11. ASSUME pc' = "emit", NEW s \in roots \ todo'
           PROVE  /\ DefinedIn(s) \subseteq DOMAIN vptr'
                  /\ \A t \in program.thunks : Holders(t, s) # {} => <<t, s>> \in DOMAIN thunkIndex'
      <4>1. s = r \/ s \in roots \ todo
        BY <3>3, <3>11
      <4>2. s \in roots \ todo =>
              /\ DefinedIn(s) \subseteq DOMAIN vptr
              /\ \A t \in program.thunks : Holders(t, s) # {} => <<t, s>> \in DOMAIN thunkIndex
        BY <3>3 DEF EmitInv
      <4>3. QED
        BY <3>5, <3>6, <3>10, <3>11, <4>1, <4>2
    <3>12. QED
      BY <1>1, <1>2, <2>1, <2>2, <2>3, <3>3, <3>4, <3>9, <3>11 DEF EmitInv
  <2>5. CASE ~ (\E r \in todo : EmitCloud(r))
    <3>1. vptr' = vptr /\ thunkIndex' = thunkIndex
      BY <2>5, <1>4 DEF Next, Place, StartCloud, OrderVTable, PadChildren, InterleaveCloud,
         FinishOrder, NextLoop, CoalesceRanges, BuildMemRanges, VerifyNewLayouts, Finished,
         vars, emitted
    <3>2. /\ pc' = "emit" => pc = "emit" /\ todo' = todo
          /\ pc' \in {"range", "verify", "done"} =>
               pc \in {"range", "verify", "done"} \/ (pc = "emit" /\ todo = {})
      BY <2>5, <1>4 DEF Next, Place, StartCloud, OrderVTable, PadChildren, InterleaveCloud,
         FinishOrder, NextLoop, CoalesceRanges, BuildMemRanges, VerifyNewLayouts, Finished, vars
    <3>3. QED
      BY <1>1, <1>2, <2>1, <2>2, <2>3, <3>1, <3>2 DEF EmitInv
  <2>6. QED
    BY <2>4, <2>5
<1>5. QED
  BY <1>3, <1>4

------------------------------------------------------------------------------
(* The third loop                                                            *)

\* Coalescing loses nothing and adds nothing.
LEMMA CoalescedCovers ==
  ASSUME NEW n \in Nat, NEW I \in SUBSET (1 .. n)
  PROVE  Covered(Coalesced(I)) = I
<1>1. ASSUME NEW i \in Covered(Coalesced(I))
      PROVE  i \in I
  BY DEF Covered, Coalesced
<1>2. ASSUME NEW i \in I
      PROVE  i \in Covered(Coalesced(I))
  <2> DEFINE A == {a \in Nat : a <= i /\ a .. i \subseteq I}
             B == {b \in Nat : i < b /\ b \notin I}
  <2>1. i \in A /\ n + 1 \in B
    OBVIOUS
  <2>2. PICK a \in A : \A x \in A : a <= x
    BY <2>1, LeastNat
  <2>3. PICK b \in B : \A x \in B : b <= x
    BY <2>1, LeastNat
  <2>4. a \in 1 .. i /\ b \in i + 1 .. n + 1 /\ i \in 1 .. n /\ a \in I
    BY <2>1, <2>2, <2>3
  <2>5. ASSUME NEW x \in a .. b - 1
        PROVE  x \in I
    <3>1. CASE x <= i
      BY <2>2, <2>4, <3>1
    <3>2. CASE x > i
      <4>1. x \in Nat /\ x < b
        BY <2>4, <3>2
      <4>2. x \notin B
        BY <2>3, <2>4, <4>1
      <4>3. QED
        BY <3>2, <4>1, <4>2
    <3>3. QED
      BY <2>4, <3>1, <3>2
  <2>6. a - 1 \notin I
    <3> SUFFICES ASSUME a - 1 \in I
                 PROVE  FALSE
      OBVIOUS
    <3>1. a - 1 \in 1 .. n
      OBVIOUS
    <3>2. a - 1 .. i \subseteq I
      <4>1. \A x \in a - 1 .. i : x = a - 1 \/ x \in a .. i
        BY <2>4
      <4>2. QED
        BY <2>2, <4>1
    <3>3. a - 1 \in A
      BY <2>4, <3>1, <3>2
    <3>4. QED
      BY <2>2, <2>4, <3>3
  <2>7. b \in {x + 1 : x \in I}
    <3>1. b - 1 \in a .. b - 1
      BY <2>4
    <3>2. b - 1 \in I /\ b = (b - 1) + 1
      BY <2>4, <2>5, <3>1
    <3>3. QED
      BY <3>2
  <2>8. <<a, b>> \in Coalesced(I)
    <3>1. b \notin I /\ a < b
      BY <2>3, <2>4
    <3>2. QED
      BY <2>4, <2>5, <2>6, <2>7, <3>1 DEF Coalesced
  <2>9. i \in a .. b - 1
    BY <2>4
  <2>10. QED
    BY <2>8, <2>9 DEF Covered
<1>3. QED
  BY <1>1, <1>2

\* What derives from v is v and what derives from its children.
LEMMA DescendantsOfChildren ==
  ASSUME InputInv, NEW v \in VTables
  PROVE  /\ ChildrenOf(v) \subseteq VTables
         /\ Descendants(v) = {v} \cup UNION {Descendants(w) : w \in ChildrenOf(v)}
<1> DEFINE md == program.metadata
<1>1. VTables = Described(md)
  BY InputFacts
<1>2. ChildrenOf(v) = Children(md, v) /\ Children(md, v) \subseteq VTables
  BY <1>1 DEF InputInv, ChildrenOf, ClassHierarchy, Children
<1>3. \A w \in VTables : Descendants(w) = Derived(md, w)
  BY OrderFacts
<1>4. Derived(md, v) = {v} \cup UNION {Derived(md, w) : w \in Children(md, v)}
  BY DerivedOfChildren
<1>5. QED
  BY <1>2, <1>3, <1>4

\* Inheritance is acyclic: a number that falls along children.
LEMMA Height ==
  ASSUME InputInv
  PROVE  \E h \in [VTables -> Nat] : \A v \in VTables : \A w \in ChildrenOf(v) : h[w] < h[v]
<1> DEFINE md == program.metadata
<1>1. IsMetadata(md) /\ VTables = Described(md)
  BY InputFacts
<1>2. \A v \in VTables : ChildrenOf(v) = Children(md, v)
  BY <1>1 DEF InputInv, ChildrenOf, ClassHierarchy
<1>3. QED
  BY <1>1, <1>2, HeightExists

\* What derives from a vtable is in its cloud.
LEMMA CloudMembers ==
  ASSUME InputInv, NEW r \in roots, NEW v \in CloudOf(r)
  PROVE  ChildrenOf(v) \subseteq CloudOf(r) /\ Descendants(v) \subseteq CloudOf(r)
<1> DEFINE md == program.metadata
<1>1. CloudOf(r) = Derived(md, <<r, 0>>) /\ Descendants(v) = Derived(md, v)
  BY Clouds, OrderFacts DEF CloudOf
<1>2. \A u \in CloudOf(r) : Children(md, u) \subseteq CloudOf(r)
  BY <1>1, DerivedClosed DEF ClosedUnderChildren
<1>3. Descendants(v) \subseteq CloudOf(r)
  BY <1>1, <1>2, DerivedLeast
<1>4. QED
  BY <1>3, Clouds, OrderFacts DEF CloudOf

\* The ranges of v cover the indices of what derives from v, no others.
LEMMA RangesOfDescendants ==
  ASSUME InputInv, NEW r \in roots
  PROVE  VPtrRanges(r) = [v \in CloudOf(r) |-> Coalesced(Below(r, v))]
<1> DEFINE C == CloudOf(r)
           Own(f, v) == {Index(r, v)} \cup UNION {Covered(f[w]) : w \in ChildrenOf(v)}
           F == CHOOSE f : f = [v \in C |-> Coalesced(Own(f, v))]
           G == [v \in C |-> Coalesced(Below(r, v))]
<1>1. VPtrRanges(r) = [v \in C |-> F[v]]
  BY DEF VPtrRanges
<1>2. /\ C \subseteq VTables
      /\ \A v \in C : ChildrenOf(v) \subseteq C /\ Descendants(v) \subseteq C
  BY Clouds, CloudMembers
<1>3. ASSUME NEW v \in C
      PROVE  Covered(Coalesced(Below(r, v))) = Below(r, v)
  <2>1. Below(r, v) \in SUBSET (1 .. Len(CloudOrder(r)))
    BY <1>2, IndexFacts DEF Below
  <2>2. QED
    BY <2>1, IndexFacts, CoalescedCovers
<1>4. ASSUME NEW v \in C
      PROVE  Own(G, v) = Below(r, v)
  <2>1. Own(G, v) = {Index(r, v)} \cup UNION {Below(r, w) : w \in ChildrenOf(v)}
    BY <1>2, <1>3
  <2>2. Descendants(v) = {v} \cup UNION {Descendants(w) : w \in ChildrenOf(v)}
    BY <1>2, DescendantsOfChildren
  <2>3. Below(r, v) = {Index(r, v)} \cup UNION {Below(r, w) : w \in ChildrenOf(v)}
    BY <2>2 DEF Below
  <2>4. QED
    BY <2>1, <2>3
<1> HIDE DEF C
<1>5. G = [v \in C |-> Coalesced(Own(G, v))]
  BY <1>4
<1>6. F = [v \in C |-> Coalesced(Own(F, v))]
  <2> HIDE DEF G, Own
  <2>1. QED
    BY <1>5
<1> HIDE DEF F
<1>7. ASSUME NEW x \in C, F[x] # G[x]
      PROVE  FALSE
  <2>1. PICK h \in [VTables -> Nat] :
          \A v \in VTables : \A w \in ChildrenOf(v) : h[w] < h[v]
    BY Height
  <2> DEFINE Bad == {v \in C : F[v] # G[v]}
             T == {h[v] : v \in Bad}
  <2>2. T \subseteq Nat /\ T # {}
    BY <1>2, <1>7
  <2>3. PICK m \in T : \A y \in T : m <= y
    BY <2>2, LeastNat
  <2>4. PICK v \in Bad : m = h[v]
    BY <2>3
  <2>5. \A w \in ChildrenOf(v) : F[w] = G[w]
    <3> SUFFICES ASSUME NEW w \in ChildrenOf(v), F[w] # G[w]
                 PROVE  FALSE
      OBVIOUS
    <3>1. w \in Bad /\ v \in VTables
      BY <1>2
    <3>2. h[w] < h[v] /\ h[w] \in T
      BY <2>1, <3>1
    <3>3. h[w] \in Nat /\ h[v] \in Nat
      BY <1>2, <2>1, <3>1
    <3> HIDE DEF T, Bad
    <3>4. QED
      BY <2>3, <2>4, <3>2, <3>3
  <2>6. Own(F, v) = Own(G, v)
    BY <2>5
  <2>7. F[v] = Coalesced(Own(F, v)) /\ G[v] = Coalesced(Own(G, v))
    <3> HIDE DEF Own, G
    <3>1. QED
      BY <1>5, <1>6
  <2>8. QED
    BY <2>6, <2>7
<1>8. QED
  BY <1>1, <1>7 DEF C

\* The ranges of vptrs stay while the layout does.
LEMMA MemRangesUnchanged ==
  ASSUME program' = program, cha' = cha, UNCHANGED layout
  PROVE  \A r, R : MemRanges(r, R)' = MemRanges(r, R)
<1>1. newIndex' = newIndex /\ prePadMap' = prePadMap
  BY DEF layout
<1>2. QED
  BY <1>1 DEF MemRanges, isDefined, addrPt, first, newLayoutInds, CloudOrder, Order

LEMMA RangeStep ==
  ASSUME InputInv, CursorInv, TypeOK, RangeInv, [Next]_vars
  PROVE  RangeInv'
<1>1. program' = program /\ cha' = cha
  BY Phases
<1>2. /\ roots' = roots
      /\ \A r : CloudOf(r)' = CloudOf(r)
      /\ \A r, v : Below(r, v)' = Below(r, v)
  BY <1>1, InputUnchanged DEF Below
<1>3. CASE pc \in {"place", "emit"}
  <2>1. rangeMap' = EmptyMap /\ memRangeMap' = EmptyMap
    BY <1>3, Phases DEF RangeInv, ranges
  <2>2. pc' \in {"place", "emit", "range", "aborted"}
        /\ (pc' = "range" => todo' = roots /\ cloud' = NoCloud)
    BY <1>3 DEF Next, Place, StartCloud, OrderVTable, PadChildren, InterleaveCloud, FinishOrder,
       NextLoop, EmitCloud, CoalesceRanges, BuildMemRanges, VerifyNewLayouts, Finished, vars
  <2>3. DOMAIN EmptyMap = {}
    BY DEF EmptyMap
  <2>4. QED
    BY <1>2, <2>1, <2>2, <2>3 DEF RangeInv
<1>4. CASE pc \notin {"place", "emit"}
  <2>1. UNCHANGED layout /\ pc' # "place"
    BY <1>4, Phases
  <2>2. \A r, R : MemRanges(r, R)' = MemRanges(r, R)
    BY <1>1, <2>1, MemRangesUnchanged
  <2>3. CASE \E r \in todo : CoalesceRanges(r)
    <3>1. PICK r \in todo : CoalesceRanges(r)
      BY <2>3
    <3>2. /\ pc = "range" /\ pc' = "range" /\ cloud = NoCloud /\ cloud' = r
          /\ todo' = todo \ {r} /\ memRangeMap' = memRangeMap
          /\ rangeMap' = Merge(rangeMap, VPtrRanges(r))
      BY <3>1 DEF CoalesceRanges
    <3>3. r \in roots /\ VPtrRanges(r) = [v \in CloudOf(r) |-> Coalesced(Below(r, v))]
      BY RangesOfDescendants DEF TypeOK
    <3>4. \A s \in roots : \A v \in CloudOf(s) :
            v \in DOMAIN rangeMap' => rangeMap'[v] = Coalesced(Below(s, v))
      <4>1. \A s \in roots : \A v \in CloudOf(s) : v \in CloudOf(r) => s = r
        BY <3>3, Clouds
      <4>2. QED
        BY <3>2, <3>3, <4>1 DEF Merge, RangeInv
    <3>5. CloudOf(r) \subseteq DOMAIN rangeMap'
      BY <3>2, <3>3 DEF Merge
    <3>6. \A s \in roots \ (todo' \cup {cloud'}) : CloudOf(s) \subseteq DOMAIN memRangeMap
      BY <3>2, InputFacts DEF RangeInv
    <3>7. QED
      BY <1>2, <2>2, <3>2, <3>3, <3>4, <3>5, <3>6 DEF RangeInv
  <2>4. CASE BuildMemRanges
    <3>1. /\ pc = "range" /\ pc' \in {"range", "aborted"} /\ cloud # NoCloud /\ cloud' = NoCloud
          /\ todo' = todo /\ rangeMap' = rangeMap
          /\ memRangeMap' = Merge(memRangeMap,
                              [v \in CloudOf(cloud) |-> MemRanges(cloud, rangeMap[v])])
      BY <2>4 DEF BuildMemRanges
    <3>2. /\ cloud \in roots
          /\ \A v \in CloudOf(cloud) : rangeMap[v] = Coalesced(Below(cloud, v))
      BY <3>1 DEF RangeInv
    <3>3. \A s \in roots : \A v \in CloudOf(s) : v \in CloudOf(cloud) => s = cloud
      BY <3>2, Clouds
    <3>4. \A s \in roots : \A v \in CloudOf(s) :
            v \in DOMAIN memRangeMap' => memRangeMap'[v] = MemRanges(s, Coalesced(Below(s, v)))
      BY <3>1, <3>2, <3>3 DEF Merge, RangeInv
    <3>5. \A s \in roots \ todo : CloudOf(s) \subseteq DOMAIN memRangeMap'
      BY <3>1, <3>2 DEF Merge, RangeInv
    <3>6. QED
      BY <1>2, <2>2, <3>1, <3>4, <3>5 DEF RangeInv
  <2>5. CASE ~ (\E r \in todo : CoalesceRanges(r)) /\ ~ BuildMemRanges
    <3>1. /\ ranges' = ranges
          /\ \/ pc' = pc /\ UNCHANGED <<todo, cloud>>
             \/ pc' = "verify" /\ pc = "range" /\ todo = {} /\ cloud = NoCloud
             \/ pc' = "aborted"
             \/ pc' = "done" /\ pc = "verify"
      BY <1>4, <2>5 DEF Next, Place, StartCloud, OrderVTable, PadChildren, InterleaveCloud,
         FinishOrder, NextLoop, EmitCloud, VerifyNewLayouts, Finished, vars
    <3>2. QED
      BY <1>2, <1>4, <2>2, <3>1, InputFacts DEF RangeInv, ranges
  <2>6. QED
    BY <2>3, <2>4, <2>5
<1>5. QED
  BY <1>3, <1>4

LEMMA VerifiedStep ==
  ASSUME InputInv, VerifiedInv, [Next]_vars
  PROVE  VerifiedInv'
<1>1. program' = program /\ cha' = cha
  BY Phases
<1> SUFFICES ASSUME pc' = "done", program.interleave
             PROVE  \A r \in roots : CloudVerified(r)'
  BY <1>1, InputUnchanged DEF VerifiedInv
<1>2. /\ \A r \in roots : CloudVerified(r)
      /\ pc # "place"
  <2>1. VerifyNewLayouts \/ pc = "done"
    BY DEF Next, Place, StartCloud, OrderVTable, PadChildren, InterleaveCloud, FinishOrder,
       NextLoop, EmitCloud, CoalesceRanges, BuildMemRanges, Finished, vars
  <2>2. QED
    BY <2>1 DEF VerifyNewLayouts, VerifiedInv
<1>3. newIndex' = newIndex /\ prePadMap' = prePadMap
  BY <1>2, Phases DEF layout
<1>4. ASSUME NEW r \in roots
      PROVE  CloudVerified(r)' <=> CloudVerified(r)
  <2> USE <1>1, <1>3, InputUnchanged
  <2>1. \A v : Entries(v)' = Entries(v) /\ Depth(v)' = Depth(v)
    BY DEF Entries, Depth
  <2>2. Dense(r)' <=> Dense(r)
    BY <2>1 DEF Dense
  <2>3. DefinedPairs(r)' = DefinedPairs(r)
    BY DEF DefinedPairs
  <2>4. \A p, c : Contained(p, c)' <=> Contained(p, c)
    BY <2>1 DEF Contained
  <2>5. \A p, c : SameOffsets(p, c)' <=> SameOffsets(p, c)
    BY <2>1 DEF SameOffsets
  <2>6. QED
    BY <2>2, <2>3, <2>4, <2>5 DEF CloudVerified
<1>5. QED
  BY <1>2, <1>4

------------------------------------------------------------------------------
(* Type correctness                                                          *)

\* The preorder indices of a range that have a defined vtable.
DefinedAt(r, q) == {k \in q[1] .. q[2] - 1 : isDefined(CloudOrder(r)[k])}

\* A run of the ranges of v that holds defined vtables begins with one of them.
LEMMA RunFacts ==
  ASSUME InputInv, NEW r \in roots, NEW v \in CloudOf(r), NEW q \in Coalesced(Below(r, v)),
         DefinedAt(r, q) # {}
  PROVE  LET D == DefinedAt(r, q) IN
         /\ q[1] \in Nat /\ q[2] \in Nat
         /\ D \subseteq 1 .. Len(CloudOrder(r)) /\ IsFiniteSet(D) /\ Cardinality(D) \in Nat
         /\ Min(D) \in D /\ \A k \in D : Min(D) <= k
         /\ \A k \in D : /\ CloudOrder(r)[k] \in DefinedIn(r)
                         /\ CloudOrder(r)[k] \in Descendants(v)
                         /\ Index(r, CloudOrder(r)[k]) = k
<1> DEFINE D == DefinedAt(r, q)
<1>1. q[1] \in Below(r, v) /\ q[2] \in {i + 1 : i \in Below(r, v)}
      /\ q[1] .. q[2] - 1 \subseteq Below(r, v)
  BY DEF Coalesced
<1>2. /\ v \in VTables /\ \A w \in Descendants(v) : w \in CloudOf(r)
  BY Clouds, OrderFacts, CloudMembers
<1>3. /\ Len(CloudOrder(r)) \in Nat
      /\ Below(r, v) \subseteq 1 .. Len(CloudOrder(r))
      /\ \A k \in Below(r, v) : /\ CloudOrder(r)[k] \in Descendants(v)
                                /\ CloudOrder(r)[k] \in CloudOf(r)
                                /\ Index(r, CloudOrder(r)[k]) = k
  BY <1>2, IndexFacts DEF Below
<1>4. D \subseteq Below(r, v) /\ \A k \in D : isDefined(CloudOrder(r)[k])
  BY <1>1 DEF DefinedAt
<1> HIDE DEF D
<1>5. D \subseteq Nat /\ D \in SUBSET (1 .. Len(CloudOrder(r)))
  BY <1>3, <1>4
<1>6. IsFiniteSet(D) /\ Cardinality(D) \in Nat
  <2>1. IsFiniteSet(1 .. Len(CloudOrder(r)))
    BY <1>3, FS_Interval
  <2>2. QED
    BY <1>5, <2>1, FS_Subset, FS_CardinalityType
<1>7. Min(D) \in D /\ \A k \in D : Min(D) <= k
  BY <1>5, MinOfNats DEF D
<1>8. q[1] \in Nat /\ q[2] \in Nat
  BY <1>1, <1>3
<1>9. QED
  BY <1>3, <1>4, <1>5, <1>6, <1>7, <1>8 DEF DefinedIn, D

\* The entries of a cloud are finitely many.
LEMMA CloudEntriesFinite ==
  ASSUME InputInv, prePadMap \in [VTables -> Nat], NEW r \in roots
  PROVE  /\ IsFiniteSet(CloudEntries(r))
         /\ CloudEntries(r) \subseteq CloudOf(r) \X Int
         /\ \A e : Rank(r, e) \in Nat
<1> DEFINE f == [v \in DefinedIn(r) |-> Entries(v)]
<1>1. \A v \in DefinedIn(r) : v \in CloudOf(r) /\ v \in VTables
  BY Clouds DEF DefinedIn
<1>2. ASSUME NEW v \in DefinedIn(r)
      PROVE  IsFiniteSet(f[v]) /\ f[v] \subseteq CloudOf(r) \X Int
  <2>1. first(v) - prePadMap[v] \in Int /\ last(v) \in Int
    BY <1>1, RegionFacts
  <2>2. IsFiniteSet({v} \X (first(v) - prePadMap[v] .. last(v)))
    BY <2>1, FiniteStrip
  <2>3. QED
    BY <1>1, <2>1, <2>2 DEF Entries
<1>3. IsFiniteSet(DefinedIn(r))
  BY CloudFinite, FS_Subset DEF DefinedIn
<1>4. IsFiniteSet(UNION {f[v] : v \in DefinedIn(r)})
  <2>1. DOMAIN f = DefinedIn(r)
    OBVIOUS
  <2> HIDE DEF f
  <2>2. QED
    BY <1>2, <1>3, <2>1, FiniteUnion
<1>5. CloudEntries(r) = UNION {f[v] : v \in DefinedIn(r)}
  BY DEF CloudEntries
<1>6. ASSUME NEW e
      PROVE  Rank(r, e) \in Nat
  <2>1. IsFiniteSet({d \in CloudEntries(r) : Precedes(r, d, e)})
    BY <1>4, <1>5, FS_Subset
  <2>2. QED
    BY <2>1, FS_CardinalityType DEF Rank
<1>7. QED
  BY <1>2, <1>4, <1>5, <1>6

\* A vptr is an index, and a range of vptrs begins with one.
LEMMA StartIsIndex ==
  ASSUME InputInv, PlacedInv, prePadMap \in [VTables -> Nat],
         PartialMap(newIndex, VTables \X Int, Nat), pc # "place",
         NEW v \in VTables, isDefined(v)
  PROVE  newLayoutInds(v, addrPt(v) - first(v)) \in Nat
<1>1. v \in Placed
  BY AllPlaced
<1>2. 0 \in Int
  OBVIOUS
<1>3. QED
  BY <1>1, <1>2, StartOfTable, EntryPlaced

LEMMA MemRangesType ==
  ASSUME InputInv, PlacedInv, prePadMap \in [VTables -> Nat],
         PartialMap(newIndex, VTables \X Int, Nat), pc # "place",
         NEW r \in roots, NEW v \in CloudOf(r)
  PROVE  MemRanges(r, Coalesced(Below(r, v))) \subseteq [start : Nat, width : Nat]
<1> DEFINE x(q) == CloudOrder(r)[Min(DefinedAt(r, q))]
           start(u) == newLayoutInds(u, addrPt(u) - first(u))
<1>1. MemRanges(r, Coalesced(Below(r, v))) =
        {[start |-> start(x(q)), width |-> Cardinality(DefinedAt(r, q))] :
           q \in {p \in Coalesced(Below(r, v)) : DefinedAt(r, p) # {}}}
  BY DEF MemRanges, DefinedAt
<1>2. ASSUME NEW q \in Coalesced(Below(r, v)), DefinedAt(r, q) # {}
      PROVE  start(x(q)) \in Nat /\ Cardinality(DefinedAt(r, q)) \in Nat
  <2>1. x(q) \in DefinedIn(r) /\ Cardinality(DefinedAt(r, q)) \in Nat
    BY <1>2, RunFacts
  <2>2. x(q) \in VTables /\ isDefined(x(q))
    BY <2>1, Clouds DEF DefinedIn
  <2> HIDE DEF x
  <2>3. QED
    BY <2>1, <2>2, StartIsIndex
<1> HIDE DEF start, x
<1>3. QED
  BY <1>1, <1>2

\* The vtables that hold a thunk are defined and have the entry it reads.
LEMMA ThunkFacts ==
  ASSUME InputInv, NEW t \in program.thunks, NEW v \in t.in
  PROVE  /\ v \in VTables /\ isDefined(v) /\ t.offset \in Int
         /\ addrPt(v) + t.offset \in first(v) .. addrPt(v) - 1
<1>1. IsProgram(program) /\ VTables = Described(program.metadata)
  BY ProgramsAssumption, InputFacts DEF InputInv
<1>2. QED
  BY <1>1 DEF IsProgram, isDefined, addrPt, first

\* A translated offset is the distance of two entries of a defined vtable.
LEMMA TranslatedDistance ==
  ASSUME InputInv, prePadMap \in [VTables -> Nat],
         NEW v, NEW u \in VTables, u = Translated(v), NEW k \in Int
  PROVE  translateVtblInd(v, k) =
           newIndex[<<u, addrPt(u) + k - prePadMap[u]>>] - newIndex[<<u, addrPt(u) - prePadMap[u]>>]
<1>1. translateVtblInd(v, k) = newLayoutInds(u, addrPt(u) - first(u) + k)
                                 - newLayoutInds(u, addrPt(u) - first(u))
  BY DEF translateVtblInd
<1>2. QED
  BY <1>1, StartOfTable

\* The distance to the offset of a thunk is a number.
LEMMA TranslationType ==
  ASSUME InputInv, PlacedInv, prePadMap \in [VTables -> Nat],
         PartialMap(newIndex, VTables \X Int, Nat), pc # "place",
         NEW t \in program.thunks, NEW v \in t.in
  PROVE  translateVtblInd(v, t.offset) \in Int
<1> DEFINE k == t.offset  f == first(v)  a == addrPt(v)  z == last(v)  pad == prePadMap[v]
<1>1. v \in VTables /\ isDefined(v) /\ a + k \in f .. a - 1 /\ k \in Int
  BY ThunkFacts
<1>2. v \in Placed /\ v = Translated(v)
  BY <1>1, AllPlaced DEF Translated
<1>3. f \in Nat /\ a \in Nat /\ z \in Nat /\ a <= z /\ pad \in Nat
  BY <1>1, RegionFacts
<1>4. translateVtblInd(v, k) = newIndex[<<v, a + k - pad>>] - newIndex[<<v, a - pad>>]
  BY <1>1, <1>2, TranslatedDistance
<1> HIDE DEF k
<1>5. a + k - pad \in f - pad .. z /\ a - pad \in f - pad .. z
  <2> HIDE DEF f, a, z, pad
  <2>1. QED
    BY <1>1, <1>3
<1>6. newIndex[<<v, a + k - pad>>] \in Nat /\ newIndex[<<v, a - pad>>] \in Nat
  BY <1>2, <1>5, EntryPlaced
<1>7. translateVtblInd(v, k) \in Int
  BY <1>4, <1>6
<1>8. QED
  BY <1>7 DEF k

\* The entries get natural numbers.
LEMMA NewIndexType ==
  ASSUME InputInv, CursorInv, TypeOK, [Next]_vars
  PROVE  PartialMap(newIndex', VTables \X Int, Nat)
<1>1. CASE \E v \in VTables : OrderVTable(v) /\ isDefined(v)
  <2>1. PICK v \in VTables : OrderVTable(v) /\ isDefined(v)
    BY <1>1
  <2>2. PICK base \in Nat :
          newIndex' = Merge(newIndex, [e \in {v} \X (first(v) .. last(v)) |->
                                         base + e[2] - first(v)])
    BY <2>1, OrderStep
  <2> DEFINE g == [e \in {v} \X (first(v) .. last(v)) |-> base + e[2] - first(v)]
  <2>3. \A i \in first(v) .. last(v) : i \in Int /\ base + i - first(v) \in Nat
    BY RegionFacts
  <2>4. PartialMap(g, VTables \X Int, Nat)
    <3>1. \A e \in {v} \X (first(v) .. last(v)) :
            e \in VTables \X Int /\ base + e[2] - first(v) \in Nat
      BY <2>3
    <3>2. QED
      BY <3>1 DEF PartialMap
  <2> HIDE DEF g
  <2>5. PartialMap(newIndex, VTables \X Int, Nat)
    BY DEF TypeOK
  <2>6. newIndex' = Merge(newIndex, g)
    BY <2>2 DEF g
  <2>7. QED
    BY <2>4, <2>5, <2>6, MergeType
<1>2. CASE InterleaveCloud
  <2> DEFINE g == [e \in CloudEntries(cloud) |-> Rank(cloud, e)]
  <2>1. cloud \in roots /\ newIndex' = Merge(newIndex, g)
    BY <1>2, InterleaveStep
  <2>2. PartialMap(g, VTables \X Int, Nat)
    <3>1. /\ CloudEntries(cloud) \subseteq VTables \X Int
          /\ \A e \in CloudEntries(cloud) : Rank(cloud, e) \in Nat
      <4>1. prePadMap \in [VTables -> Nat]
        BY DEF TypeOK
      <4>2. CloudEntries(cloud) \subseteq CloudOf(cloud) \X Int /\ \A e : Rank(cloud, e) \in Nat
        BY <2>1, <4>1, CloudEntriesFinite
      <4>3. CloudOf(cloud) \subseteq VTables
        BY <2>1, Clouds
      <4>4. QED
        BY <4>2, <4>3
    <3>2. QED
      BY <3>1 DEF PartialMap
  <2> HIDE DEF g
  <2>3. PartialMap(newIndex, VTables \X Int, Nat)
    BY DEF TypeOK
  <2>4. QED
    BY <2>1, <2>2, <2>3, MergeType
<1>3. CASE /\ ~ (\E v \in VTables : OrderVTable(v) /\ isDefined(v))
           /\ ~ InterleaveCloud
  <2>1. newIndex' = newIndex
    BY <1>3 DEF Next, Place, StartCloud, OrderVTable, PadChildren, FinishOrder, NextLoop,
       EmitCloud, CoalesceRanges, BuildMemRanges, VerifyNewLayouts, Finished, vars, layout
  <2>2. QED
    BY <2>1 DEF TypeOK
<1>4. QED
  BY <1>1, <1>2, <1>3

\* So do the pads.
LEMMA PadsType ==
  ASSUME InputInv, TypeOK, [Next]_vars
  PROVE  prePadMap' \in [VTables -> Nat]
<1>1. CASE \E v \in VTables : PadChildren(v)
  <2>1. PICK v \in VTables : PadChildren(v)
    BY <1>1
  <2>2. prePadMap' = [w \in VTables |->
             IF isDefined(v) /\ w \in LaterChildren(cloud, v) /\ Depth(v) > Depth(w)
             THEN Depth(v) - Depth(w) ELSE prePadMap[w]]
    BY <2>1 DEF PadChildren
  <2>3. \A w \in VTables : Depth(w) \in Nat /\ prePadMap[w] \in Nat
    BY RegionFacts DEF Depth, TypeOK
  <2>4. \A w \in VTables : Depth(v) > Depth(w) => Depth(v) - Depth(w) \in Nat
    BY <2>3
  <2>5. QED
    BY <2>2, <2>3, <2>4
<1>2. CASE ~ (\E v \in VTables : PadChildren(v))
  <2>1. prePadMap' = prePadMap
    BY <1>2 DEF Next, Place, StartCloud, OrderVTable, InterleaveCloud, FinishOrder, NextLoop,
       EmitCloud, CoalesceRanges, BuildMemRanges, VerifyNewLayouts, Finished, vars, layout
  <2>2. QED
    BY <2>1 DEF TypeOK
<1>3. QED
  BY <1>1, <1>2

\* What the second loop adds is typed.
LEMMA EmittedType ==
  ASSUME InputInv, CursorInv, TypeOK, PlacedInv, [Next]_vars
  PROVE  /\ PartialMap(thunkIndex', program.thunks \X roots, Int)
         /\ PartialMap(vptr', VTables, Nat)
<1>1. CASE \E r \in todo : EmitCloud(r)
  <2>1. PICK r \in todo : EmitCloud(r)
    BY <1>1
  <2> DEFINE g == [v \in {w \in CloudOf(r) : isDefined(w)} |->
                     newLayoutInds(v, addrPt(v) - first(v))]
  <2>2. /\ pc = "emit" /\ thunkIndex' = Merge(thunkIndex, ThunkIndices(r))
        /\ vptr' = vptr \/ vptr' = Merge(vptr, g)
    BY <2>1 DEF EmitCloud
  <2>3. r \in roots
    BY DEF TypeOK
  <2>4. PartialMap(g, VTables, Nat)
    <3>1. \A v \in CloudOf(r) : isDefined(v) => newLayoutInds(v, addrPt(v) - first(v)) \in Nat
      BY <2>2, <2>3, Clouds, StartIsIndex DEF TypeOK
    <3>2. CloudOf(r) \subseteq VTables
      BY <2>3, Clouds
    <3>3. QED
      BY <3>1, <3>2 DEF PartialMap
  <2>5. PartialMap(ThunkIndices(r), program.thunks \X roots, Int)
    <3>1. ASSUME NEW k \in DOMAIN ThunkIndices(r)
          PROVE  k \in program.thunks \X roots /\ ThunkIndices(r)[k] \in Int
      <4>1. k \in program.thunks \X roots
        BY <2>3, ThunkStep
      <4>2. PICK a \in Holders(k[1], k[2]) :
              ThunkIndices(r)[k] = translateVtblInd(a, k[1].offset)
        BY <2>3, ThunkStep
      <4>3. a \in VTables /\ isDefined(a) /\ a \in k[1].in /\ k[1] \in program.thunks
        BY <4>1, ThunkFacts DEF Holders
      <4> DEFINE t == k[1]
      <4>4. t \in program.thunks /\ a \in t.in
        BY <4>3
      <4> HIDE DEF t
      <4>5. translateVtblInd(a, t.offset) \in Int
        BY <2>2, <4>4, TranslationType DEF TypeOK
      <4>6. QED
        BY <4>1, <4>2, <4>5 DEF t
    <3>2. ThunkIndices(r) = [k \in DOMAIN ThunkIndices(r) |-> ThunkIndices(r)[k]]
      BY <2>3, ThunkStep
    <3>3. QED
      BY <3>1, <3>2 DEF PartialMap
  <2> HIDE DEF g
  <2>6. QED
    BY <2>2, <2>4, <2>5, MergeType DEF TypeOK
<1>2. CASE ~ (\E r \in todo : EmitCloud(r))
  <2>1. vptr' = vptr /\ thunkIndex' = thunkIndex
    BY <1>2 DEF Next, Place, StartCloud, OrderVTable, PadChildren, InterleaveCloud, FinishOrder,
       NextLoop, CoalesceRanges, BuildMemRanges, VerifyNewLayouts, Finished, vars, emitted
  <2>2. QED
    BY <2>1 DEF TypeOK
<1>3. QED
  BY <1>1, <1>2

\* So is what the third loop adds.
LEMMA RangesType ==
  ASSUME InputInv, CursorInv, TypeOK, PlacedInv, RangeInv, [Next]_vars
  PROVE  /\ PartialMap(rangeMap', VTables, SUBSET (Nat \X Nat))
         /\ PartialMap(memRangeMap', VTables, SUBSET [start : Nat, width : Nat])
<1>1. CASE \E r \in todo : CoalesceRanges(r)
  <2>1. PICK r \in todo : CoalesceRanges(r)
    BY <1>1
  <2> DEFINE g == [v \in CloudOf(r) |-> Coalesced(Below(r, v))]
  <2>2. r \in roots /\ VPtrRanges(r) = g
    BY RangesOfDescendants DEF TypeOK
  <2>3. rangeMap' = Merge(rangeMap, g) /\ memRangeMap' = memRangeMap
    BY <2>1, <2>2 DEF CoalesceRanges
  <2>4. PartialMap(g, VTables, SUBSET (Nat \X Nat))
    <3>1. CloudOf(r) \subseteq VTables
      BY <2>2, Clouds
    <3>2. ASSUME NEW v \in CloudOf(r)
          PROVE  Coalesced(Below(r, v)) \subseteq Nat \X Nat
      <4>1. Below(r, v) \subseteq Nat
        BY <2>2, CloudMembers, IndexFacts DEF Below
      <4>2. QED
        BY <4>1 DEF Coalesced
    <3>3. QED
      BY <3>1, <3>2 DEF PartialMap
  <2> HIDE DEF g
  <2>5. QED
    BY <2>3, <2>4, MergeType DEF TypeOK
<1>2. CASE BuildMemRanges
  <2> DEFINE g == [v \in CloudOf(cloud) |-> MemRanges(cloud, rangeMap[v])]
  <2>1. /\ pc = "range" /\ cloud # NoCloud /\ rangeMap' = rangeMap
        /\ memRangeMap' = Merge(memRangeMap, g)
    BY <1>2 DEF BuildMemRanges
  <2>2. /\ cloud \in roots
        /\ \A v \in CloudOf(cloud) : rangeMap[v] = Coalesced(Below(cloud, v))
    BY <2>1 DEF RangeInv
  <2>3. PartialMap(g, VTables, SUBSET [start : Nat, width : Nat])
    <3>1. CloudOf(cloud) \subseteq VTables
      BY <2>2, Clouds
    <3>2. \A v \in CloudOf(cloud) :
            MemRanges(cloud, rangeMap[v]) \subseteq [start : Nat, width : Nat]
      BY <2>1, <2>2, MemRangesType DEF TypeOK
    <3>3. QED
      BY <3>1, <3>2 DEF PartialMap
  <2> HIDE DEF g
  <2>4. QED
    BY <2>1, <2>3, MergeType DEF TypeOK
<1>3. CASE ~ (\E r \in todo : CoalesceRanges(r)) /\ ~ BuildMemRanges
  <2>1. ranges' = ranges
    BY <1>3 DEF Next, Place, StartCloud, OrderVTable, PadChildren, InterleaveCloud, FinishOrder,
       NextLoop, EmitCloud, VerifyNewLayouts, Finished, vars
  <2>2. QED
    BY <2>1 DEF TypeOK, ranges
<1>4. QED
  BY <1>1, <1>2, <1>3

\* The types of what is read from the input.
LEMMA InputType ==
  ASSUME InputInv
  PROVE  /\ program.region \in [VTables -> Region]
         /\ cha \in [children : [VTables -> SUBSET VTables],
                     roots    : SUBSET Class,
                     preorder : [VTables -> Seq(VTables)]]
<1> DEFINE md == program.metadata
<1>1. /\ cha = [children |-> [v \in VTables |-> Children(md, v)],
                roots |-> RootClasses(md),
                preorder |-> [v \in VTables |-> Preorder(md, v)]]
      /\ VTables = Described(md)
  BY InputFacts DEF InputInv, ClassHierarchy
<1>2. \A v \in VTables : Children(md, v) \subseteq VTables
  BY <1>1 DEF Children
<1>3. ASSUME NEW v \in VTables
      PROVE  Preorder(md, v) \in Seq(VTables)
  <2>1. Order(v) = Preorder(md, v)
    BY <1>1 DEF Order
  <2>2. QED
    BY <2>1, OrderFacts
<1>4. RootClasses(md) \subseteq Class
  BY InputFacts
<1> HIDE DEF md
<1>5. QED
  BY <1>1, <1>2, <1>3, <1>4, InputFacts

\* The rest of the variables.
LEMMA CursorType ==
  ASSUME InputInv, CursorInv, TypeOK, [Next]_vars
  PROVE  /\ pc' \in {"place", "emit", "range", "verify", "done", "aborted"}
         /\ todo' \subseteq roots
         /\ cloud' \in roots \cup {NoCloud}
         /\ queue' \in Seq(VTables)
         /\ filled' \in Nat
         /\ PartialMap(alignmentMap', roots, Nat \ {0})
<1>1. CASE \E r \in todo : StartCloud(r)
  <2>1. PICK r \in todo : StartCloud(r)
    BY <1>1
  <2> DEFINE n == IF program.interleave THEN 1 ELSE RoundedSize(r)
             g == [c \in {r} |-> n]
  <2>2. /\ pc' = pc /\ todo' = todo \ {r} /\ cloud' = r /\ queue' = CloudOrder(r) /\ filled' = 0
        /\ alignmentMap' = Merge(alignmentMap, g)
    BY <2>1 DEF StartCloud
  <2>3. r \in roots
    BY DEF TypeOK
  <2>4. CloudOrder(r) \in Seq(VTables)
    BY <2>3, IndexFacts
  <2>5. n \in Nat \ {0}
    BY <2>3, RoundedSizeFits
  <2> HIDE DEF n
  <2>6. PartialMap(g, roots, Nat \ {0})
    BY <2>3, <2>5 DEF PartialMap
  <2> HIDE DEF g
  <2>7. QED
    BY <2>2, <2>3, <2>4, <2>6, MergeType DEF TypeOK
<1>2. CASE \E v \in VTables : OrderVTable(v)
  <2>1. PICK v \in VTables : OrderVTable(v)
    BY <1>2
  <2>2. /\ pc = "place" /\ queue # <<>> /\ queue' = Tail(queue)
        /\ UNCHANGED <<pc, todo, cloud, alignmentMap>>
        /\ isDefined(v) \/ filled' = filled
    BY <2>1 DEF OrderVTable
  <2>3. queue' \in Seq(VTables)
    BY <2>2, HeadOfQueue DEF TypeOK
  <2>4. filled' \in Nat
    <3>1. CASE isDefined(v)
      <4>1. \E base \in Nat : filled' = base + Size(v)
        BY <2>1, <3>1, OrderStep
      <4>2. Size(v) \in Nat
        BY RegionFacts DEF Size
      <4>3. QED
        BY <4>1, <4>2
    <3>2. CASE ~ isDefined(v)
      BY <2>2, <3>2 DEF TypeOK
    <3>3. QED
      BY <3>1, <3>2
  <2>5. QED
    BY <2>2, <2>3, <2>4 DEF TypeOK
<1>3. CASE \E v \in VTables : PadChildren(v)
  <2>1. /\ pc = "place" /\ queue # <<>> /\ queue' = Tail(queue)
        /\ UNCHANGED <<pc, todo, cloud, filled, alignmentMap>>
    BY <1>3 DEF PadChildren
  <2>2. queue' \in Seq(VTables)
    BY <2>1, HeadOfQueue DEF TypeOK
  <2>3. QED
    BY <2>1, <2>2 DEF TypeOK
<1>4. CASE InterleaveCloud \/ FinishOrder
  BY <1>4 DEF InterleaveCloud, FinishOrder, TypeOK, layout
<1>5. CASE NextLoop
  BY <1>5 DEF NextLoop, TypeOK, layout
<1>6. CASE \E r \in todo : EmitCloud(r) \/ CoalesceRanges(r)
  <2>1. /\ \E r \in todo : todo' = todo \ {r} /\ cloud' \in {cloud, r}
        /\ pc' \in {pc, "aborted"}
        /\ UNCHANGED <<queue, filled, alignmentMap>>
    BY <1>6 DEF EmitCloud, CoalesceRanges, layout
  <2>2. QED
    BY <2>1 DEF TypeOK
<1>7. CASE BuildMemRanges
  BY <1>7 DEF BuildMemRanges, TypeOK, layout
<1>8. CASE VerifyNewLayouts
  BY <1>8 DEF VerifyNewLayouts, TypeOK, layout
<1>9. CASE Finished \/ UNCHANGED vars
  BY <1>9 DEF Finished, vars, TypeOK, layout
<1>10. QED
  BY <1>1, <1>2, <1>3, <1>4, <1>5, <1>6, <1>7, <1>8, <1>9 DEF Next, Place

------------------------------------------------------------------------------
(* The invariant                                                             *)

\* The inductive invariant.
IInv ==
  /\ InputInv /\ TypeOK /\ CursorInv
  /\ PlacedInv /\ OrderedInv /\ RankedInv
  /\ EmitInv /\ RangeInv /\ VerifiedInv

LEMMA InitInvariant == Init => IInv
<1> SUFFICES ASSUME Init
             PROVE  IInv
  OBVIOUS
<1>1. InputInv
  BY DEF Init, InputInv
<1>2. /\ pc = "place" /\ todo = roots /\ cloud = NoCloud /\ queue = <<>> /\ filled = 0
      /\ prePadMap = [v \in VTables |-> 0]
      /\ alignmentMap = EmptyMap /\ newIndex = EmptyMap /\ thunkIndex = EmptyMap
      /\ vptr = EmptyMap /\ rangeMap = EmptyMap /\ memRangeMap = EmptyMap
  BY DEF Init
<1>3. \A S, T : PartialMap(EmptyMap, S, T)
  BY DEF PartialMap, EmptyMap
<1>4. DOMAIN EmptyMap = {}
  BY DEF EmptyMap
<1>5. TypeOK
  <2>1. queue \in Seq(VTables)
    BY <1>2
  <2>2. prePadMap \in [VTables -> Nat]
    BY <1>2
  <2>3. QED
    BY <1>1, <1>2, <1>3, <2>1, <2>2, InputType DEF TypeOK
<1>6. CursorInv
  BY <1>2, <1>4 DEF CursorInv
<1>7. ASSUME NEW r \in roots
      PROVE  PlacedUpTo(r) = 0 /\ PlacedIn(r) = {}
  <2>1. PlacedUpTo(r) = 0
    BY <1>1, <1>2, InputFacts DEF PlacedUpTo
  <2>2. QED
    BY <1>1, <2>1, IndexFacts DEF PlacedIn, DefinedIn
<1>8. PlacedInv
  BY <1>2, <1>4, <1>7 DEF PlacedInv, Placed
<1>9. OrderedInv /\ RankedInv
  BY <1>2, <1>4, <1>7 DEF OrderedInv, RankedInv
<1>10. EmitInv /\ RangeInv /\ VerifiedInv
  BY <1>2, <1>4 DEF EmitInv, RangeInv, VerifiedInv
<1>11. QED
  BY <1>1, <1>5, <1>6, <1>8, <1>9, <1>10 DEF IInv

LEMMA NextInvariant == IInv /\ [Next]_vars => IInv'
<1> SUFFICES ASSUME IInv, [Next]_vars
             PROVE  IInv'
  OBVIOUS
<1>1. /\ InputInv /\ TypeOK /\ CursorInv
      /\ PlacedInv /\ OrderedInv /\ RankedInv
      /\ EmitInv /\ RangeInv /\ VerifiedInv
  BY DEF IInv
<1>2. InputInv' /\ CursorInv'
  BY <1>1, CursorStep DEF TypeOK
<1>3. PlacedInv' /\ OrderedInv' /\ RankedInv'
  BY <1>1, PlacedStep, OrderedStep, RankedStep
<1>4. EmitInv' /\ RangeInv' /\ VerifiedInv'
  BY <1>1, EmitStep, RangeStep, VerifiedStep
<1>5. TypeOK'
  <2>1. program' = program /\ VTables' = VTables /\ roots' = roots
    BY Phases, InputUnchanged
  <2>2. (program.region \in [VTables -> Region])'
        /\ (cha \in [children : [VTables -> SUBSET VTables],
                     roots    : SUBSET Class,
                     preorder : [VTables -> Seq(VTables)]])'
    BY <1>2, InputType, PTL
  <2>3. /\ pc' \in {"place", "emit", "range", "verify", "done", "aborted"}
        /\ todo' \subseteq roots
        /\ cloud' \in roots \cup {NoCloud}
        /\ queue' \in Seq(VTables)
        /\ filled' \in Nat
        /\ PartialMap(alignmentMap', roots, Nat \ {0})
    BY <1>1, CursorType
  <2>4. prePadMap' \in [VTables -> Nat] /\ PartialMap(newIndex', VTables \X Int, Nat)
    BY <1>1, PadsType, NewIndexType
  <2>5. /\ PartialMap(thunkIndex', program.thunks \X roots, Int)
        /\ PartialMap(vptr', VTables, Nat)
    BY <1>1, EmittedType
  <2>6. /\ PartialMap(rangeMap', VTables, SUBSET (Nat \X Nat))
        /\ PartialMap(memRangeMap', VTables, SUBSET [start : Nat, width : Nat])
    BY <1>1, RangesType
  <2>7. QED
    BY <2>1, <2>2, <2>3, <2>4, <2>5, <2>6 DEF TypeOK, PartialMap
<1>6. QED
  BY <1>2, <1>3, <1>4, <1>5 DEF IInv

\* Every state of the layout builder satisfies the invariant.
THEOREM Invariant == Spec => []IInv
BY InitInvariant, NextInvariant, PTL DEF Spec

\* The maps of the layout builder are typed: indices and vptrs are natural
\* numbers, alignments positive, and nothing outside the hierarchy is laid out.
THEOREM TypeCorrect == Spec => []TypeOK
<1>1. IInv => TypeOK
  BY DEF IInv
<1>2. QED
  BY <1>1, Invariant, PTL

------------------------------------------------------------------------------
(* Nothing is lost or overwritten                                            *)

\* The row of an entry, from the address point of its vtable.
Row(e) == e[2] - addrPt(e[1])

\* The rows of a cloud, each in preorder, are a strict order of its entries.
LEMMA RowOrder ==
  ASSUME InputInv, prePadMap \in [VTables -> Nat], NEW r \in roots,
         NEW c \in CloudEntries(r), NEW d \in CloudEntries(r), NEW e \in CloudEntries(r)
  PROVE  /\ Row(c) \in Int /\ Index(r, c[1]) \in Nat /\ c[1] \in DefinedIn(r)
         /\ Precedes(r, c, d) <=> \/ Row(c) < Row(d)
                                  \/ Row(c) = Row(d) /\ Index(r, c[1]) < Index(r, d[1])
         /\ ~ Precedes(r, c, c)
         /\ Precedes(r, c, d) /\ Precedes(r, d, e) => Precedes(r, c, e)
         /\ c = d \/ Precedes(r, c, d) \/ Precedes(r, d, c)
         /\ Row(c) = Row(d) /\ c[1] = d[1] => c = d
<1>1. ASSUME NEW x \in CloudEntries(r)
      PROVE  /\ x[1] \in DefinedIn(r) /\ x[1] \in VTables /\ x[2] \in Int /\ x = <<x[1], x[2]>>
             /\ addrPt(x[1]) \in Nat /\ Row(x) \in Int
             /\ Index(r, x[1]) \in Nat
  <2>1. x \in CloudOf(r) \X Int
    BY CloudEntriesFinite
  <2>2. x[1] \in VTables
    BY <2>1, Clouds
  <2>3. addrPt(x[1]) \in Nat
    BY <2>2, RegionFacts
  <2>4. Index(r, x[1]) \in Nat
    BY <2>1, IndexFacts
  <2>5. x[1] \in DefinedIn(r)
    BY DEF CloudEntries, Entries
  <2>6. QED
    BY <2>1, <2>2, <2>3, <2>4, <2>5 DEF Row
<1>2. \A x, y : Precedes(r, x, y) <=>
                   \/ Row(x) < Row(y)
                   \/ Row(x) = Row(y) /\ Index(r, x[1]) < Index(r, y[1])
  BY DEF Precedes, Row
<1>3. ASSUME NEW x \in CloudEntries(r), NEW y \in CloudEntries(r),
             Row(x) = Row(y), Index(r, x[1]) = Index(r, y[1])
      PROVE  x = y
  <2>1. x[1] = y[1]
    BY <1>1, <1>3, IndexFacts DEF DefinedIn
  <2>2. x[2] = y[2]
    BY <1>1, <1>3, <2>1 DEF Row
  <2>3. QED
    BY <1>1, <2>1, <2>2
<1> HIDE DEF Row
<1>4. ~ Precedes(r, c, c)
  BY <1>1, <1>2
<1>5. Precedes(r, c, d) /\ Precedes(r, d, e) => Precedes(r, c, e)
  BY <1>1, <1>2
<1>6. c = d \/ Precedes(r, c, d) \/ Precedes(r, d, c)
  BY <1>1, <1>2, <1>3
<1>7. QED
  BY <1>1, <1>2, <1>3, <1>4, <1>5, <1>6

\* The rank grows by the number of entries in between.
LEMMA RankDistance ==
  ASSUME InputInv, prePadMap \in [VTables -> Nat], NEW r \in roots,
         NEW d \in CloudEntries(r), NEW e \in CloudEntries(r), d = e \/ Precedes(r, d, e)
  PROVE  LET between == {c \in CloudEntries(r) : ~ Precedes(r, c, d) /\ Precedes(r, c, e)} IN
         /\ IsFiniteSet(between) /\ Cardinality(between) \in Nat
         /\ Rank(r, e) = Rank(r, d) + Cardinality(between)
         /\ Precedes(r, d, e) => d \in between
<1> DEFINE A == {c \in CloudEntries(r) : Precedes(r, c, d)}
           B == {c \in CloudEntries(r) : Precedes(r, c, e)}
           M == {c \in CloudEntries(r) : ~ Precedes(r, c, d) /\ Precedes(r, c, e)}
<1>1. IsFiniteSet(CloudEntries(r))
  BY CloudEntriesFinite
<1>2. IsFiniteSet(A) /\ IsFiniteSet(M)
  BY <1>1, FS_Subset
<1>3. Cardinality(A) \in Nat /\ Cardinality(M) \in Nat
  BY <1>2, FS_CardinalityType
<1>4. B = A \cup M /\ A \cap M = {}
  <2>1. \A c \in CloudEntries(r) : Precedes(r, c, d) => Precedes(r, c, e)
    BY RowOrder
  <2>2. QED
    BY <2>1
<1>5. Precedes(r, d, e) => d \in M
  BY RowOrder
<1>6. Rank(r, d) = Cardinality(A) /\ Rank(r, e) = Cardinality(B)
  BY DEF Rank
<1> HIDE DEF A, B, M
<1>7. Cardinality(A \cup M) = Cardinality(A) + Cardinality(M) - Cardinality(A \cap M)
  BY <1>2, FS_Union
<1>8. Cardinality(A \cap M) = 0
  BY <1>4, FS_EmptySet
<1>9. Cardinality(B) = Cardinality(A) + Cardinality(M)
  BY <1>3, <1>4, <1>7, <1>8
<1>10. QED
  BY <1>2, <1>3, <1>5, <1>6, <1>9 DEF M

\* Ranks follow the rows.
LEMMA RankIncreases ==
  ASSUME InputInv, prePadMap \in [VTables -> Nat], NEW r \in roots,
         NEW d \in CloudEntries(r), NEW e \in CloudEntries(r)
  PROVE  /\ Precedes(r, d, e) => Rank(r, d) < Rank(r, e)
         /\ Rank(r, d) = Rank(r, e) => d = e
<1>1. \A x \in CloudEntries(r) : Rank(r, x) \in Nat
  BY CloudEntriesFinite
<1>2. ASSUME NEW x \in CloudEntries(r), NEW y \in CloudEntries(r), Precedes(r, x, y)
      PROVE  Rank(r, x) < Rank(r, y)
  <2> DEFINE M == {c \in CloudEntries(r) : ~ Precedes(r, c, x) /\ Precedes(r, c, y)}
  <2>1. /\ IsFiniteSet(M) /\ Cardinality(M) \in Nat /\ x \in M
        /\ Rank(r, y) = Rank(r, x) + Cardinality(M)
    BY <1>2, RankDistance
  <2> HIDE DEF M
  <2>2. Cardinality(M) # 0
    BY <2>1, FS_EmptySet
  <2>3. QED
    BY <1>1, <2>1, <2>2
<1>3. Rank(r, d) = Rank(r, e) => d = e
  BY <1>1, <1>2, RowOrder
<1>4. QED
  BY <1>2, <1>3

\* The placed entries of a cloud.
LEMMA PlacedOfCloud ==
  ASSUME IInv, NEW r \in roots
  PROVE  /\ {e \in DOMAIN newIndex : e[1] \in CloudOf(r)} =
              UNION {Entries(v) : v \in PlacedIn(r)}
         /\ UNION {Entries(v) : v \in PlacedIn(r)} \subseteq CloudEntries(r)
<1>1. DOMAIN newIndex = UNION {Entries(v) : v \in Placed}
  BY DEF IInv, PlacedInv
<1>2. \A v \in Placed : v \in CloudOf(r) <=> v \in PlacedIn(r)
  BY PlacedFacts DEF IInv, Placed
<1>3. \A v : \A e \in Entries(v) : e[1] = v
  BY DEF Entries
<1>4. PlacedIn(r) \subseteq Placed /\ PlacedIn(r) \subseteq DefinedIn(r)
  BY DEF Placed, PlacedIn
<1>5. QED
  BY <1>1, <1>2, <1>3, <1>4 DEF CloudEntries

\* Two entries of a cloud have two places.
LEMMA DistinctIndices ==
  ASSUME IInv, NEW r \in roots, NEW v \in PlacedIn(r), NEW w \in PlacedIn(r),
         NEW d \in Entries(v), NEW e \in Entries(w), newIndex[d] = newIndex[e]
  PROVE  d = e
<1> USE DEF IInv
<1>1. /\ v \in VTables /\ w \in VTables /\ v \in CloudOf(r) /\ w \in CloudOf(r)
      /\ v \in Placed /\ w \in Placed
  BY PlacedFacts
<1>2. prePadMap \in [VTables -> Nat] /\ PartialMap(newIndex, VTables \X Int, Nat)
  BY DEF TypeOK
<1>3. CASE program.interleave
  <2>1. PlacedUpTo(r) > 0
    BY IndexFacts, <1>1 DEF PlacedIn, PlacedUpTo
  <2>2. d \in CloudEntries(r) /\ e \in CloudEntries(r)
    BY PlacedOfCloud
  <2>3. newIndex[d] = Rank(r, d) /\ newIndex[e] = Rank(r, e)
    BY <1>3, <2>1, <2>2 DEF RankedInv
  <2>4. QED
    BY <1>2, <2>2, <2>3, RankIncreases
<1>4. CASE ~ program.interleave
  <2>1. ASSUME NEW x \in PlacedIn(r), NEW c \in Entries(x)
        PROVE  /\ c = <<x, c[2]>> /\ c[2] \in first(x) .. last(x)
               /\ newIndex[c] \in Nat
               /\ newIndex[c] = newIndex[<<x, first(x)>>] + c[2] - first(x)
               /\ newIndex[c] = newIndex[<<x, last(x)>>] + c[2] - last(x)
               /\ newIndex[<<x, first(x)>>] \in Nat /\ newIndex[<<x, last(x)>>] \in Nat
               /\ first(x) \in Nat /\ last(x) \in Nat
    <3>1. x \in VTables /\ x \in Placed /\ prePadMap[x] = 0
      BY <1>4, PlacedFacts DEF OrderedInv
    <3>2. /\ first(x) \in Nat /\ addrPt(x) \in Nat /\ last(x) \in Nat
          /\ first(x) < addrPt(x) /\ addrPt(x) <= last(x)
      BY <3>1, RegionFacts
    <3>3. c = <<x, c[2]>> /\ c[2] \in first(x) .. last(x)
      BY <3>1, <3>2 DEF Entries
    <3>4. \A i \in first(x) .. last(x) :
            /\ newIndex[<<x, i>>] = newIndex[<<x, addrPt(x)>>] + i - addrPt(x)
            /\ newIndex[<<x, i>>] \in Nat
      <4>1. \A i \in first(x) .. last(x) : i \in first(x) - prePadMap[x] .. last(x)
        BY <3>1, <3>2
      <4>2. QED
        BY <1>2, <1>4, <3>1, <4>1, EntryPlaced DEF OrderedInv
    <3>5. /\ first(x) \in first(x) .. last(x) /\ last(x) \in first(x) .. last(x)
          /\ addrPt(x) \in first(x) .. last(x)
      BY <3>2
    <3> DEFINE i == c[2]
    <3>6. newIndex[c] = newIndex[<<x, i>>] /\ i \in first(x) .. last(x)
      BY <3>3
    <3> HIDE DEF i
    <3>7. /\ newIndex[<<x, i>>] \in Nat
          /\ newIndex[<<x, i>>] = newIndex[<<x, first(x)>>] + i - first(x)
          /\ newIndex[<<x, i>>] = newIndex[<<x, last(x)>>] + i - last(x)
      BY <3>2, <3>4, <3>5, <3>6
    <3>8. QED
      BY <3>2, <3>3, <3>4, <3>5, <3>6, <3>7 DEF i
  <2>2. ASSUME NEW x \in PlacedIn(r), NEW y \in PlacedIn(r), NEW c \in Entries(x), NEW b \in Entries(y),
               Index(r, x) < Index(r, y)
        PROVE  newIndex[c] < newIndex[b]
    <3>1. newIndex[<<x, last(x)>>] < newIndex[<<y, first(y)>>]
      BY <1>4, <2>2 DEF OrderedInv
    <3> DEFINE i == c[2]  j == b[2]
    <3>2. /\ i \in first(x) .. last(x) /\ last(x) \in Nat /\ first(x) \in Nat
          /\ newIndex[<<x, last(x)>>] \in Nat /\ newIndex[c] \in Nat
          /\ newIndex[c] = newIndex[<<x, last(x)>>] + i - last(x)
      BY <2>1
    <3>3. /\ j \in first(y) .. last(y) /\ last(y) \in Nat /\ first(y) \in Nat
          /\ newIndex[<<y, first(y)>>] \in Nat /\ newIndex[b] \in Nat
          /\ newIndex[b] = newIndex[<<y, first(y)>>] + j - first(y)
      BY <2>1
    <3> HIDE DEF i, j
    <3>4. QED
      BY <3>1, <3>2, <3>3
  <2>3. Index(r, v) \in Nat /\ Index(r, w) \in Nat
    BY <1>1, IndexFacts
  <2>4. newIndex[d] \in Nat /\ newIndex[e] \in Nat
    BY <2>1
  <2>5. Index(r, v) = Index(r, w)
    <3>1. ~ (Index(r, v) < Index(r, w)) /\ ~ (Index(r, w) < Index(r, v))
      BY <2>2, <2>4
    <3>2. QED
      BY <2>3, <3>1
  <2>6. v = w
    BY <1>1, <2>5, IndexFacts
  <2> DEFINE i == d[2]  j == e[2]
  <2>7. /\ d = <<v, i>> /\ e = <<v, j>>
        /\ i \in first(v) .. last(v) /\ j \in first(v) .. last(v)
        /\ first(v) \in Nat /\ last(v) \in Nat /\ newIndex[<<v, first(v)>>] \in Nat
        /\ newIndex[d] = newIndex[<<v, first(v)>>] + i - first(v)
        /\ newIndex[e] = newIndex[<<v, first(v)>>] + j - first(v)
    BY <2>1, <2>6
  <2> HIDE DEF i, j
  <2>8. i = j
    BY <2>7
  <2>9. QED
    BY <2>7, <2>8
<1>5. QED
  BY <1>3, <1>4

\* No two entries of a cloud share an index, and when a cloud is laid out every
\* entry of its defined vtables has one.
THEOREM NothingOverwritten == Spec => []EntriesKept
<1>1. IInv => EntriesKept
  <2> SUFFICES ASSUME IInv
               PROVE  EntriesKept
    OBVIOUS
  <2>1. ASSUME NEW r \in roots
        PROVE  LET placed == {e \in DOMAIN newIndex : e[1] \in CloudOf(r)}
               IN  Cardinality({newIndex[e] : e \in placed}) = Cardinality(placed)
    <3> DEFINE placed == {e \in DOMAIN newIndex : e[1] \in CloudOf(r)}
               T == {newIndex[e] : e \in placed}
               f == [e \in placed |-> newIndex[e]]
    <3>1. placed = UNION {Entries(v) : v \in PlacedIn(r)} /\ placed \subseteq CloudEntries(r)
      BY PlacedOfCloud
    <3>2. IsFiniteSet(placed)
      BY <3>1, CloudEntriesFinite, FS_Subset DEF IInv, TypeOK
    <3>3. \A d, e \in placed : newIndex[d] = newIndex[e] => d = e
      BY <3>1, DistinctIndices
    <3> HIDE DEF placed
    <3>4. f \in [placed -> T] /\ \A y \in T : \E e \in placed : f[e] = y
      OBVIOUS
    <3>5. f \in Bijection(placed, T)
      BY <3>3, <3>4 DEF Bijection, Injection, Surjection, IsInjective
    <3>6. Cardinality(T) = Cardinality(placed)
      BY <3>2, <3>5, FS_Bijection DEF ExistsBijection
    <3>7. QED
      BY <3>6 DEF placed
  <2>2. ASSUME NEW r \in roots \ (todo \cup {cloud}), NEW v \in CloudOf(r), isDefined(v)
        PROVE  {v} \X (first(v) .. last(v)) \subseteq DOMAIN newIndex
    <3>1. PlacedUpTo(r) = Len(CloudOrder(r))
      BY DEF PlacedUpTo
    <3>2. v \in Placed /\ v \in VTables
      <4>1. InputInv /\ v \in CloudOf(r)
        BY DEF IInv
      <4>2. Index(r, v) <= PlacedUpTo(r)
        BY <3>1, <4>1, IndexFacts
      <4>3. v \in PlacedIn(r)
        BY <2>2, <4>1, <4>2 DEF PlacedIn, DefinedIn
      <4>4. QED
        BY <4>1, <4>3, Clouds DEF Placed
    <3>3. first(v) .. last(v) \subseteq first(v) - prePadMap[v] .. last(v)
      BY <3>2, RegionFacts DEF IInv, TypeOK
    <3>4. \A i \in first(v) .. last(v) : <<v, i>> \in DOMAIN newIndex
      BY <3>2, <3>3, EntryPlaced DEF IInv, TypeOK
    <3>5. QED
      BY <3>4
  <2>3. QED
    BY <2>1, <2>2 DEF EntriesKept
<1>2. QED
  BY <1>1, Invariant, PTL

\* The vptr of a vtable without a pad is where its address point went, at a
\* multiple of the alignment in an ordered cloud.
THEOREM VptrsOnAddressPoints == Spec => []VptrOnAddressPoint
<1>1. IInv => VptrOnAddressPoint
  <2> SUFFICES ASSUME IInv, NEW v \in DOMAIN vptr
               PROVE  /\ prePadMap[v] = 0 => vptr[v] = newIndex[<<v, addrPt(v)>>]
                      /\ \A r \in roots : v \in CloudOf(r) /\ ~ program.interleave =>
                           vptr[v] % alignmentMap[r] = 0
    BY DEF VptrOnAddressPoint
  <2>1. /\ pc # "place" /\ v \in VTables /\ isDefined(v)
        /\ vptr[v] = newIndex[<<v, addrPt(v) - prePadMap[v]>>]
    BY DEF IInv, EmitInv, EmptyMap
  <2>2. prePadMap[v] = 0 => vptr[v] = newIndex[<<v, addrPt(v)>>]
    <3>1. addrPt(v) - 0 = addrPt(v)
      BY <2>1, RegionFacts DEF IInv
    <3>2. QED
      BY <2>1, <3>1
  <2>3. ASSUME NEW r \in roots, v \in CloudOf(r), ~ program.interleave
        PROVE  vptr[v] % alignmentMap[r] = 0
    <3>1. v \in PlacedIn(r)
      BY <2>1, <2>3, AllPlaced DEF IInv, DefinedIn
    <3>2. prePadMap[v] = 0 /\ newIndex[<<v, addrPt(v)>>] % alignmentMap[r] = 0
      BY <2>1, <2>3, <3>1 DEF IInv, OrderedInv
    <3>3. QED
      BY <2>2, <3>2
  <2>4. QED
    BY <2>2, <2>3
<1>2. QED
  BY <1>1, Invariant, PTL

------------------------------------------------------------------------------
(* Calls and thunks find their entries                                       *)

\* The row of the entry k behind the address point is k.
LEMMA RowOf ==
  \A x : \A i \in Int : Row(<<x, i>>) = i - addrPt(x)
BY DEF Row

\* When all the tables from u to w have a row, the ranks in it grow by the number
\* of these tables.
LEMMA RowDistance ==
  ASSUME InputInv, prePadMap \in [VTables -> Nat], NEW r \in roots,
         NEW u \in DefinedIn(r), NEW w \in DefinedIn(r), Index(r, u) <= Index(r, w),
         NEW k \in Int,
         \A x \in DefinedIn(r) :
           Index(r, u) <= Index(r, x) /\ Index(r, x) <= Index(r, w) =>
             addrPt(x) + k \in first(x) - prePadMap[x] .. last(x)
  PROVE  /\ Rank(r, <<w, addrPt(w) + k>>) =
              Rank(r, <<u, addrPt(u) + k>>) + Cardinality(DefinedAt(r, <<Index(r, u), Index(r, w)>>))
         /\ Cardinality(DefinedAt(r, <<Index(r, u), Index(r, w)>>)) \in Nat
<1> DEFINE d == <<u, addrPt(u) + k>>
           e == <<w, addrPt(w) + k>>
           M == {c \in CloudEntries(r) : ~ Precedes(r, c, d) /\ Precedes(r, c, e)}
           D == DefinedAt(r, <<Index(r, u), Index(r, w)>>)
           at(i) == CloudOrder(r)[i]
           f == [i \in D |-> <<at(i), addrPt(at(i)) + k>>]
<1>1. ASSUME NEW x \in DefinedIn(r)
      PROVE  x \in VTables /\ Index(r, x) \in 1 .. Len(CloudOrder(r)) /\ at(Index(r, x)) = x
                /\ addrPt(x) \in Nat /\ isDefined(x)
  BY Clouds, IndexFacts, RegionFacts DEF DefinedIn
<1>2. ASSUME NEW x \in DefinedIn(r), Index(r, u) <= Index(r, x), Index(r, x) <= Index(r, w)
      PROVE  /\ <<x, addrPt(x) + k>> \in CloudEntries(r)
             /\ Row(<<x, addrPt(x) + k>>) = k
  <2>1. addrPt(x) + k \in first(x) - prePadMap[x] .. last(x)
    BY <1>2
  <2>2. <<x, addrPt(x) + k>> \in Entries(x)
    BY <2>1 DEF Entries
  <2>3. addrPt(x) + k - addrPt(x) = k
    BY <1>1
  <2>4. <<x, addrPt(x) + k>> \in CloudEntries(r)
    BY <2>2, Zenon DEF CloudEntries
  <2>5. Row(<<x, addrPt(x) + k>>) = k
    BY <1>1, <2>3, RowOf
  <2>6. QED
    BY <2>4, <2>5
<1>3. /\ d \in CloudEntries(r) /\ e \in CloudEntries(r) /\ Row(d) = k /\ Row(e) = k
      /\ Index(r, u) \in Nat /\ Index(r, w) \in Nat
  BY <1>1, <1>2
<1>4. d = e \/ Precedes(r, d, e)
  <2>1. Index(r, u) = Index(r, w) => u = w
    BY <1>1, IndexFacts DEF DefinedIn
  <2>2. Index(r, u) < Index(r, w) => Precedes(r, d, e)
    BY <1>3 DEF Precedes, Row
  <2>3. QED
    BY <1>3, <2>1, <2>2
<1>5. /\ IsFiniteSet(M) /\ Cardinality(M) \in Nat
      /\ Rank(r, e) = Rank(r, d) + Cardinality(M)
  <2> HIDE DEF d, e
  <2>1. QED
    BY <1>3, <1>4, RankDistance
<1>6. ASSUME NEW c \in CloudEntries(r)
      PROVE  /\ c[1] \in DefinedIn(r) /\ Row(c) \in Int /\ Index(r, c[1]) \in Nat
             /\ c \in M <=> Row(c) = k /\ Index(r, u) <= Index(r, c[1]) /\ Index(r, c[1]) < Index(r, w)
  <2>1. /\ c[1] \in DefinedIn(r) /\ Row(c) \in Int /\ Index(r, c[1]) \in Nat
        /\ Precedes(r, c, d) <=> \/ Row(c) < Row(d)
                                 \/ Row(c) = Row(d) /\ Index(r, c[1]) < Index(r, d[1])
        /\ Precedes(r, c, e) <=> \/ Row(c) < Row(e)
                                 \/ Row(c) = Row(e) /\ Index(r, c[1]) < Index(r, e[1])
    BY <1>3, RowOrder
  <2>2. d[1] = u /\ e[1] = w
    OBVIOUS
  <2> HIDE DEF d, e
  <2>3. QED
    BY <1>3, <2>1, <2>2
<1>7. ASSUME NEW i \in D
      PROVE  /\ at(i) \in DefinedIn(r) /\ Index(r, at(i)) = i
             /\ Index(r, u) <= i /\ i < Index(r, w) /\ i \in Nat
             /\ f[i] = <<at(i), addrPt(at(i)) + k>> /\ f[i] \in M
  <2>1. i \in Index(r, u) .. Index(r, w) - 1 /\ isDefined(at(i))
    BY DEF DefinedAt
  <2>2. i \in 1 .. Len(CloudOrder(r)) /\ Index(r, u) <= i /\ i < Index(r, w) /\ i \in Nat
    BY <1>1, <2>1
  <2>3. at(i) \in DefinedIn(r) /\ Index(r, at(i)) = i
    BY <2>1, <2>2, IndexFacts DEF DefinedIn
  <2>4. f[i] \in CloudEntries(r) /\ Row(f[i]) = k
    BY <1>2, <1>3, <2>2, <2>3
  <2>5. f[i][1] = at(i)
    OBVIOUS
  <2> HIDE DEF M, f, at
  <2>6. QED
    BY <1>6, <2>2, <2>3, <2>4, <2>5 DEF f
<1>8. ASSUME NEW c \in M
      PROVE  \E i \in D : f[i] = c
  <2>1. /\ c \in CloudEntries(r) /\ c[1] \in DefinedIn(r) /\ Row(c) = k
        /\ Index(r, u) <= Index(r, c[1]) /\ Index(r, c[1]) < Index(r, w)
    BY <1>6
  <2>2. Index(r, c[1]) \in D
    <3>1. Index(r, c[1]) \in Index(r, u) .. Index(r, w) - 1
      BY <1>1, <1>3, <2>1
    <3>2. isDefined(at(Index(r, c[1])))
      BY <1>1, <2>1
    <3>3. QED
      BY <3>1, <3>2 DEF DefinedAt
  <2>3. at(Index(r, c[1])) = c[1]
    BY <1>1, <2>1
  <2>4. f[Index(r, c[1])] = <<c[1], addrPt(c[1]) + k>>
    BY <2>2, <2>3
  <2>5. <<c[1], addrPt(c[1]) + k>> \in CloudEntries(r) /\ Row(<<c[1], addrPt(c[1]) + k>>) = k
    <3>1. Index(r, c[1]) <= Index(r, w)
      BY <1>1, <2>1
    <3>2. QED
      BY <1>2, <2>1, <3>1
  <2>6. c = <<c[1], addrPt(c[1]) + k>>
    BY <2>1, <2>5, RowOrder
  <2>7. QED
    BY <2>2, <2>4, <2>6
<1>9. f \in Bijection(D, M)
  <2>1. ASSUME NEW i \in D, NEW j \in D, f[i] = f[j]
        PROVE  i = j
    <3>1. at(i) = at(j)
      BY <1>7, <2>1
    <3>2. QED
      BY <1>7, <3>1
  <2>2. f \in [D -> M]
    <3>1. \A i \in D : f[i] \in M
      BY <1>7
    <3> HIDE DEF M, D, at
    <3>2. QED
      BY <3>1
  <2> HIDE DEF M, D, f
  <2>3. QED
    BY <1>8, <2>1, <2>2, Zenon DEF Bijection, Injection, Surjection, IsInjective
<1>10. Cardinality(D) = Cardinality(M)
  <2>1. D \subseteq Index(r, u) .. Index(r, w) - 1
    BY DEF DefinedAt
  <2>2. IsFiniteSet(D)
    <3>1. Index(r, u) \in Int /\ Index(r, w) - 1 \in Int
      BY <1>3
    <3>2. IsFiniteSet(Index(r, u) .. Index(r, w) - 1)
      BY <3>1, FS_Interval
    <3>3. QED
      BY <2>1, <3>2, FS_Subset
  <2> HIDE DEF M, D, f
  <2>3. QED
    BY <1>9, <2>2, FS_Bijection DEF ExistsBijection
<1>11. QED
  BY <1>5, <1>10

\* The vtables that lead the translation of an index: v itself, or the first
\* defined one below it.
LEMMA TranslatedFacts ==
  ASSUME InputInv, NEW r \in roots, NEW v \in CloudOf(r), NEW w \in Descendants(v), isDefined(w)
  PROVE  LET u == Translated(v) IN
         /\ v \in VTables /\ u \in Descendants(v) /\ isDefined(u)
         /\ u \in DefinedIn(r) /\ w \in DefinedIn(r) /\ u \in VTables /\ w \in VTables
<1> DEFINE D == {i \in DOMAIN Order(v) : isDefined(Order(v)[i])}
<1>1. v \in VTables
  BY Clouds
<1>2. /\ DOMAIN Order(v) = 1 .. Len(Order(v)) /\ Len(Order(v)) \in Nat
      /\ v \in Descendants(v) /\ Descendants(v) \subseteq VTables
  BY <1>1, OrderFacts
<1>3. Descendants(v) = {Order(v)[i] : i \in 1 .. Len(Order(v))}
  BY <1>2 DEF Descendants, ToSet, Order
<1>4. D \subseteq Nat /\ D # {}
  BY <1>2, <1>3
<1>5. FirstDefinedChild(v) = Order(v)[Min(D)]
  BY DEF FirstDefinedChild
<1>6. Min(D) \in D
  <2> HIDE DEF D
  <2>1. QED
    BY <1>4, MinOfNats
<1>7. Translated(v) \in Descendants(v) /\ isDefined(Translated(v))
  BY <1>2, <1>3, <1>5, <1>6 DEF Translated
<1>8. Descendants(v) \subseteq CloudOf(r)
  BY CloudMembers
<1>9. QED
  BY <1>1, <1>2, <1>7, <1>8 DEF DefinedIn

\* An entry of a defined vtable has its index when the layout is done.
LEMMA EntryIndex ==
  ASSUME IInv, pc # "place", NEW v \in VTables, isDefined(v),
         NEW k \in first(v) - addrPt(v) .. last(v) - addrPt(v)
  PROVE  /\ k \in Int
         /\ newIndex[<<v, addrPt(v) + k>>] \in Nat
         /\ newIndex[<<v, addrPt(v)>>] \in Nat
         /\ addrPt(v) + k \in first(v) .. last(v)
         /\ ~ program.interleave =>
              newIndex[<<v, addrPt(v) + k>>] = newIndex[<<v, addrPt(v)>>] + k
<1>1. /\ first(v) \in Nat /\ addrPt(v) \in Nat /\ last(v) \in Nat
      /\ first(v) < addrPt(v) /\ addrPt(v) <= last(v)
  BY RegionFacts DEF IInv
<1>2. /\ k \in Int /\ addrPt(v) + k \in first(v) .. last(v) /\ addrPt(v) \in first(v) .. last(v)
      /\ addrPt(v) + k - addrPt(v) = k
  BY <1>1
<1>3. v \in Placed /\ prePadMap[v] \in Nat
  BY AllPlaced DEF IInv, TypeOK
<1>4. \A i \in first(v) .. last(v) : newIndex[<<v, i>>] \in Nat
  <2>1. first(v) .. last(v) \subseteq first(v) - prePadMap[v] .. last(v)
    BY <1>1, <1>3
  <2>2. QED
    BY <1>3, <2>1, EntryPlaced DEF IInv, TypeOK
<1>5. ASSUME ~ program.interleave
      PROVE  newIndex[<<v, addrPt(v) + k>>] = newIndex[<<v, addrPt(v)>>] + k
  <2>1. PICK r \in roots : v \in PlacedIn(r)
    BY <1>3 DEF Placed
  <2>2. newIndex[<<v, addrPt(v) + k>>] = newIndex[<<v, addrPt(v)>>] + (addrPt(v) + k) - addrPt(v)
    BY <1>2, <1>5, <2>1 DEF IInv, OrderedInv
  <2>3. newIndex[<<v, addrPt(v)>>] \in Nat
    BY <1>2, <1>4
  <2>4. QED
    BY <1>1, <1>2, <2>2, <2>3
<1>6. QED
  BY <1>2, <1>4, <1>5

\* What the comparisons of the verification lead to: the entries of v keep their
\* distances in every table they reach.
LEMMA VerifiedDistances ==
  ASSUME IInv, pc = "done", program.interleave, NEW r \in roots,
         NEW v \in CloudOf(r), isDefined(v), NEW w \in VerifiedBelow(r, v),
         NEW k \in first(v) - addrPt(v) .. last(v) - addrPt(v)
  PROVE  newIndex[<<w, addrPt(w) + k>>] - newIndex[<<w, addrPt(w)>>] =
           newIndex[<<v, addrPt(v) + k>>] - newIndex[<<v, addrPt(v)>>]
<1> USE DEF IInv
<1> DEFINE kept(x, i) ==
             newIndex[<<v, i>>] - newIndex[<<v, addrPt(v)>>] =
               newIndex[<<x, i - addrPt(v) + addrPt(x)>>] - newIndex[<<x, addrPt(x)>>]
           S == {x \in CloudOf(r) :
                   /\ Contained(v, x)
                   /\ \A i \in first(v) - prePadMap[v] .. last(v) : kept(x, i)}
<1>1. ASSUME NEW x \in CloudOf(r)
      PROVE  /\ x \in VTables /\ first(x) \in Nat /\ addrPt(x) \in Nat /\ last(x) \in Nat
             /\ first(x) < addrPt(x) /\ addrPt(x) <= last(x) /\ prePadMap[x] \in Nat
             /\ Depth(x) = addrPt(x) - first(x) + prePadMap[x]
  BY Clouds, RegionFacts DEF TypeOK, Depth
<1>2. CloudVerified(r)
  BY DEF VerifiedInv
<1>3. v \in S
  <2>1. Contained(v, v)
    BY <1>1 DEF Contained
  <2>2. \A i \in first(v) - prePadMap[v] .. last(v) : i - addrPt(v) + addrPt(v) = i
    BY <1>1
  <2>3. QED
    BY <2>1, <2>2
<1>4. ASSUME NEW q \in DefinedPairs(r), q[1] \in S
      PROVE  q[2] \in S
  <2> DEFINE p == q[1]  c == q[2]
  <2>1. p \in CloudOf(r) /\ c \in CloudOf(r)
    BY DEF DefinedPairs
  <2>2. Contained(p, c) /\ SameOffsets(p, c) /\ Contained(v, p)
    BY <1>2, <1>4 DEF CloudVerified
  <2>3. \A i \in first(v) - prePadMap[v] .. last(v) : kept(p, i)
    BY <1>4
  <2> HIDE DEF p, c
  <2>4. Contained(v, c)
    BY <1>1, <2>1, <2>2 DEF Contained
  <2>5. ASSUME NEW i \in first(v) - prePadMap[v] .. last(v)
        PROVE  kept(c, i)
    <3> DEFINE j == i - addrPt(v) + addrPt(p)
    <3>1. j \in first(p) - prePadMap[p] .. last(p)
      BY <1>1, <2>1, <2>2 DEF Contained
    <3>2. j - addrPt(p) + addrPt(c) = i - addrPt(v) + addrPt(c)
      BY <1>1, <2>1
    <3>3. kept(p, i)
      BY <2>3
    <3>4. newIndex[<<v, i>>] - newIndex[<<v, addrPt(v)>>] =
            newIndex[<<p, j>>] - newIndex[<<p, addrPt(p)>>]
      BY <3>3
    <3> HIDE DEF j, kept
    <3>5. <<p, j>> \in Entries(p)
      BY <3>1 DEF Entries
    <3>6. newIndex[<<p, j>>] - newIndex[<<p, addrPt(p)>>] =
            newIndex[<<c, j - addrPt(p) + addrPt(c)>>] - newIndex[<<c, addrPt(c)>>]
      <4> DEFINE e == <<p, j>>
      <4>1. e \in Entries(p) /\ e[2] = j
        BY <3>5
      <4> HIDE DEF e
      <4>2. newIndex[e] - newIndex[<<p, addrPt(p)>>] =
              newIndex[<<c, e[2] - addrPt(p) + addrPt(c)>>] - newIndex[<<c, addrPt(c)>>]
        BY <2>2, <4>1 DEF SameOffsets
      <4>3. QED
        BY <4>1, <4>2 DEF e
    <3>7. QED
      BY <3>2, <3>4, <3>6 DEF kept
  <2> HIDE DEF kept
  <2>6. c \in S
    BY <2>1, <2>4, <2>5
  <2>7. QED
    BY <2>6 DEF c
<1>5. w \in S
  <2>1. S \in SUBSET CloudOf(r)
    OBVIOUS
  <2> HIDE DEF S
  <2>2. QED
    BY <1>3, <1>4, <2>1 DEF VerifiedBelow
<1>6. QED
  <2> DEFINE i == addrPt(v) + k
  <2>1. w \in CloudOf(r)
    BY <1>5
  <2>2. i \in first(v) - prePadMap[v] .. last(v) /\ i - addrPt(v) + addrPt(w) = addrPt(w) + k
    BY <1>1, <2>1
  <2>3. kept(w, i)
    BY <1>5, <2>2
  <2>4. newIndex[<<v, i>>] - newIndex[<<v, addrPt(v)>>] =
          newIndex[<<w, i - addrPt(v) + addrPt(w)>>] - newIndex[<<w, addrPt(w)>>]
    BY <2>3
  <2> HIDE DEF kept
  <2>5. QED
    BY <2>2, <2>4

\* When all the tables between two have an entry of v, it has the same distance
\* from the address point in both.
LEMMA RowDistances ==
  ASSUME IInv, pc # "place", program.interleave, NEW r \in roots, NEW v \in CloudOf(r),
         NEW u \in DefinedIn(r), NEW w \in DefinedIn(r),
         \A x \in Between(r, u, w) : Extends(program.region, x, v),
         NEW k \in first(v) - addrPt(v) .. last(v) - addrPt(v)
  PROVE  newIndex[<<w, addrPt(w) + k>>] - newIndex[<<w, addrPt(w)>>] =
           newIndex[<<u, addrPt(u) + k>>] - newIndex[<<u, addrPt(u)>>]
<1> USE DEF IInv
<1>1. ASSUME NEW x \in CloudOf(r)
      PROVE  /\ x \in VTables /\ first(x) \in Nat /\ addrPt(x) \in Nat /\ last(x) \in Nat
             /\ first(x) < addrPt(x) /\ addrPt(x) <= last(x) /\ prePadMap[x] \in Nat
             /\ Index(r, x) \in Nat
  <2>1. x \in VTables
    BY Clouds
  <2>2. prePadMap[x] \in Nat
    BY <2>1 DEF TypeOK
  <2>3. Index(r, x) \in Nat
    BY IndexFacts
  <2>4. QED
    BY <2>1, <2>2, <2>3, RegionFacts
<1>2. u \in CloudOf(r) /\ w \in CloudOf(r) /\ isDefined(u) /\ isDefined(w) /\ k \in Int
  BY <1>1 DEF DefinedIn
<1>3. ASSUME NEW x \in Between(r, u, w)
      PROVE  /\ addrPt(x) + k \in first(x) - prePadMap[x] .. last(x)
             /\ addrPt(x) + 0 \in first(x) - prePadMap[x] .. last(x)
  <2>1. x \in CloudOf(r) /\ Extends(program.region, x, v)
    BY DEF Between
  <2>2. /\ addrPt(v) - first(v) <= addrPt(x) - first(x)
        /\ last(v) - addrPt(v) <= last(x) - addrPt(x)
    BY <2>1 DEF Extends, first, addrPt, last
  <2>3. QED
    BY <1>1, <2>1, <2>2
<1>4. ASSUME NEW x \in DefinedIn(r)
      PROVE  /\ Index(r, u) <= Index(r, x) /\ Index(r, x) <= Index(r, w) => x \in Between(r, u, w)
             /\ Index(r, w) <= Index(r, x) /\ Index(r, x) <= Index(r, u) => x \in Between(r, u, w)
  BY <1>1, <1>2 DEF Between, DefinedIn
<1>5. ASSUME NEW x \in DefinedIn(r), NEW y \in DefinedIn(r), Index(r, x) <= Index(r, y),
             \A z \in DefinedIn(r) :
               Index(r, x) <= Index(r, z) /\ Index(r, z) <= Index(r, y) => z \in Between(r, u, w)
      PROVE  newIndex[<<y, addrPt(y) + k>>] - newIndex[<<y, addrPt(y)>>] =
               newIndex[<<x, addrPt(x) + k>>] - newIndex[<<x, addrPt(x)>>]
  <2> DEFINE n == Cardinality(DefinedAt(r, <<Index(r, x), Index(r, y)>>))
  <2>1. /\ Rank(r, <<y, addrPt(y) + k>>) = Rank(r, <<x, addrPt(x) + k>>) + n
        /\ Rank(r, <<y, addrPt(y) + 0>>) = Rank(r, <<x, addrPt(x) + 0>>) + n
        /\ n \in Nat
    <3>1. \A z \in DefinedIn(r) :
            Index(r, x) <= Index(r, z) /\ Index(r, z) <= Index(r, y) =>
              /\ addrPt(z) + k \in first(z) - prePadMap[z] .. last(z)
              /\ addrPt(z) + 0 \in first(z) - prePadMap[z] .. last(z)
      BY <1>3, <1>5
    <3>2. 0 \in Int /\ k \in Int /\ prePadMap \in [VTables -> Nat]
      BY <1>2 DEF TypeOK
    <3>3. QED
      BY <1>5, <3>1, <3>2, RowDistance
  <2> HIDE DEF n
  <2>2. ASSUME NEW z \in DefinedIn(r), z \in Between(r, u, w), NEW i \in {0, k}
        PROVE  /\ newIndex[<<z, addrPt(z) + i>>] = Rank(r, <<z, addrPt(z) + i>>)
               /\ Rank(r, <<z, addrPt(z) + i>>) \in Nat
    <3>1. PlacedUpTo(r) > 0
      BY AllPlaced
    <3>2. <<z, addrPt(z) + i>> \in Entries(z)
      BY <1>3, <2>2 DEF Entries
    <3>3. <<z, addrPt(z) + i>> \in CloudEntries(r)
      BY <3>2, Zenon DEF CloudEntries
    <3>4. QED
      BY <3>1, <3>3, CloudEntriesFinite DEF RankedInv, TypeOK
  <2>3. x \in Between(r, u, w) /\ y \in Between(r, u, w)
    <3>1. Index(r, x) \in Nat /\ Index(r, y) \in Nat
      BY <1>1 DEF DefinedIn
    <3>2. QED
      BY <1>5, <3>1
  <2>4. addrPt(x) + 0 = addrPt(x) /\ addrPt(y) + 0 = addrPt(y)
    BY <1>1 DEF DefinedIn
  <2>5. /\ newIndex[<<x, addrPt(x) + k>>] = Rank(r, <<x, addrPt(x) + k>>)
        /\ newIndex[<<y, addrPt(y) + k>>] = Rank(r, <<y, addrPt(y) + k>>)
        /\ newIndex[<<x, addrPt(x)>>] = Rank(r, <<x, addrPt(x)>>)
        /\ newIndex[<<y, addrPt(y)>>] = Rank(r, <<y, addrPt(y)>>)
        /\ Rank(r, <<x, addrPt(x) + k>>) \in Nat /\ Rank(r, <<y, addrPt(y) + k>>) \in Nat
        /\ Rank(r, <<x, addrPt(x)>>) \in Nat /\ Rank(r, <<y, addrPt(y)>>) \in Nat
    <3>1. k \in {0, k} /\ 0 \in {0, k}
      OBVIOUS
    <3>2. /\ newIndex[<<x, addrPt(x) + k>>] = Rank(r, <<x, addrPt(x) + k>>)
          /\ newIndex[<<y, addrPt(y) + k>>] = Rank(r, <<y, addrPt(y) + k>>)
          /\ Rank(r, <<x, addrPt(x) + k>>) \in Nat /\ Rank(r, <<y, addrPt(y) + k>>) \in Nat
      BY <2>2, <2>3, <3>1
    <3>3. /\ newIndex[<<x, addrPt(x) + 0>>] = Rank(r, <<x, addrPt(x) + 0>>)
          /\ newIndex[<<y, addrPt(y) + 0>>] = Rank(r, <<y, addrPt(y) + 0>>)
          /\ Rank(r, <<x, addrPt(x) + 0>>) \in Nat /\ Rank(r, <<y, addrPt(y) + 0>>) \in Nat
      BY <2>2, <2>3, <3>1
    <3>4. QED
      BY <2>4, <3>2, <3>3
  <2>6. Rank(r, <<y, addrPt(y)>>) = Rank(r, <<x, addrPt(x)>>) + n
    BY <2>1, <2>4
  <2>7. QED
    BY <2>1, <2>5, <2>6
<1>6. Index(r, u) <= Index(r, w) \/ Index(r, w) <= Index(r, u)
  BY <1>1, <1>2
<1>7. QED
  BY <1>4, <1>5, <1>6

\* A receiver has every entry of v where the translated index says.
LEMMA Dispatched ==
  ASSUME IInv, pc = "done", NEW r \in roots, NEW v \in CloudOf(r), NEW w \in Receivers(r, v),
         NEW k \in first(v) - addrPt(v) .. last(v) - addrPt(v), IsTranslatable(v, k)
  PROVE  /\ w \in VTables /\ isDefined(w)
         /\ vptr[w] = newIndex[<<w, addrPt(w)>>] /\ vptr[w] \in Nat
         /\ newIndex[<<w, addrPt(w) + k>>] \in Nat
         /\ translateVtblInd(v, k) \in Int
         /\ vptr[w] + translateVtblInd(v, k) = newIndex[<<w, addrPt(w) + k>>]
<1> USE DEF IInv
<1> DEFINE u == Translated(v)
<1>1. w \in Descendants(v) /\ isDefined(w)
  BY DEF Receivers
<1>2. /\ v \in VTables /\ u \in Descendants(v) /\ isDefined(u) /\ u \in DefinedIn(r)
      /\ w \in DefinedIn(r) /\ u \in VTables /\ w \in VTables
  BY <1>1, TranslatedFacts
<1>3. ASSUME NEW x \in VTables
      PROVE  /\ first(x) \in Nat /\ addrPt(x) \in Nat /\ last(x) \in Nat
             /\ first(x) < addrPt(x) /\ addrPt(x) <= last(x) /\ prePadMap[x] \in Nat
             /\ addrPt(x) - 0 = addrPt(x)
  BY RegionFacts DEF TypeOK
<1>4. prePadMap[u] = 0 /\ prePadMap[w] = 0
  BY <1>2 DEF Receivers, OrderedInv
<1>5. k \in Int
  BY <1>2, <1>3
<1>6. vptr[w] = newIndex[<<w, addrPt(w)>>]
  <2>1. w \in DOMAIN vptr
    BY <1>2 DEF EmitInv
  <2>2. vptr[w] = newIndex[<<w, addrPt(w) - 0>>]
    BY <1>4, <2>1 DEF EmitInv
  <2>3. QED
    BY <1>2, <1>3, <2>2
<1>7. translateVtblInd(v, k) = newIndex[<<u, addrPt(u) + k>>] - newIndex[<<u, addrPt(u)>>]
  <2> HIDE DEF u
  <2>1. translateVtblInd(v, k) =
          newIndex[<<u, addrPt(u) + k - prePadMap[u]>>] - newIndex[<<u, addrPt(u) - prePadMap[u]>>]
    BY <1>2, <1>5, TranslatedDistance DEF u, TypeOK
  <2>2. addrPt(u) + k - prePadMap[u] = addrPt(u) + k /\ addrPt(u) - prePadMap[u] = addrPt(u)
    BY <1>2, <1>3, <1>4, <1>5
  <2>3. QED
    BY <2>1, <2>2
<1>8. k \in first(u) - addrPt(u) .. last(u) - addrPt(u)
  <2>1. addrPt(u) + k \in first(u) .. last(u)
    BY DEF IsTranslatable
  <2> HIDE DEF u
  <2>2. QED
    BY <1>2, <1>3, <1>5, <2>1
<1> HIDE DEF u
<1>9. /\ newIndex[<<u, addrPt(u) + k>>] \in Nat /\ newIndex[<<u, addrPt(u)>>] \in Nat
      /\ ~ program.interleave => newIndex[<<u, addrPt(u) + k>>] = newIndex[<<u, addrPt(u)>>] + k
  BY <1>2, <1>8, EntryIndex
<1>10. k \in first(w) - addrPt(w) .. last(w) - addrPt(w)
  <2>1. ASSUME Extends(program.region, w, v)
        PROVE  k \in first(w) - addrPt(w) .. last(w) - addrPt(w)
    <3>1. /\ addrPt(v) - first(v) <= addrPt(w) - first(w)
          /\ last(v) - addrPt(v) <= last(w) - addrPt(w)
      BY <2>1 DEF Extends, first, addrPt, last
    <3>2. QED
      BY <1>2, <1>3, <1>5, <3>1
  <2>2. ASSUME program.interleave, isDefined(v), w \in VerifiedBelow(r, v)
        PROVE  k \in first(w) - addrPt(w) .. last(w) - addrPt(w)
    <3> DEFINE S == {x \in CloudOf(r) : Contained(v, x)}
    <3>1. ASSUME NEW x \in CloudOf(r)
          PROVE  x \in VTables /\ Depth(x) = addrPt(x) - first(x) + prePadMap[x]
      BY Clouds DEF Depth
    <3>2. v \in S
      BY <1>3, <3>1 DEF Contained
    <3>3. ASSUME NEW q \in DefinedPairs(r), q[1] \in S
          PROVE  q[2] \in S
      <4> DEFINE p == q[1]  c == q[2]
      <4>1. p \in CloudOf(r) /\ c \in CloudOf(r)
        BY DEF DefinedPairs
      <4>2. Contained(p, c)
        BY <2>2 DEF VerifiedInv, CloudVerified
      <4>3. Contained(v, p)
        BY <3>3
      <4> HIDE DEF p, c
      <4>4. Contained(v, c)
        BY <1>3, <3>1, <4>1, <4>2, <4>3 DEF Contained
      <4>5. QED
        BY <4>1, <4>4 DEF c
    <3>4. w \in S
      <4>1. S \in SUBSET CloudOf(r)
        OBVIOUS
      <4> HIDE DEF S
      <4>2. QED
        BY <2>2, <3>2, <3>3, <4>1 DEF VerifiedBelow
    <3>5. /\ addrPt(v) - first(v) + 0 <= addrPt(w) - first(w) + 0
          /\ last(v) - addrPt(v) <= last(w) - addrPt(w)
      <4>1. u = v
        BY <2>2 DEF u, Translated
      <4>2. Contained(v, w) /\ prePadMap[v] = 0 /\ prePadMap[w] = 0
        BY <1>4, <3>4, <4>1
      <4>3. QED
        BY <4>2 DEF Contained, Depth
    <3>6. QED
      BY <1>2, <1>3, <1>5, <3>5
  <2>3. ASSUME program.interleave, \A x \in Between(r, u, w) : Extends(program.region, x, v)
        PROVE  Extends(program.region, w, v)
    <3>1. w \in CloudOf(r) /\ Index(r, u) \in Nat /\ Index(r, w) \in Nat
      BY <1>2, IndexFacts DEF DefinedIn
    <3>2. Index(r, w) \in (Index(r, u) .. Index(r, w)) \cup (Index(r, w) .. Index(r, u))
      BY <3>1
    <3>3. w \in Between(r, u, w)
      BY <1>1, <3>1, <3>2 DEF Between
    <3>4. QED
      BY <2>3, <3>3
  <2>4. QED
    BY <2>1, <2>2, <2>3 DEF Receivers, u
<1>11. /\ newIndex[<<w, addrPt(w) + k>>] \in Nat /\ newIndex[<<w, addrPt(w)>>] \in Nat
       /\ ~ program.interleave => newIndex[<<w, addrPt(w) + k>>] = newIndex[<<w, addrPt(w)>>] + k
  BY <1>1, <1>2, <1>10, EntryIndex
<1>12. newIndex[<<w, addrPt(w) + k>>] - newIndex[<<w, addrPt(w)>>] =
         newIndex[<<u, addrPt(u) + k>>] - newIndex[<<u, addrPt(u)>>]
  <2>1. CASE ~ program.interleave
    BY <1>5, <1>9, <1>11, <2>1
  <2>2. ASSUME program.interleave, isDefined(v), w \in VerifiedBelow(r, v)
        PROVE  newIndex[<<w, addrPt(w) + k>>] - newIndex[<<w, addrPt(w)>>] =
                 newIndex[<<u, addrPt(u) + k>>] - newIndex[<<u, addrPt(u)>>]
    <3>1. u = v
      BY <2>2 DEF u, Translated
    <3>2. QED
      BY <2>2, <3>1, VerifiedDistances
  <2>3. ASSUME program.interleave, \A x \in Between(r, u, w) : Extends(program.region, x, v)
        PROVE  newIndex[<<w, addrPt(w) + k>>] - newIndex[<<w, addrPt(w)>>] =
                 newIndex[<<u, addrPt(u) + k>>] - newIndex[<<u, addrPt(u)>>]
    BY <1>2, <2>3, RowDistances
  <2>4. QED
    BY <2>1, <2>2, <2>3 DEF Receivers, u
<1>13. QED
  BY <1>1, <1>2, <1>6, <1>7, <1>9, <1>11, <1>12

\* A call through a class finds the entry the static type meant in every table
\* that keeps the entries of the class.
THEOREM CallsFindTheirEntry == Spec => []DispatchFindsEntry
<1>1. IInv => DispatchFindsEntry
  BY Dispatched DEF DispatchFindsEntry
<1>2. QED
  BY <1>1, Invariant, PTL

\* A thunk finds its offset in every vtable that holds it, under the conditions of
\* the property, though the vtables of a cloud share one clone.
THEOREM ThunksFindTheirOffset == Spec => []ThunksFindOffset
<1>1. IInv => ThunksFindOffset
  <2> SUFFICES ASSUME IInv, pc = "done", NEW t \in program.thunks, NEW r \in roots,
                      ~ program.interleave
                        \/ \E b \in Holders(t, r) : Holders(t, r) \subseteq Receivers(r, b),
                      NEW v \in Holders(t, r)
               PROVE  vptr[v] + thunkIndex[<<t, r>>] = newIndex[<<v, addrPt(v) + t.offset>>]
    BY DEF ThunksFindOffset
  <2> USE DEF IInv
  <2> DEFINE k == t.offset
  <2>1. ASSUME NEW x \in Holders(t, r)
        PROVE  /\ x \in VTables /\ isDefined(x) /\ x \in CloudOf(r) /\ x \in DefinedIn(r)
               /\ k \in first(x) - addrPt(x) .. last(x) - addrPt(x)
               /\ IsTranslatable(x, k) /\ Translated(x) = x
    <3>1. x \in VTables /\ isDefined(x) /\ k \in Int /\ addrPt(x) + k \in first(x) .. addrPt(x) - 1
          /\ x \in CloudOf(r)
      BY ThunkFacts DEF Holders
    <3>2. /\ first(x) \in Nat /\ addrPt(x) \in Nat /\ last(x) \in Nat
          /\ first(x) < addrPt(x) /\ addrPt(x) <= last(x)
      BY <3>1, RegionFacts
    <3>3. Translated(x) = x
      BY <3>1 DEF Translated
    <3> HIDE DEF k
    <3>4. /\ k \in first(x) - addrPt(x) .. last(x) - addrPt(x)
          /\ addrPt(x) + k \in first(x) .. last(x)
      BY <3>1, <3>2
    <3>5. QED
      BY <3>1, <3>3, <3>4 DEF IsTranslatable, DefinedIn
  <2>2. PICK a \in Holders(t, r) : thunkIndex[<<t, r>>] = translateVtblInd(a, k)
    <3>1. <<t, r>> \in DOMAIN thunkIndex
      BY DEF EmitInv
    <3> DEFINE K == <<t, r>>
    <3>2. K \in DOMAIN thunkIndex /\ K[1] = t /\ K[2] = r
      BY <3>1
    <3> HIDE DEF K
    <3>3. \E a \in Holders(K[1], K[2]) : thunkIndex[K] = translateVtblInd(a, K[1].offset)
      BY <3>2 DEF EmitInv
    <3>4. QED
      BY <3>2, <3>3 DEF K
  <2> HIDE DEF k
  <2>3. ASSUME ~ program.interleave
        PROVE  vptr[v] + translateVtblInd(a, k) = newIndex[<<v, addrPt(v) + k>>]
    <3>1. ASSUME NEW x \in Holders(t, r)
          PROVE  /\ newIndex[<<x, addrPt(x)>>] \in Nat /\ k \in Int
                 /\ newIndex[<<x, addrPt(x) + k>>] = newIndex[<<x, addrPt(x)>>] + k
                 /\ prePadMap[x] = 0 /\ addrPt(x) \in Nat
      BY <2>1, <2>3, EntryIndex, RegionFacts DEF OrderedInv
    <3>2. translateVtblInd(a, k) = k
      <4>1. translateVtblInd(a, k) =
              newIndex[<<a, addrPt(a) + k - prePadMap[a]>>] - newIndex[<<a, addrPt(a) - prePadMap[a]>>]
        BY <2>1, <3>1, TranslatedDistance DEF TypeOK
      <4>2. /\ addrPt(a) + k - prePadMap[a] = addrPt(a) + k
            /\ addrPt(a) - prePadMap[a] = addrPt(a)
        <5>1. prePadMap[a] = 0 /\ addrPt(a) \in Nat /\ k \in Int
          BY <3>1
        <5>2. QED
          BY <5>1
      <4>3. newIndex[<<a, addrPt(a)>>] \in Nat /\ k \in Int
            /\ newIndex[<<a, addrPt(a) + k>>] = newIndex[<<a, addrPt(a)>>] + k
        BY <3>1
      <4>4. translateVtblInd(a, k) = newIndex[<<a, addrPt(a) + k>>] - newIndex[<<a, addrPt(a)>>]
        BY <4>1, <4>2
      <4>5. QED
        BY <4>3, <4>4
    <3>3. vptr[v] = newIndex[<<v, addrPt(v)>>]
      <4>1. v \in DOMAIN vptr
        BY <2>1 DEF EmitInv
      <4>2. prePadMap[v] = 0 /\ addrPt(v) \in Nat
        BY <3>1
      <4>3. vptr[v] = newIndex[<<v, addrPt(v) - prePadMap[v]>>]
        BY <4>1 DEF EmitInv
      <4>4. addrPt(v) - prePadMap[v] = addrPt(v)
        BY <4>2
      <4>5. QED
        BY <4>3, <4>4
    <3>4. QED
      BY <3>1, <3>2, <3>3
  <2>4. ASSUME NEW b \in Holders(t, r), Holders(t, r) \subseteq Receivers(r, b)
        PROVE  vptr[v] + translateVtblInd(a, k) = newIndex[<<v, addrPt(v) + k>>]
    <3>1. ASSUME NEW x \in Holders(t, r)
          PROVE  /\ newIndex[<<x, addrPt(x) + k>>] \in Nat /\ newIndex[<<x, addrPt(x)>>] \in Nat
                 /\ vptr[x] = newIndex[<<x, addrPt(x)>>]
                 /\ translateVtblInd(b, k) \in Int
                 /\ vptr[x] + translateVtblInd(b, k) = newIndex[<<x, addrPt(x) + k>>]
      BY <2>1, <2>4, Dispatched
    <3>2. translateVtblInd(a, k) = newIndex[<<a, addrPt(a) + k>>] - newIndex[<<a, addrPt(a)>>]
      <4>1. prePadMap[a] = 0
        <5>1. a \in Receivers(r, b)
          BY <2>4
        <5>2. QED
          BY <2>1, <5>1 DEF Receivers, OrderedInv
      <4>2. k \in Int /\ addrPt(a) \in Nat
        BY <2>1, EntryIndex, RegionFacts
      <4>3. translateVtblInd(a, k) =
              newIndex[<<a, addrPt(a) + k - prePadMap[a]>>] - newIndex[<<a, addrPt(a) - prePadMap[a]>>]
        BY <2>1, <4>2, TranslatedDistance DEF TypeOK
      <4>4. /\ addrPt(a) + k - prePadMap[a] = addrPt(a) + k
            /\ addrPt(a) - prePadMap[a] = addrPt(a)
        BY <4>1, <4>2
      <4>5. QED
        BY <4>3, <4>4
    <3>3. /\ translateVtblInd(b, k) \in Int
          /\ newIndex[<<a, addrPt(a) + k>>] \in Nat /\ newIndex[<<a, addrPt(a)>>] \in Nat
          /\ newIndex[<<a, addrPt(a)>>] + translateVtblInd(b, k) = newIndex[<<a, addrPt(a) + k>>]
      BY <3>1
    <3>4. translateVtblInd(a, k) = translateVtblInd(b, k)
      BY <3>2, <3>3
    <3>5. QED
      BY <3>1, <3>4
  <2>5. QED
    BY <2>2, <2>3, <2>4 DEF k
<1>2. QED
  BY <1>1, Invariant, PTL

------------------------------------------------------------------------------
(* The ranges of vptrs                                                       *)

\* A multiple, and the order of the multiples of a number.
LEMMA Multiples ==
  ASSUME NEW A \in Nat \ {0}
  PROVE  /\ \A a \in Nat : a % A = 0 => \E n \in Nat : a = n * A
         /\ \A m, n \in Nat : m * A < n * A <=> m < n
         /\ \A m, n \in Nat : m * A + n * A = (m + n) * A
<1>1. \A a \in Nat : a % A = 0 => \E n \in Nat : a = n * A
  <2> SUFFICES ASSUME NEW a \in Nat, a % A = 0
               PROVE  \E n \in Nat : a = n * A
    OBVIOUS
  <2>1. a = ((a \div A) * A) + (a % A) /\ a \div A \in Nat
    OBVIOUS
  <2>2. QED
    BY <2>1
<1>2. ASSUME NEW m \in Nat, NEW n \in Nat, m < n
      PROVE  m * A < n * A
  <2> DEFINE d == n - m - 1
  <2>1. d \in Nat /\ n = m + 1 + d
    BY <1>2
  <2> HIDE DEF d
  <2>2. n * A = m * A + A + d * A /\ d * A \in Nat /\ m * A \in Nat
    BY <2>1
  <2>3. QED
    BY <2>2
<1>3. \A m, n \in Nat : m * A < n * A <=> m < n
  <2> SUFFICES ASSUME NEW m \in Nat, NEW n \in Nat
               PROVE  m * A < n * A <=> m < n
    OBVIOUS
  <2>1. m * A \in Nat /\ n * A \in Nat
    OBVIOUS
  <2>2. m < n \/ n < m \/ m = n
    OBVIOUS
  <2>3. QED
    BY <1>2, <2>1, <2>2
<1>4. \A m, n \in Nat : m * A + n * A = (m + n) * A
  OBVIOUS
<1>5. QED
  BY <1>1, <1>3, <1>4

\* Between two multiples of A there is room for their distance divided by A.
LEMMA Spacing ==
  ASSUME NEW A \in Nat \ {0}, NEW D, NEW p \in [D -> Nat],
         \A k, l \in D : p[k] = p[l] => k = l,
         \A k \in D : p[k] % A = 0,
         NEW s \in Nat, s % A = 0, NEW b \in Nat, b % A = 0,
         \A k \in D : s <= p[k] /\ p[k] < b,
         NEW i \in Nat, b = s + i * A
  PROVE  IsFiniteSet(D) /\ Cardinality(D) \in Nat /\ Cardinality(D) <= i
<1>1. PICK m \in Nat : s = m * A
  BY Multiples
<1>2. b = (m + i) * A
  BY <1>1, Multiples
<1> DEFINE f == [k \in D |-> CHOOSE n \in Nat : p[k] = n * A]
<1>3. ASSUME NEW k \in D
      PROVE  f[k] \in m .. m + i - 1 /\ p[k] = f[k] * A
  <2>1. \E n \in Nat : p[k] = n * A
    BY Multiples
  <2>2. f[k] \in Nat /\ p[k] = f[k] * A
    BY <2>1
  <2> HIDE DEF f
  <2>3. ~ (f[k] * A < m * A) /\ f[k] * A < (m + i) * A
    BY <1>1, <1>2, <2>2
  <2>4. ~ (f[k] < m) /\ f[k] < m + i
    BY <2>2, <2>3, Multiples
  <2>5. QED
    BY <2>2, <2>4
<1>4. f \in Injection(D, m .. m + i - 1)
  <2>1. f \in [D -> m .. m + i - 1]
    BY <1>3
  <2>2. \A k, l \in D : f[k] = f[l] => k = l
    BY <1>3
  <2> HIDE DEF f
  <2>3. QED
    BY <2>1, <2>2, Zenon DEF Injection, IsInjective
<1>5. IsFiniteSet(m .. m + i - 1) /\ Cardinality(m .. m + i - 1) = i
  <2>1. m \in Int /\ m + i - 1 \in Int
    OBVIOUS
  <2>2. /\ IsFiniteSet(m .. m + i - 1)
        /\ Cardinality(m .. m + i - 1) = IF m > m + i - 1 THEN 0 ELSE m + i - 1 - m + 1
    BY <2>1, FS_Interval
  <2>3. QED
    BY <2>2
<1>6. IsFiniteSet(D) /\ Cardinality(D) <= i
  <2> HIDE DEF f
  <2>1. QED
    BY <1>4, <1>5, FS_Injection
<1>7. QED
  BY <1>6, FS_CardinalityType

\* The vptr of a defined vtable of a cloud.
LEMMA VptrFacts ==
  ASSUME IInv, pc = "done", NEW r \in roots, NEW x \in DefinedIn(r)
  PROVE  /\ vptr[x] \in Nat
         /\ vptr[x] = newIndex[<<x, addrPt(x) - prePadMap[x]>>]
         /\ prePadMap[x] \in Nat
         /\ alignmentMap[r] \in Nat \ {0}
         /\ ~ program.interleave => prePadMap[x] = 0 /\ vptr[x] % alignmentMap[r] = 0
         /\ program.interleave =>
              /\ alignmentMap[r] = 1
              /\ <<x, addrPt(x) - prePadMap[x]>> \in CloudEntries(r)
              /\ vptr[x] = Rank(r, <<x, addrPt(x) - prePadMap[x]>>)
<1> USE DEF IInv
<1>1. x \in VTables /\ isDefined(x)
  BY Clouds DEF DefinedIn
<1>2. /\ first(x) \in Nat /\ addrPt(x) \in Nat /\ last(x) \in Nat
      /\ first(x) < addrPt(x) /\ addrPt(x) <= last(x) /\ prePadMap[x] \in Nat
  BY <1>1, RegionFacts DEF TypeOK
<1>3. x \in DOMAIN vptr
  BY DEF EmitInv
<1>4. vptr[x] \in Nat /\ vptr[x] = newIndex[<<x, addrPt(x) - prePadMap[x]>>]
  BY <1>3 DEF EmitInv, TypeOK, PartialMap
<1>5. r \in DOMAIN alignmentMap /\ alignmentMap[r] \in Nat \ {0}
  BY DEF CursorInv, TypeOK, PartialMap
<1>6. ASSUME ~ program.interleave
      PROVE  prePadMap[x] = 0 /\ vptr[x] % alignmentMap[r] = 0
  <2>1. x \in PlacedIn(r) /\ prePadMap[x] = 0
    BY <1>1, <1>6, AllPlaced DEF OrderedInv
  <2>2. newIndex[<<x, addrPt(x)>>] % alignmentMap[r] = 0
    BY <1>6, <2>1 DEF OrderedInv
  <2>3. addrPt(x) - prePadMap[x] = addrPt(x)
    BY <1>2, <2>1
  <2>4. QED
    BY <1>4, <2>1, <2>2, <2>3
<1>7. ASSUME program.interleave
      PROVE  /\ alignmentMap[r] = 1
             /\ <<x, addrPt(x) - prePadMap[x]>> \in CloudEntries(r)
             /\ vptr[x] = Rank(r, <<x, addrPt(x) - prePadMap[x]>>)
  <2>1. alignmentMap[r] = 1
    BY <1>5, <1>7 DEF RankedInv
  <2>2. addrPt(x) - prePadMap[x] \in first(x) - prePadMap[x] .. last(x)
    BY <1>2
  <2>3. <<x, addrPt(x) - prePadMap[x]>> \in Entries(x)
    BY <2>2 DEF Entries
  <2>4. <<x, addrPt(x) - prePadMap[x]>> \in CloudEntries(r)
    BY <2>3, Zenon DEF CloudEntries
  <2>5. PlacedUpTo(r) > 0
    BY AllPlaced
  <2>6. QED
    BY <1>4, <1>7, <2>1, <2>4, <2>5 DEF RankedInv
<1>8. QED
  BY <1>2, <1>4, <1>5, <1>6, <1>7

\* A table before another, or with a pad, has the smaller vptr.
LEMMA EarlierVptr ==
  ASSUME IInv, pc = "done", NEW r \in roots, NEW x \in DefinedIn(r), NEW w \in DefinedIn(r),
         prePadMap[x] = 0, Index(r, w) < Index(r, x) \/ prePadMap[w] > 0
  PROVE  vptr[w] < vptr[x]
<1> USE DEF IInv
<1>1. ASSUME NEW y \in {x, w}
      PROVE  /\ y \in VTables /\ isDefined(y) /\ y \in CloudOf(r) /\ y \in DefinedIn(r)
             /\ first(y) \in Nat /\ addrPt(y) \in Nat /\ last(y) \in Nat
             /\ first(y) < addrPt(y) /\ addrPt(y) <= last(y)
             /\ Index(r, y) \in Nat /\ y \in PlacedIn(r)
             /\ prePadMap[y] \in Nat
  <2>1. y \in DefinedIn(r) /\ y \in VTables /\ isDefined(y) /\ y \in CloudOf(r)
    BY Clouds DEF DefinedIn
  <2>2. Index(r, y) \in Nat
    BY <2>1, IndexFacts
  <2>3. y \in PlacedIn(r)
    BY <2>1, AllPlaced
  <2>4. prePadMap[y] \in Nat
    BY <2>1 DEF TypeOK
  <2>5. QED
    BY <2>1, <2>2, <2>3, <2>4, RegionFacts
<1>2. CASE ~ program.interleave
  <2>1. prePadMap[w] = 0 /\ Index(r, w) < Index(r, x)
    BY <1>1, <1>2 DEF OrderedInv
  <2>2. ASSUME NEW y \in {x, w}
        PROVE  /\ vptr[y] = newIndex[<<y, addrPt(y)>>] /\ vptr[y] \in Nat
               /\ newIndex[<<y, first(y)>>] = vptr[y] + first(y) - addrPt(y)
               /\ newIndex[<<y, last(y)>>] = vptr[y] + last(y) - addrPt(y)
    <3>1. addrPt(y) - prePadMap[y] = addrPt(y)
      BY <1>1, <2>1
    <3>2. vptr[y] = newIndex[<<y, addrPt(y)>>] /\ vptr[y] \in Nat
      BY <1>1, <3>1, VptrFacts
    <3>3. first(y) \in first(y) .. last(y) /\ last(y) \in first(y) .. last(y)
      BY <1>1
    <3>4. \A i \in first(y) .. last(y) :
            newIndex[<<y, i>>] = newIndex[<<y, addrPt(y)>>] + i - addrPt(y)
      BY <1>1, <1>2 DEF OrderedInv
    <3>5. QED
      BY <3>2, <3>3, <3>4
  <2>3. newIndex[<<w, last(w)>>] < newIndex[<<x, first(x)>>]
    BY <1>1, <1>2, <2>1 DEF OrderedInv
  <2>4. /\ vptr[x] \in Nat /\ newIndex[<<x, first(x)>>] = vptr[x] + first(x) - addrPt(x)
        /\ vptr[w] \in Nat /\ newIndex[<<w, last(w)>>] = vptr[w] + last(w) - addrPt(w)
    BY <2>2
  <2>5. /\ first(x) \in Nat /\ addrPt(x) \in Nat /\ first(x) < addrPt(x)
        /\ last(w) \in Nat /\ addrPt(w) \in Nat /\ addrPt(w) <= last(w)
    BY <1>1
  <2>6. QED
    BY <2>3, <2>4, <2>5
<1>3. CASE program.interleave
  <2> DEFINE d == <<w, addrPt(w) - prePadMap[w]>>
             e == <<x, addrPt(x) - prePadMap[x]>>
  <2>1. /\ d \in CloudEntries(r) /\ vptr[w] = Rank(r, d)
        /\ e \in CloudEntries(r) /\ vptr[x] = Rank(r, e)
    BY <1>3, VptrFacts
  <2>2. /\ addrPt(w) - prePadMap[w] \in Int /\ addrPt(w) - prePadMap[w] - addrPt(w) <= 0
        /\ prePadMap[w] > 0 => addrPt(w) - prePadMap[w] - addrPt(w) < 0
        /\ addrPt(w) - prePadMap[w] - addrPt(w) \in Int
        /\ prePadMap[w] = 0 => addrPt(w) - prePadMap[w] - addrPt(w) = 0
        /\ addrPt(x) - prePadMap[x] \in Int /\ addrPt(x) - prePadMap[x] - addrPt(x) = 0
    BY <1>1
  <2>3. /\ Row(d) = addrPt(w) - prePadMap[w] - addrPt(w)
        /\ Row(e) = addrPt(x) - prePadMap[x] - addrPt(x)
    BY <2>2, RowOf
  <2>4. d[1] = w /\ e[1] = x
    OBVIOUS
  <2> HIDE DEF d, e
  <2>5. prePadMap[w] > 0 \/ (prePadMap[w] = 0 /\ Index(r, w) < Index(r, x))
    BY <1>1
  <2>6. Row(d) < Row(e) \/ (Row(d) = Row(e) /\ Index(r, d[1]) < Index(r, e[1]))
    BY <2>2, <2>3, <2>4, <2>5
  <2>7. Precedes(r, d, e)
    BY <2>6 DEF Precedes, Row
  <2>8. QED
    BY <2>1, <2>7, RankIncreases DEF TypeOK
<1>4. QED
  BY <1>2, <1>3

\* The ranges of the check for v: the runs of its preorder, each from the vptr of its
\* first defined vtable.
LEMMA RangesOfRuns ==
  ASSUME IInv, pc = "done", NEW r \in roots, NEW v \in CloudOf(r)
  PROVE  memRangeMap[v] =
           {[start |-> vptr[CloudOrder(r)[Min(DefinedAt(r, q))]],
             width |-> Cardinality(DefinedAt(r, q))] :
              q \in {p \in Coalesced(Below(r, v)) : DefinedAt(r, p) # {}}}
<1> USE DEF IInv
<1> DEFINE R == {p \in Coalesced(Below(r, v)) : DefinedAt(r, p) # {}}
           x(q) == CloudOrder(r)[Min(DefinedAt(r, q))]
           start(u) == newLayoutInds(u, addrPt(u) - first(u))
<1>1. memRangeMap[v] =
        {[start |-> start(x(q)), width |-> Cardinality(DefinedAt(r, q))] : q \in R}
  <2>1. memRangeMap[v] = MemRanges(r, Coalesced(Below(r, v)))
    BY DEF RangeInv
  <2>2. QED
    BY <2>1 DEF MemRanges, DefinedAt
<1>2. ASSUME NEW q \in R
      PROVE  start(x(q)) = vptr[x(q)]
  <2>1. x(q) \in DefinedIn(r) /\ x(q) \in Descendants(v)
    BY RunFacts
  <2> HIDE DEF x
  <2>2. x(q) \in VTables
    BY <2>1, Clouds DEF DefinedIn
  <2>3. start(x(q)) = newIndex[<<x(q), addrPt(x(q)) - prePadMap[x(q)]>>]
    BY <2>2, 0 \in Int, StartOfTable DEF TypeOK
  <2>4. QED
    BY <2>1, <2>3, VptrFacts
<1> HIDE DEF start, R, x
<1>3. memRangeMap[v] = {[start |-> vptr[x(q)], width |-> Cardinality(DefinedAt(r, q))] : q \in R}
  BY <1>1, <1>2
<1>4. QED
  BY <1>3 DEF R, x

\* The vptrs that the check for v admits.
LEMMA AdmittedVptrs ==
  ASSUME IInv, pc = "done", NEW r \in roots, NEW v \in CloudOf(r)
  PROVE  \A n : n \in Admitted(v) <=>
           \E q \in Coalesced(Below(r, v)) :
             /\ DefinedAt(r, q) # {}
             /\ \E i \in 0 .. Cardinality(DefinedAt(r, q)) - 1 :
                  n = vptr[CloudOrder(r)[Min(DefinedAt(r, q))]] + i * alignmentMap[r]
<1> DEFINE R == {p \in Coalesced(Below(r, v)) : DefinedAt(r, p) # {}}
           start(q) == vptr[CloudOrder(r)[Min(DefinedAt(r, q))]]
           width(q) == Cardinality(DefinedAt(r, q))
           vptrs(m, s) == {m.start + i * alignmentMap[s] : i \in 0 .. m.width - 1}
           S == {s \in roots : v \in CloudOf(s)}
<1>1. memRangeMap[v] = {[start |-> start(q), width |-> width(q)] : q \in R}
  BY RangesOfRuns
<1>2. S = {r}
  <2>1. v \in VTables /\ \A s \in roots : v \in CloudOf(s) => s = r
    BY Clouds DEF IInv
  <2>2. QED
    BY <2>1
<1>3. Admitted(v) = UNION {vptrs(m, s) : m \in memRangeMap[v], s \in S}
  BY DEF Admitted
<1>4. \A m, n : n \in vptrs(m, r) <=>
                 \E i \in 0 .. m.width - 1 : n = m.start + i * alignmentMap[r]
  OBVIOUS
<1> HIDE DEF vptrs, S, start, width, R
<1>5. \A n : n \in Admitted(v) <=> \E m \in memRangeMap[v] : n \in vptrs(m, r)
  BY <1>2, <1>3
<1>6. /\ \A m \in memRangeMap[v] : \E q \in R : m.start = start(q) /\ m.width = width(q)
      /\ \A q \in R : \E m \in memRangeMap[v] : m.start = start(q) /\ m.width = width(q)
  <2>1. ASSUME NEW q \in R, NEW m, m = [start |-> start(q), width |-> width(q)]
        PROVE  m \in memRangeMap[v] /\ m.start = start(q) /\ m.width = width(q)
    BY <1>1, <2>1
  <2>2. \A m \in memRangeMap[v] : \E q \in R : m = [start |-> start(q), width |-> width(q)]
    BY <1>1
  <2>3. QED
    BY <2>1, <2>2
<1>7. \A n : n \in Admitted(v) <=>
        \E q \in R : \E i \in 0 .. width(q) - 1 : n = start(q) + i * alignmentMap[r]
  BY <1>4, <1>5, <1>6
<1>8. QED
  BY <1>7 DEF R, start, width

\* A vptr that the check for v admits belongs to a vtable below v, unless a pad has
\* moved the vptrs the ranges begin with.
THEOREM AdmitsOnlyDescendants == Spec => []OnlyDescendantsAdmitted
<1>1. IInv => OnlyDescendantsAdmitted
  <2> SUFFICES ASSUME IInv, pc = "done", NEW r \in roots, NEW v \in CloudOf(r), NEW w \in CloudOf(r),
                      \A u \in Descendants(v) : prePadMap[u] = 0,
                      isDefined(w), vptr[w] \in Admitted(v), w \notin Descendants(v)
               PROVE  FALSE
    BY DEF OnlyDescendantsAdmitted
  <2> USE DEF IInv
  <2> DEFINE A == alignmentMap[r]
             n == Len(CloudOrder(r))
             at(k) == CloudOrder(r)[k]
  <2>1. PICK q \in Coalesced(Below(r, v)) :
          /\ DefinedAt(r, q) # {}
          /\ \E i \in 0 .. Cardinality(DefinedAt(r, q)) - 1 :
               vptr[w] = vptr[at(Min(DefinedAt(r, q)))] + i * A
    BY AdmittedVptrs
  <2> DEFINE D == DefinedAt(r, q)
             x == at(Min(D))
  <2>2. PICK i \in 0 .. Cardinality(D) - 1 : vptr[w] = vptr[x] + i * A
    BY <2>1
  <2>3. /\ q[1] \in Nat /\ q[2] \in Nat
        /\ D \subseteq 1 .. n /\ IsFiniteSet(D) /\ Cardinality(D) \in Nat
        /\ Min(D) \in D /\ \A k \in D : Min(D) <= k
        /\ \A k \in D : /\ at(k) \in DefinedIn(r) /\ at(k) \in Descendants(v)
                        /\ Index(r, at(k)) = k
    BY <2>1, RunFacts
  <2>4. w \in DefinedIn(r) /\ Index(r, w) \in 1 .. n
    BY IndexFacts DEF DefinedIn
  <2>5. Index(r, w) \notin q[1] .. q[2] - 1
    <3>1. Descendants(v) \subseteq CloudOf(r)
      BY CloudMembers
    <3>2. Index(r, w) \notin Below(r, v)
      BY <3>1, IndexFacts DEF Below
    <3>3. q[1] .. q[2] - 1 \subseteq Below(r, v)
      BY DEF Coalesced
    <3>4. QED
      BY <3>2, <3>3
  <2>6. \A k \in D : k \in q[1] .. q[2] - 1
    BY DEF DefinedAt
  <2>7. n \in Nat /\ A \in Nat \ {0} /\ i \in Nat
    <3>1. n \in Nat
      BY IndexFacts
    <3>2. A \in Nat \ {0}
      BY <2>4, VptrFacts
    <3>3. i \in Nat
      BY <2>3
    <3>4. QED
      BY <3>1, <3>2, <3>3
  <2>8. \A k \in D : prePadMap[at(k)] = 0
    BY <2>3
  <2>9. x \in DefinedIn(r) /\ prePadMap[x] = 0 /\ Index(r, x) = Min(D)
    BY <2>3, <2>8
  <2> HIDE DEF D, x, A, n, at
  <2>10. vptr[x] \in Nat /\ vptr[w] \in Nat
    BY <2>4, <2>9, VptrFacts
  <2>11. ~ (vptr[w] < vptr[x])
    <3>1. i * A \in Nat
      BY <2>7
    <3>2. QED
      BY <2>2, <2>10, <3>1
  <2>12. /\ ~ (Index(r, w) < Index(r, x)) /\ ~ (prePadMap[w] > 0)
    BY <2>4, <2>9, <2>11, EarlierVptr
  <2>13. prePadMap[w] = 0
    <3>1. prePadMap[w] \in Nat
      BY <2>4, VptrFacts
    <3>2. QED
      BY <2>12, <3>1
  <2>14. \A k \in D : k < Index(r, w)
    <3>1. q[2] <= Index(r, w)
      <4>1. Min(D) \in q[1] .. q[2] - 1 /\ Min(D) <= Index(r, w)
        <5>1. Min(D) \in q[1] .. q[2] - 1 /\ Min(D) \in 1 .. n
          BY <2>3, <2>6
        <5>2. Index(r, w) \in Nat /\ Index(r, x) \in Nat
          BY <2>4, <2>9, <5>1
        <5>3. QED
          BY <2>9, <2>12, <5>1, <5>2
      <4>2. QED
        BY <2>3, <2>4, <2>5, <4>1
    <3>2. QED
      BY <2>3, <2>4, <2>6, <3>1
  <2> DEFINE p == [k \in D |-> vptr[at(k)]]
  <2>15. \A k \in D : p[k] = vptr[at(k)] /\ vptr[at(k)] \in Nat
    BY <2>3, VptrFacts
  <2>16. ASSUME NEW k \in D, NEW l \in D, k < l
         PROVE  p[k] < p[l]
    <3>1. at(k) \in DefinedIn(r) /\ at(l) \in DefinedIn(r) /\ Index(r, at(k)) < Index(r, at(l))
      BY <2>3, <2>16
    <3>2. QED
      BY <2>8, <2>15, <3>1, EarlierVptr
  <2>17. \A k \in D : vptr[x] <= p[k] /\ p[k] < vptr[w]
    <3>1. ASSUME NEW k \in D
          PROVE  p[k] < vptr[w]
      <4>1. at(k) \in DefinedIn(r) /\ Index(r, at(k)) < Index(r, w)
        BY <2>3, <2>14
      <4>2. QED
        BY <2>4, <2>13, <2>15, <4>1, EarlierVptr
    <3>2. ASSUME NEW k \in D
          PROVE  vptr[x] <= p[k]
      <4>1. Min(D) = k \/ Min(D) < k
        <5>1. Min(D) \in 1 .. n /\ k \in 1 .. n /\ Min(D) <= k
          BY <2>3
        <5>2. QED
          BY <2>7, <5>1
      <4>2. p[Min(D)] = vptr[x]
        BY <2>3, <2>15 DEF x
      <4>3. Min(D) \in D /\ p[Min(D)] \in Nat /\ p[k] \in Nat
        BY <2>3, <2>15
      <4>4. Min(D) < k => p[Min(D)] < p[k]
        BY <2>16, <4>3
      <4>5. QED
        BY <4>1, <4>2, <4>3, <4>4
    <3>3. QED
      BY <3>1, <3>2
  <2>18. /\ \A k \in D : p[k] % A = 0
         /\ vptr[x] % A = 0 /\ vptr[w] % A = 0
    <3>1. ASSUME NEW y \in DefinedIn(r)
          PROVE  vptr[y] % A = 0
      <4>1. vptr[y] \in Nat
        BY VptrFacts
      <4>2. CASE program.interleave
        <5>1. A = 1
          BY <4>2, VptrFacts DEF A
        <5>2. QED
          BY <4>1, <5>1
      <4>3. CASE ~ program.interleave
        BY <4>3, VptrFacts DEF A
      <4>4. QED
        BY <4>2, <4>3
    <3>2. QED
      BY <2>3, <2>4, <2>9, <2>15, <3>1
  <2>19. p \in [D -> Nat]
    BY <2>15
  <2>20. \A k, l \in D : p[k] = p[l] => k = l
    <3>1. \A k \in D : k \in Nat /\ p[k] \in Nat
      BY <2>3, <2>15
    <3>2. QED
      BY <2>16, <3>1
  <2> HIDE DEF p
  <2>21. Cardinality(D) <= i
    BY <2>2, <2>7, <2>10, <2>17, <2>18, <2>19, <2>20, Spacing
  <2>22. QED
    BY <2>2, <2>3, <2>21
<1>2. QED
  BY <1>1, Invariant, PTL

\* Without pads in an interleaved cloud, vptrs grow by the number of defined vtables.
LEMMA VptrDistance ==
  ASSUME IInv, pc = "done", program.interleave, NEW r \in roots,
         \A v \in CloudOf(r) : prePadMap[v] = 0,
         NEW x \in DefinedIn(r), NEW w \in DefinedIn(r), Index(r, x) <= Index(r, w)
  PROVE  vptr[w] = vptr[x] + Cardinality(DefinedAt(r, <<Index(r, x), Index(r, w)>>))
<1> USE DEF IInv
<1>1. ASSUME NEW y \in DefinedIn(r)
      PROVE  /\ addrPt(y) + 0 \in first(y) - prePadMap[y] .. last(y)
             /\ addrPt(y) - prePadMap[y] = addrPt(y) + 0
             /\ vptr[y] = Rank(r, <<y, addrPt(y) - prePadMap[y]>>)
  <2>1. y \in VTables /\ prePadMap[y] = 0
    BY Clouds DEF DefinedIn
  <2>2. /\ first(y) \in Nat /\ addrPt(y) \in Nat /\ last(y) \in Nat
        /\ first(y) < addrPt(y) /\ addrPt(y) <= last(y)
    BY <2>1, RegionFacts
  <2>3. QED
    BY <2>1, <2>2, VptrFacts
<1>2. Rank(r, <<w, addrPt(w) + 0>>) =
        Rank(r, <<x, addrPt(x) + 0>>) + Cardinality(DefinedAt(r, <<Index(r, x), Index(r, w)>>))
  BY <1>1, 0 \in Int, RowDistance DEF TypeOK
<1>3. QED
  BY <1>1, <1>2

\* What a run of the ranges of v holds before one of its defined vtables.
LEMMA EarlierInRun ==
  ASSUME InputInv, NEW r \in roots, NEW v \in CloudOf(r), NEW q \in Coalesced(Below(r, v)),
         NEW k \in DefinedAt(r, q)
  PROVE  DefinedAt(r, <<Min(DefinedAt(r, q)), k>>) = {l \in DefinedAt(r, q) : l < k}
<1> DEFINE at(l) == CloudOrder(r)[l]
           n == Len(CloudOrder(r))
           D == DefinedAt(r, q)
           before == DefinedAt(r, <<Min(D), k>>)
<1>1. /\ q[1] \in Nat /\ q[2] \in Nat /\ n \in Nat
      /\ D \subseteq 1 .. n /\ Min(D) \in D /\ \A l \in D : Min(D) <= l
  BY RunFacts, IndexFacts
<1>2. before = {l \in Min(D) .. k - 1 : isDefined(at(l))}
  BY DEF DefinedAt
<1>3. D = {l \in q[1] .. q[2] - 1 : isDefined(at(l))}
  BY DEF DefinedAt
<1>4. \A l \in D : l \in Nat /\ Min(D) <= l
  BY <1>1
<1>5. k \in D
  OBVIOUS
<1> HIDE DEF D, before, at
<1>6. /\ Min(D) \in Nat /\ k \in Nat /\ q[1] <= Min(D) /\ k <= q[2] - 1
  <2>1. Min(D) \in q[1] .. q[2] - 1 /\ k \in q[1] .. q[2] - 1
    BY <1>1, <1>3, <1>5
  <2>2. QED
    BY <1>1, <2>1
<1>7. ASSUME NEW l \in before
      PROVE  l \in D /\ l < k
  <2>1. l \in Min(D) .. k - 1 /\ isDefined(at(l))
    BY <1>2
  <2>2. l \in q[1] .. q[2] - 1 /\ l < k
    BY <1>1, <1>6, <2>1
  <2>3. QED
    BY <1>3, <2>1, <2>2
<1>8. ASSUME NEW l \in D, l < k
      PROVE  l \in before
  <2>1. l \in Min(D) .. k - 1
    BY <1>4, <1>6, <1>8
  <2>2. QED
    BY <1>2, <1>3, <2>1
<1>9. before = {l \in D : l < k}
  BY <1>7, <1>8
<1>10. QED
  BY <1>9 DEF before, D

\* What is defined and derives from v is in a run of the ranges of v.
LEMMA DescendantInRun ==
  ASSUME InputInv, NEW r \in roots, NEW v \in CloudOf(r), NEW w \in Descendants(v), isDefined(w)
  PROVE  /\ w \in CloudOf(r) /\ CloudOrder(r)[Index(r, w)] = w
         /\ \E q \in Coalesced(Below(r, v)) : Index(r, w) \in DefinedAt(r, q)
<1> DEFINE n == Len(CloudOrder(r))
<1>1. Descendants(v) \subseteq CloudOf(r) /\ n \in Nat
  BY CloudMembers, IndexFacts
<1>2. Index(r, w) \in 1 .. n /\ CloudOrder(r)[Index(r, w)] = w
  BY <1>1, IndexFacts
<1>3. Below(r, v) \in SUBSET (1 .. n)
  BY <1>1, IndexFacts DEF Below
<1>4. Covered(Coalesced(Below(r, v))) = Below(r, v)
  <2> HIDE DEF n
  <2>1. QED
    BY <1>1, <1>3, CoalescedCovers
<1>5. Index(r, w) \in Covered(Coalesced(Below(r, v)))
  BY <1>4 DEF Below
<1>6. PICK q \in Coalesced(Below(r, v)) : Index(r, w) \in q[1] .. q[2] - 1
  BY <1>5 DEF Covered
<1>7. Index(r, w) \in DefinedAt(r, q)
  BY <1>2, <1>6 DEF DefinedAt
<1>8. QED
  BY <1>1, <1>2, <1>7

\* In an interleaved cloud without pads the vptrs that the check for v admits are those
\* of the vtables below it.
THEOREM AdmitsExactlyDescendants == Spec => []InterleavedRangesExact
<1>1. IInv => InterleavedRangesExact
  <2> SUFFICES ASSUME IInv, pc = "done", program.interleave, NEW r \in roots,
                      \A v \in CloudOf(r) : prePadMap[v] = 0, NEW v \in CloudOf(r)
               PROVE  Admitted(v) = {vptr[w] : w \in {u \in Descendants(v) : isDefined(u)}}
    BY DEF InterleavedRangesExact
  <2> USE DEF IInv
  <2> DEFINE at(k) == CloudOrder(r)[k]
             n == Len(CloudOrder(r))
             start(q) == vptr[at(Min(DefinedAt(r, q)))]
             width(q) == Cardinality(DefinedAt(r, q))
  <2>1. Descendants(v) \subseteq CloudOf(r) /\ n \in Nat
    BY CloudMembers, IndexFacts
  <2>2. \A m : m \in Admitted(v) <=>
          \E q \in Coalesced(Below(r, v)) :
            DefinedAt(r, q) # {} /\ \E i \in 0 .. width(q) - 1 : m = start(q) + i
    <3>1. ASSUME NEW q \in Coalesced(Below(r, v)), DefinedAt(r, q) # {}, NEW i \in 0 .. width(q) - 1
          PROVE  start(q) + i * alignmentMap[r] = start(q) + i
      <4>1. at(Min(DefinedAt(r, q))) \in DefinedIn(r) /\ width(q) \in Nat
        BY <3>1, RunFacts
      <4>2. alignmentMap[r] = 1
        BY <4>1, VptrFacts
      <4>3. i \in Nat
        BY <4>1
      <4>4. QED
        BY <4>2, <4>3
    <3>2. \A m : m \in Admitted(v) <=>
            \E q \in Coalesced(Below(r, v)) :
              /\ DefinedAt(r, q) # {}
              /\ \E i \in 0 .. width(q) - 1 : m = start(q) + i * alignmentMap[r]
      BY AdmittedVptrs
    <3> HIDE DEF start, width
    <3>3. QED
      BY <3>1, <3>2
  <2>3. ASSUME NEW q \in Coalesced(Below(r, v)), DefinedAt(r, q) # {}
        PROVE  /\ \A k \in DefinedAt(r, q) : \E i \in 0 .. width(q) - 1 : vptr[at(k)] = start(q) + i
               /\ \A i \in 0 .. width(q) - 1 : \E k \in DefinedAt(r, q) : vptr[at(k)] = start(q) + i
    <3> DEFINE D == DefinedAt(r, q)
               before(k) == DefinedAt(r, <<Min(D), k>>)
               f == [k \in D |-> Cardinality(before(k))]
    <3>1. /\ q[1] \in Nat /\ q[2] \in Nat
          /\ D \subseteq 1 .. n /\ IsFiniteSet(D) /\ Cardinality(D) \in Nat
          /\ Min(D) \in D /\ \A k \in D : Min(D) <= k
          /\ \A k \in D : at(k) \in DefinedIn(r) /\ Index(r, at(k)) = k
      BY <2>3, RunFacts
    <3>2. \A k \in D : k \in q[1] .. q[2] - 1 /\ isDefined(at(k))
      BY DEF DefinedAt
    <3>3. ASSUME NEW k \in D
          PROVE  /\ before(k) = {l \in D : l < k}
                 /\ before(k) \in SUBSET D
      <4>1. before(k) = {l \in D : l < k}
        BY EarlierInRun
      <4>2. QED
        BY <4>1
    <3> HIDE DEF D, before, n, at
    <3>4. \A k \in D : k \in Nat
      BY <2>1, <3>1
    <3>5. ASSUME NEW k \in D
          PROVE  vptr[at(k)] = start(q) + f[k]
      <4>1. at(Min(D)) \in DefinedIn(r) /\ at(k) \in DefinedIn(r) /\ Min(D) <= k
            /\ Index(r, at(Min(D))) = Min(D) /\ Index(r, at(k)) = k
        BY <3>1
      <4>2. Index(r, at(Min(D))) <= Index(r, at(k))
        BY <4>1
      <4>3. vptr[at(k)] = vptr[at(Min(D))] +
                            Cardinality(DefinedAt(r, <<Index(r, at(Min(D))), Index(r, at(k))>>))
        BY <4>1, <4>2, VptrDistance
      <4>4. QED
        BY <4>1, <4>3 DEF before, D
    <3>6. ASSUME NEW k \in D
          PROVE  /\ f[k] \in 0 .. width(q) - 1 /\ f[k] \in Nat
                 /\ \A l \in D : k < l => f[k] < f[l]
      <4>1. IsFiniteSet(before(k)) /\ Cardinality(before(k)) \in Nat
            /\ Cardinality(before(k)) <= Cardinality(D)
        BY <3>1, <3>3, FS_Subset, FS_CardinalityType
      <4>2. Cardinality(before(k)) # Cardinality(D)
        <5>1. k \notin before(k)
          BY <3>3, <3>4
        <5>2. QED
          BY <3>1, <3>3, <5>1, FS_Subset
      <4>3. ASSUME NEW l \in D, k < l
            PROVE  f[k] < f[l]
        <5>1. before(k) \in SUBSET before(l) /\ k \in before(l) /\ k \notin before(k)
          BY <3>3, <3>4, <4>3
        <5>2. IsFiniteSet(before(l)) /\ Cardinality(before(l)) \in Nat
          BY <3>1, <3>3, FS_Subset, FS_CardinalityType
        <5>3. /\ Cardinality(before(k)) <= Cardinality(before(l))
              /\ Cardinality(before(k)) # Cardinality(before(l))
          BY <5>1, <5>2, FS_Subset
        <5>4. QED
          BY <4>1, <5>2, <5>3
      <4>4. QED
        BY <3>1, <4>1, <4>2, <4>3 DEF D
    <3>7. f \in Injection(D, 0 .. width(q) - 1)
      <4>1. f \in [D -> 0 .. width(q) - 1]
        BY <3>6
      <4>2. \A k, l \in D : f[k] = f[l] => k = l
        BY <3>4, <3>6
      <4> HIDE DEF f
      <4>3. QED
        BY <4>1, <4>2, Zenon DEF Injection, IsInjective
    <3>8. IsFiniteSet(0 .. width(q) - 1) /\ Cardinality(0 .. width(q) - 1) = Cardinality(D)
      <4>1. width(q) = Cardinality(D) /\ width(q) \in Nat
        BY <3>1 DEF D
      <4> HIDE DEF width
      <4>2. 0 \in Int /\ width(q) - 1 \in Int
        BY <4>1
      <4>3. /\ IsFiniteSet(0 .. width(q) - 1)
            /\ Cardinality(0 .. width(q) - 1) =
                 IF 0 > width(q) - 1 THEN 0 ELSE width(q) - 1 - 0 + 1
        BY <4>2, FS_Interval
      <4>4. QED
        BY <4>1, <4>3
    <3>9. \A i \in 0 .. width(q) - 1 : \E k \in D : f[k] = i
      <4> HIDE DEF f, width
      <4>1. f \in Surjection(D, 0 .. width(q) - 1)
        BY <3>7, <3>8, FS_Injection
      <4>2. QED
        BY <4>1 DEF Surjection
    <3> HIDE DEF f, width, start
    <3>10. /\ \A k \in D : \E i \in 0 .. width(q) - 1 : vptr[at(k)] = start(q) + i
           /\ \A i \in 0 .. width(q) - 1 : \E k \in D : vptr[at(k)] = start(q) + i
      BY <3>5, <3>6, <3>9
    <3>11. QED
      BY <3>10 DEF D
  <2>4. ASSUME NEW q \in Coalesced(Below(r, v)), NEW k \in DefinedAt(r, q)
        PROVE  at(k) \in {u \in Descendants(v) : isDefined(u)}
    BY RunFacts DEF DefinedIn
  <2>5. ASSUME NEW w \in Descendants(v), isDefined(w)
        PROVE  \E q \in Coalesced(Below(r, v)) : \E k \in DefinedAt(r, q) : at(k) = w
    <3>1. at(Index(r, w)) = w /\ \E q \in Coalesced(Below(r, v)) : Index(r, w) \in DefinedAt(r, q)
      BY <2>5, DescendantInRun
    <3>2. QED
      BY <3>1
  <2> HIDE DEF at, start, width
  <2>6. ASSUME NEW m \in Admitted(v)
        PROVE  m \in {vptr[w] : w \in {u \in Descendants(v) : isDefined(u)}}
    BY <2>2, <2>3, <2>4
  <2>7. ASSUME NEW w \in Descendants(v), isDefined(w)
        PROVE  vptr[w] \in Admitted(v)
    <3>1. PICK q \in Coalesced(Below(r, v)) : \E k \in DefinedAt(r, q) : at(k) = w
      BY <2>5, <2>7
    <3>2. DefinedAt(r, q) # {}
      BY <3>1
    <3>3. \E i \in 0 .. width(q) - 1 : vptr[w] = start(q) + i
      BY <2>3, <3>1, <3>2
    <3>4. QED
      BY <2>2, <3>2, <3>3
  <2>8. QED
    BY <2>6, <2>7
<1>2. QED
  BY <1>1, Invariant, PTL

------------------------------------------------------------------------------
(* The asserts                                                               *)

\* Every table begins with the tables of its parents, as far from the address
\* point as they need, and ends behind them.
AllExtend ==
  \A v \in VTables : \A p \in Parents(program.metadata, v) : Extends(program.region, v, p)

\* Then no vtable is padded and no assert fails.
FitInv ==
  AllExtend => /\ \A v \in VTables : prePadMap[v] = 0
               /\ pc # "aborted"

\* Every vtable extends what it derives from, not only its parents.
LEMMA ExtendsAncestors ==
  ASSUME InputInv, AllExtend, NEW p \in VTables, NEW x \in Descendants(p)
  PROVE  Extends(program.region, x, p)
<1> DEFINE md == program.metadata
           S == {y \in VTables : Extends(program.region, y, p)}
<1>1. ASSUME NEW y \in VTables
      PROVE  /\ program.region[y].first \in Nat /\ program.region[y].addrPt \in Nat
             /\ program.region[y].last \in Nat
  BY RegionFacts DEF first, addrPt, last
<1>2. p \in S
  BY <1>1 DEF Extends
<1>3. ASSUME NEW y \in S, NEW w \in Children(md, y)
      PROVE  w \in S
  <2>1. w \in VTables /\ y \in VTables /\ y \in Parents(md, w)
    BY InputFacts DEF Children
  <2>2. Extends(program.region, w, y) /\ Extends(program.region, y, p)
    BY <2>1 DEF AllExtend
  <2>3. Extends(program.region, w, p)
    BY <1>1, <2>1, <2>2 DEF Extends
  <2>4. QED
    BY <2>1, <2>3
<1>4. Derived(md, p) \subseteq S
  <2> HIDE DEF S
  <2>1. QED
    BY <1>2, <1>3, DerivedLeast
<1>5. QED
  BY <1>4, OrderFacts

\* What an ordering puts between a vtable and a later child of it derives from it.
LEMMA BranchesFollowed ==
  ASSUME InputInv, NEW r \in roots, NEW p \in CloudOf(r), NEW c \in LaterChildren(r, p),
         NEW x \in Between(r, p, c)
  PROVE  /\ c \in CloudOf(r) /\ c \in VTables /\ p \in VTables
         /\ c \in Descendants(p) /\ x \in Descendants(p)
<1> DEFINE md == program.metadata
           s == CloudOrder(r)
           i == Index(r, p)
           j == Index(r, c)
           k == Index(r, x)
<1>1. p \in VTables /\ c \in ChildrenOf(p) /\ c \in CloudOf(r) /\ x \in CloudOf(r)
  BY Clouds, CloudMembers DEF LaterChildren, Between
<1>2. c \in Children(md, p)
  BY <1>1, InputFacts DEF InputInv, ChildrenOf, ClassHierarchy
<1>3. /\ i \in DOMAIN s /\ j \in DOMAIN s /\ i \in Nat /\ j \in Nat /\ k \in Nat
      /\ s[i] = p /\ s[j] = c /\ s[k] = x
  BY <1>1, IndexFacts
<1>4. k \in i .. j
  <2>1. j > i /\ k \in (i .. j) \cup (j .. i)
    BY DEF LaterChildren, Between
  <2> HIDE DEF i, j, k
  <2>2. QED
    BY <1>3, <2>1
<1>5. FollowsBranches(md, s)
  <2>1. <<r, 0>> \in Described(md) /\ md \in {q.metadata : q \in Programs}
    BY Clouds, InputFacts DEF InputInv
  <2>2. s = Preorder(md, <<r, 0>>)
    BY <2>1 DEF InputInv, CloudOrder, Order, ClassHierarchy
  <2>3. QED
    BY <2>1, <2>2, PreorderAssumption
<1> HIDE DEF s, i, j, k
<1>6. x \in Derived(md, p)
  BY <1>2, <1>3, <1>4, <1>5 DEF FollowsBranches
<1>7. c \in Descendants(p)
  BY <1>1, OrderFacts
<1>8. QED
  BY <1>1, <1>6, <1>7, Clouds, OrderFacts

\* A run: it begins and ends inside the set, and what bounds it is outside.
LEMMA RunShape ==
  ASSUME NEW n \in Nat, NEW I \in SUBSET (1 .. n), NEW x \in Coalesced(I)
  PROVE  /\ x = <<x[1], x[2]>> /\ x[1] \in 1 .. n /\ x[2] \in 1 .. n + 1 /\ x[1] < x[2]
         /\ \A i \in x[1] .. x[2] - 1 : i \in I
         /\ x[1] - 1 \notin I /\ x[2] \notin I
<1>1. /\ x \in I \X {i + 1 : i \in I} /\ x[1] < x[2]
      /\ x[1] .. x[2] - 1 \subseteq I /\ x[1] - 1 \notin I /\ x[2] \notin I
  BY DEF Coalesced
<1>2. x = <<x[1], x[2]>> /\ x[1] \in I /\ x[2] \in {i + 1 : i \in I}
  BY <1>1
<1>3. \A j \in {i + 1 : i \in I} : j \in 1 .. n + 1
  OBVIOUS
<1>4. QED
  BY <1>1, <1>2, <1>3

\* Different runs do not touch.
LEMMA RunsApart ==
  ASSUME NEW n \in Nat, NEW I \in SUBSET (1 .. n),
         NEW p \in Coalesced(I), NEW q \in Coalesced(I), p # q
  PROVE  p[2] < q[1] \/ q[2] < p[1]
<1>1. ASSUME NEW x \in Coalesced(I)
      PROVE  /\ x = <<x[1], x[2]>> /\ x[1] \in Nat /\ x[2] \in Nat /\ x[1] < x[2]
             /\ \A i \in x[1] .. x[2] - 1 : i \in I
             /\ x[1] - 1 \notin I /\ x[2] \notin I
  <2>1. /\ x = <<x[1], x[2]>> /\ x[1] \in 1 .. n /\ x[2] \in 1 .. n + 1 /\ x[1] < x[2]
        /\ \A i \in x[1] .. x[2] - 1 : i \in I
        /\ x[1] - 1 \notin I /\ x[2] \notin I
    BY RunShape
  <2>2. QED
    BY <2>1
<1>2. ASSUME NEW x \in Coalesced(I), NEW y \in Coalesced(I), x[1] < y[1], y[1] <= x[2]
      PROVE  FALSE
  <2>1. y[1] - 1 \in x[1] .. x[2] - 1
    BY <1>1, <1>2
  <2>2. QED
    BY <1>1, <2>1
<1>3. ASSUME NEW x \in Coalesced(I), NEW y \in Coalesced(I), x[1] = y[1], x[2] < y[2]
      PROVE  FALSE
  <2>1. x[2] \in y[1] .. y[2] - 1
    BY <1>1, <1>3
  <2>2. QED
    BY <1>1, <2>1
<1>4. p[1] # q[1] \/ p[2] # q[2]
  BY <1>1
<1>5. p[1] \in Nat /\ p[2] \in Nat /\ q[1] \in Nat /\ q[2] \in Nat
  BY <1>1
<1>6. QED
  BY <1>2, <1>3, <1>4, <1>5

\* The lengths of the runs add up to the number of elements.
LEMMA RunLengths ==
  ASSUME NEW n \in Nat, NEW I \in SUBSET (1 .. n)
  PROVE  MapThenSumSet(LAMBDA q : q[2] - q[1], Coalesced(I)) = Cardinality(I)
<1> DEFINE R == Coalesced(I)
           f == [q \in R |-> q[2] - q[1]]
           body(F) == [s \in SUBSET R |->
                         IF s = {} THEN 0
                         ELSE LET x == CHOOSE x \in s : TRUE
                              IN  (x[2] - x[1]) + F[s \ {x}]]
           F == CHOOSE iter : iter = body(iter)
           U == Tokens(f, R)
           g == [u \in U |-> u[1][1] + u[2] - 1]
<1>1. ASSUME NEW x \in R
      PROVE  /\ x[1] \in Nat /\ x[2] \in Nat /\ x[1] < x[2] /\ x \in (1 .. n) \X (1 .. n + 1)
             /\ \A i \in x[1] .. x[2] - 1 : i \in I
  <2>1. /\ x = <<x[1], x[2]>> /\ x[1] \in 1 .. n /\ x[2] \in 1 .. n + 1 /\ x[1] < x[2]
        /\ \A i \in x[1] .. x[2] - 1 : i \in I
    BY RunShape
  <2> HIDE DEF R
  <2>2. <<x[1], x[2]>> \in (1 .. n) \X (1 .. n + 1)
    BY <2>1
  <2>3. QED
    BY <2>1, <2>2
<1>2. IsFiniteSet(R)
  <2>1. n + 1 \in Nat
    OBVIOUS
  <2>2. IsFiniteSet(1 .. n) /\ IsFiniteSet(1 .. n + 1)
    BY <2>1, FS_Interval
  <2>3. IsFiniteSet((1 .. n) \X (1 .. n + 1))
    BY <2>2, FS_Product
  <2> HIDE DEF R
  <2>4. R \in SUBSET ((1 .. n) \X (1 .. n + 1))
    BY <1>1
  <2>5. QED
    BY <2>3, <2>4, FS_Subset
<1>3. f \in [R -> Nat]
  <2> HIDE DEF R
  <2>1. QED
    BY <1>1
<1>4. MapThenSumSet(LAMBDA q : q[2] - q[1], R) = F[R]
  BY DEF MapThenSumSet, MapThenFoldSet
<1> HIDE DEF R
<1>5. ASSUME NEW G
      PROVE  IsFold(f, R, G) <=> G = body(G)
  <2> DEFINE c(s) == CHOOSE x \in s : TRUE
  <2>1. ASSUME NEW s \in SUBSET R, s # {}
        PROVE  f[c(s)] = c(s)[2] - c(s)[1]
    <3>1. c(s) \in s
      <4>1. \E x \in s : TRUE
        BY <2>1
      <4>2. QED
        BY <4>1, Zenon
    <3> HIDE DEF c
    <3>2. QED
      BY <3>1
  <2> HIDE DEF c, f
  <2>2. [s \in SUBSET R |-> IF s = {} THEN 0 ELSE f[c(s)] + G[s \ {c(s)}]]
          = [s \in SUBSET R |-> IF s = {} THEN 0 ELSE (c(s)[2] - c(s)[1]) + G[s \ {c(s)}]]
    BY <2>1
  <2>3. QED
    BY <2>2 DEF IsFold, c
<1>6. F[R] = Cardinality(U)
  <2> HIDE DEF body
  <2>1. \E G : G = body(G)
    BY <1>2, <1>3, <1>5, FoldOfSum
  <2>2. F = body(F)
    BY <2>1
  <2> HIDE DEF F
  <2>3. IsFold(f, R, F)
    BY <1>5, <2>2
  <2>4. QED
    BY <1>2, <1>3, <2>3, FoldOfSum
<1> HIDE DEF F
<1>7. ASSUME NEW u \in U
      PROVE  /\ u = <<u[1], u[2]>> /\ u[1] \in R /\ u[2] \in Nat
             /\ u[2] >= 1 /\ u[2] <= u[1][2] - u[1][1]
             /\ g[u] = u[1][1] + u[2] - 1 /\ g[u] \in u[1][1] .. u[1][2] - 1
  <2>1. PICK x \in R : u \in {x} \X (1 .. f[x])
    BY DEF Tokens
  <2>2. f[x] = x[2] - x[1]
    OBVIOUS
  <2>3. u = <<u[1], u[2]>> /\ u[1] = x /\ u[2] \in 1 .. x[2] - x[1]
    BY <2>1, <2>2
  <2>4. g[u] = u[1][1] + u[2] - 1
    OBVIOUS
  <2>5. x[1] \in Nat /\ x[2] \in Nat /\ x[1] < x[2]
    BY <1>1
  <2> HIDE DEF g, U
  <2>6. QED
    BY <2>3, <2>4, <2>5
<1>8. g \in Bijection(U, I)
  <2>1. g \in [U -> I]
    <3>1. \A u \in U : g[u] \in I
      BY <1>1, <1>7
    <3> HIDE DEF U
    <3>2. QED
      BY <3>1
  <2>2. ASSUME NEW u \in U, NEW w \in U, g[u] = g[w]
        PROVE  u = w
    <3> DEFINE p == u[1]  q == w[1]
    <3>1. /\ u = <<p, u[2]>> /\ p \in R /\ u[2] \in Nat
          /\ g[u] = p[1] + u[2] - 1 /\ g[u] \in p[1] .. p[2] - 1
          /\ w = <<q, w[2]>> /\ q \in R /\ w[2] \in Nat
          /\ g[w] = q[1] + w[2] - 1 /\ g[w] \in q[1] .. q[2] - 1
      BY <1>7
    <3>2. /\ p[1] \in Nat /\ p[2] \in Nat /\ q[1] \in Nat /\ q[2] \in Nat
      BY <1>1, <3>1
    <3> HIDE DEF g, U, p, q
    <3>3. p = q
      <4> SUFFICES ASSUME p # q
                   PROVE  FALSE
        OBVIOUS
      <4>1. p[2] < q[1] \/ q[2] < p[1]
        BY <3>1, RunsApart DEF R
      <4>2. QED
        BY <2>2, <3>1, <3>2, <4>1
    <3>4. u[2] = w[2]
      <4> DEFINE a == p[1]  i == u[2]  j == w[2]
      <4>1. a \in Nat /\ i \in Nat /\ j \in Nat
        BY <3>1, <3>2
      <4>2. a + i - 1 = a + j - 1
        BY <2>2, <3>1, <3>3
      <4> HIDE DEF a, i, j
      <4>3. i = j
        BY <4>1, <4>2
      <4>4. QED
        BY <4>3 DEF i, j
    <3>5. QED
      BY <3>1, <3>3, <3>4
  <2>3. ASSUME NEW i \in I
        PROVE  \E u \in U : g[u] = i
    <3>1. PICK q \in R : i \in q[1] .. q[2] - 1
      <4>1. i \in Covered(R)
        BY CoalescedCovers DEF R
      <4> HIDE DEF f, g, U, body
      <4>2. QED
        BY <4>1 DEF Covered
    <3>2. q[1] \in Nat /\ q[2] \in Nat
      BY <1>1
    <3> DEFINE m == i - q[1] + 1
               u == <<q, m>>
    <3>3. m \in 1 .. f[q] /\ q[1] + m - 1 = i
      BY <3>1, <3>2
    <3>4. u \in U
      BY <3>3 DEF Tokens
    <3>5. g[u] = q[1] + m - 1
      BY <3>4
    <3>6. QED
      BY <3>3, <3>4, <3>5
  <2>4. QED
    <3> HIDE DEF g, U
    <3>1. QED
      BY <2>1, <2>2, <2>3, Zenon DEF Bijection, Injection, Surjection, IsInjective
<1>9. IsFiniteSet(U)
  BY <1>2, <1>3, TokensStep
<1>10. Cardinality(U) = Cardinality(I)
  <2> HIDE DEF g, U
  <2>1. QED
    BY <1>8, <1>9, FS_Bijection DEF ExistsBijection
<1>11. QED
  BY <1>4, <1>6, <1>10 DEF R

\* verifyVPtrRanges never finds anything wrong.
LEMMA RangesVerify ==
  ASSUME InputInv, NEW r \in roots,
         \A v \in CloudOf(r) : rangeMap[v] = Coalesced(Below(r, v))
  PROVE  VPtrRangesVerified(r)
<1> DEFINE n == Len(CloudOrder(r))
<1>1. n \in Nat
  BY IndexFacts
<1>2. ASSUME NEW v \in CloudOf(r)
      PROVE  /\ v \in VTables /\ Descendants(v) \subseteq CloudOf(r)
             /\ Below(r, v) \in SUBSET (1 .. n)
  <2>1. v \in VTables /\ Descendants(v) \subseteq CloudOf(r)
    BY Clouds, CloudMembers
  <2>2. QED
    BY <2>1, IndexFacts DEF Below
<1> HIDE DEF n
<1>3. ASSUME NEW v \in CloudOf(r)
      PROVE  Cardinality(Below(r, v)) = Len(Order(v))
  <2> DEFINE s == Order(v)
             m == Len(s)
             g == [i \in 1 .. m |-> Index(r, s[i])]
  <2>1. /\ m \in Nat /\ DOMAIN s = 1 .. m /\ Descendants(v) = {s[i] : i \in 1 .. m}
        /\ \A i, j \in 1 .. m : s[i] = s[j] => i = j
    BY <1>2, OrderFacts DEF Descendants, ToSet, Order
  <2>2. \A i \in 1 .. m : s[i] \in CloudOf(r)
    BY <1>2, <2>1
  <2> HIDE DEF s, m
  <2>3. g \in Bijection(1 .. m, Below(r, v))
    <3>1. g \in [1 .. m -> Below(r, v)]
      BY <2>1 DEF Below
    <3>2. ASSUME NEW i \in 1 .. m, NEW j \in 1 .. m, g[i] = g[j]
          PROVE  i = j
      <4>1. Index(r, s[i]) = Index(r, s[j])
        BY <3>2
      <4>2. s[i] = s[j]
        BY <2>2, <4>1, IndexFacts
      <4>3. QED
        BY <2>1, <4>2
    <3>3. \A b \in Below(r, v) : \E i \in 1 .. m : g[i] = b
      BY <2>1 DEF Below
    <3> HIDE DEF g
    <3>4. QED
      BY <3>1, <3>2, <3>3, Zenon DEF Bijection, Injection, Surjection, IsInjective
  <2>4. IsFiniteSet(1 .. m) /\ Cardinality(1 .. m) = m
    BY <2>1, FS_Interval
  <2>5. Cardinality(1 .. m) = Cardinality(Below(r, v))
    <3> HIDE DEF g
    <3>1. QED
      BY <2>3, <2>4, FS_Bijection DEF ExistsBijection
  <2>6. QED
    BY <2>4, <2>5 DEF m, s
<1>4. ASSUME NEW v \in CloudOf(r)
      PROVE  /\ \A p, q \in rangeMap[v] : p # q => p[2] < q[1] \/ q[2] < p[1]
             /\ MapThenSumSet(LAMBDA q : q[2] - q[1], rangeMap[v]) = Len(Order(v))
             /\ \A w \in ToSet(Order(v)) : Index(r, w) \in Covered(rangeMap[v])
  <2> DEFINE I == Below(r, v)
  <2>1. rangeMap[v] = Coalesced(I) /\ I \in SUBSET (1 .. n)
    BY <1>2
  <2>2. \A w \in ToSet(Order(v)) : Index(r, w) \in I
    BY DEF Below, Descendants, Order
  <2>3. Cardinality(I) = Len(Order(v))
    BY <1>3
  <2> HIDE DEF I
  <2>4. \A p, q \in rangeMap[v] : p # q => p[2] < q[1] \/ q[2] < p[1]
    BY <1>1, <2>1, RunsApart
  <2>5. MapThenSumSet(LAMBDA q : q[2] - q[1], Coalesced(I)) = Cardinality(I)
    BY <1>1, <2>1, RunLengths
  <2>6. Covered(Coalesced(I)) = I
    BY <1>1, <2>1, CoalescedCovers
  <2>7. QED
    BY <2>1, <2>2, <2>3, <2>4, <2>5, <2>6
<1>5. QED
  BY <1>4 DEF VPtrRangesVerified

\* The first of the roots, by name.
LEMMA FirstRoot ==
  ASSUME NEW S \in SUBSET Class, S # {}
  PROVE  FirstOf(S) \in S
<1> DEFINE T == {NameRank[s] : s \in S}
<1>1. T \subseteq Nat /\ T # {}
  BY NameRankAssumption
<1>2. PICK m \in T : \A y \in T : m <= y
  BY <1>1, LeastNat
<1>3. PICK s \in S : m = NameRank[s]
  BY <1>2
<1>4. \A y \in S : NameLeq(s, y)
  BY <1>2, <1>3 DEF NameLeq
<1>5. QED
  BY <1>4 DEF FirstOf

\* What verifyNewLayouts compares is in order.
LEMMA LayoutsVerified ==
  ASSUME IInv, pc # "place", AllExtend, \A v \in VTables : prePadMap[v] = 0,
         NEW r \in roots
  PROVE  Dense(r) /\ (program.interleave => CloudVerified(r))
<1> USE DEF IInv
<1>1. ASSUME NEW x \in CloudOf(r)
      PROVE  /\ x \in VTables /\ first(x) \in Nat /\ addrPt(x) \in Nat /\ last(x) \in Nat
             /\ prePadMap[x] = 0
             /\ Depth(x) = addrPt(x) - first(x)
             /\ Entries(x) = {x} \X (first(x) .. last(x))
  <2>1. x \in VTables
    BY Clouds
  <2>2. first(x) \in Nat /\ addrPt(x) \in Nat /\ last(x) \in Nat /\ prePadMap[x] = 0
    BY <2>1, RegionFacts
  <2>3. addrPt(x) - first(x) + 0 = addrPt(x) - first(x) /\ first(x) - 0 = first(x)
    BY <2>2
  <2>4. QED
    BY <2>1, <2>2, <2>3 DEF Depth, Entries
<1>2. Dense(r)
  <2> SUFFICES ASSUME NEW v \in CloudOf(r), isDefined(v)
               PROVE  Entries(v) \subseteq DOMAIN newIndex
    BY DEF Dense
  <2>1. v \in Placed
    BY <1>1, AllPlaced
  <2>2. QED
    BY <2>1, Zenon DEF PlacedInv
<1>3. ASSUME NEW p \in CloudOf(r), NEW c \in LaterChildren(r, p)
      PROVE  /\ c \in CloudOf(r)
             /\ addrPt(p) - first(p) <= addrPt(c) - first(c)
             /\ last(p) - addrPt(p) <= last(c) - addrPt(c)
             /\ \A x \in Between(r, p, c) : Extends(program.region, x, p)
  <2>1. c \in CloudOf(r) /\ c \in Descendants(p) /\ p \in VTables
    BY <1>1, CloudMembers, OrderFacts DEF LaterChildren
  <2>2. Extends(program.region, c, p)
    BY <2>1, ExtendsAncestors
  <2>3. \A x \in Between(r, p, c) : Extends(program.region, x, p)
    BY <2>1, BranchesFollowed, ExtendsAncestors
  <2>4. QED
    BY <2>1, <2>2, <2>3 DEF Extends, first, addrPt, last
<1>4. ASSUME NEW q \in DefinedPairs(r)
      PROVE  Contained(q[1], q[2]) /\ (program.interleave => SameOffsets(q[1], q[2]))
  <2> DEFINE p == q[1]  c == q[2]
  <2>1. p \in CloudOf(r) /\ isDefined(p) /\ isDefined(c) /\ c \in LaterChildren(r, p)
    BY DEF DefinedPairs
  <2> HIDE DEF p, c
  <2>2. c \in CloudOf(r)
    BY <1>3, <2>1
  <2>3. Contained(p, c)
    BY <1>1, <1>3, <2>1, <2>2 DEF Contained
  <2>4. ASSUME program.interleave, NEW e \in Entries(p)
        PROVE  newIndex[e] - newIndex[<<p, addrPt(p)>>] =
                 newIndex[<<c, e[2] - addrPt(p) + addrPt(c)>>] - newIndex[<<c, addrPt(c)>>]
    <3> DEFINE i == e[2]
               k == i - addrPt(p)
    <3>1. e = <<p, i>> /\ i \in first(p) .. last(p)
      BY <1>1, <2>1
    <3> HIDE DEF i
    <3>2. /\ k \in first(p) - addrPt(p) .. last(p) - addrPt(p)
          /\ addrPt(p) + k = i /\ addrPt(c) + k = i - addrPt(p) + addrPt(c)
      BY <1>1, <2>1, <2>2, <3>1
    <3> HIDE DEF k
    <3>3. p \in DefinedIn(r) /\ c \in DefinedIn(r)
      BY <2>1, <2>2 DEF DefinedIn
    <3>4. newIndex[<<c, addrPt(c) + k>>] - newIndex[<<c, addrPt(c)>>] =
            newIndex[<<p, addrPt(p) + k>>] - newIndex[<<p, addrPt(p)>>]
      BY <1>3, <2>1, <2>4, <3>2, <3>3, RowDistances
    <3>5. QED
      BY <3>1, <3>2, <3>4 DEF i
  <2>5. QED
    BY <2>3, <2>4 DEF SameOffsets, p, c
<1>5. QED
  BY <1>2, <1>4 DEF CloudVerified

\* A step keeps the pads at nothing, and no assert ends the pass.
LEMMA FitStep ==
  ASSUME IInv, FitInv, [Next]_vars
  PROVE  FitInv'
<1> USE DEF IInv
<1>1. program' = program /\ cha' = cha
  BY Phases
<1>2. VTables' = VTables /\ AllExtend' = AllExtend
  BY <1>1, InputUnchanged DEF AllExtend
<1> SUFFICES ASSUME AllExtend
             PROVE  (\A v \in VTables : prePadMap'[v] = 0) /\ pc' # "aborted"
  BY <1>2 DEF FitInv
<1>3. (\A v \in VTables : prePadMap[v] = 0) /\ pc # "aborted"
  BY DEF FitInv
<1>4. ASSUME NEW v \in VTables, PadChildren(v)
      PROVE  (\A w \in VTables : prePadMap'[w] = 0) /\ pc' = pc
  <2>1. ASSUME NEW w \in LaterChildren(cloud, v)
        PROVE  ~ (Depth(v) > Depth(w))
    <3>1. w \in VTables /\ w \in Descendants(v)
      BY DescendantsOfChildren, OrderFacts DEF LaterChildren
    <3>2. Extends(program.region, w, v)
      BY <3>1, ExtendsAncestors
    <3>3. addrPt(v) - first(v) <= addrPt(w) - first(w)
      BY <3>2 DEF Extends, first, addrPt
    <3>4. /\ first(v) \in Nat /\ addrPt(v) \in Nat /\ first(w) \in Nat /\ addrPt(w) \in Nat
          /\ prePadMap[v] = 0 /\ prePadMap[w] = 0
      BY <1>3, <3>1, RegionFacts
    <3>5. QED
      BY <3>3, <3>4 DEF Depth
  <2>2. \A w \in VTables : prePadMap'[w] = prePadMap[w]
    BY <1>4, <2>1 DEF PadChildren
  <2>3. QED
    BY <1>3, <1>4, <2>2 DEF PadChildren
<1>5. ASSUME NEW r \in todo, EmitCloud(r)
      PROVE  UNCHANGED prePadMap /\ pc' = pc
  <2>1. r \in roots /\ pc = "emit"
    BY <1>5 DEF TypeOK, EmitCloud
  <2>2. ASSUME NEW e \in DOMAIN newIndex, e[1] \in CloudOf(r)
        PROVE  ~ (e[2] < 0)
    <3>1. e \in UNION {Entries(v) : v \in PlacedIn(r)}
      BY <2>1, <2>2, PlacedOfCloud
    <3>2. PICK v \in PlacedIn(r) : e \in Entries(v)
      BY <3>1
    <3>3. v \in VTables
      BY <2>1, PlacedFacts
    <3>4. first(v) \in Nat /\ last(v) \in Nat /\ prePadMap[v] = 0
      BY <1>3, <3>3, RegionFacts
    <3>5. e[2] \in first(v) - prePadMap[v] .. last(v)
      BY <3>2 DEF Entries
    <3>6. QED
      BY <3>4, <3>5
  <2>3. QED
    BY <1>5, <2>2 DEF EmitCloud, layout
<1>6. ASSUME BuildMemRanges
      PROVE  UNCHANGED prePadMap /\ pc' = pc
  <2>1. pc = "range" /\ cloud # NoCloud
    BY <1>6 DEF BuildMemRanges
  <2>2. cloud \in roots /\ \A v \in CloudOf(cloud) : rangeMap[v] = Coalesced(Below(cloud, v))
    BY <2>1 DEF RangeInv
  <2>3. VPtrRangesVerified(cloud)
    BY <2>2, RangesVerify
  <2>4. QED
    BY <1>6, <2>3 DEF BuildMemRanges, layout
<1>7. ASSUME VerifyNewLayouts
      PROVE  UNCHANGED prePadMap /\ pc' = "done"
  <2>1. pc # "place"
    BY <1>7 DEF VerifyNewLayouts
  <2>2. \A r \in roots : Dense(r) /\ (program.interleave => CloudVerified(r))
    BY <1>3, <2>1, LayoutsVerified
  <2>3. roots # {} => FirstOf(roots) \in roots
    BY InputFacts, FirstRoot
  <2>4. IF program.interleave THEN \A r \in roots : CloudVerified(r)
        ELSE roots # {} => Dense(FirstOf(roots))
    BY <2>2, <2>3
  <2>5. QED
    BY <1>7, <2>4 DEF VerifyNewLayouts, layout
<1>8. ASSUME ~ (\E v \in VTables : PadChildren(v)), ~ (\E r \in todo : EmitCloud(r)),
             ~ BuildMemRanges, ~ VerifyNewLayouts
      PROVE  UNCHANGED prePadMap /\ pc' # "aborted"
  BY <1>3, <1>8, Zenon
     DEF Next, Place, StartCloud, OrderVTable, InterleaveCloud, FinishOrder, NextLoop,
         CoalesceRanges, Finished, vars, layout
<1>9. QED
  BY <1>3, <1>4, <1>5, <1>6, <1>7, <1>8

\* When every table extends those of its parents, none is padded and no assert
\* ends the pass: the layout builder handles any such hierarchy to the end.
THEOREM AbortsOnlyMisfits == Spec => []OnlyMisfitsAbort
<1>1. Init => FitInv
  <2> SUFFICES ASSUME Init
               PROVE  FitInv
    OBVIOUS
  <2>1. pc = "place" /\ prePadMap = [v \in VTables |-> 0]
    BY DEF Init
  <2>2. QED
    BY <2>1 DEF FitInv
<1>2. IInv /\ FitInv /\ [Next]_vars => FitInv'
  BY FitStep
<1>3. IInv /\ FitInv => OnlyMisfitsAbort
  BY DEF FitInv, AllExtend, OnlyMisfitsAbort
<1>4. QED
  BY <1>1, <1>2, <1>3, Invariant, PTL DEF Spec

==============================================================================
