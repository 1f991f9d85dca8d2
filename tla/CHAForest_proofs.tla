-------------------------- MODULE CHAForest_proofs ---------------------------
(****************************************************************************)
(* Proofs about the outcome of the class hierarchy analysis: the types of   *)
(* its maps, the layout class of every sub-vtable, the sizes of clouds, and *)
(* that the analysis implements ClassForest.                                *)
(****************************************************************************)
EXTENDS CHA_proofs

------------------------------------------------------------------------------
(* The parent map once the reading is over                                   *)

\* The parent map holds the parents of each described vtable, and nothing else.
LEMMA ParentMapComplete ==
  ASSUME ReadInv, pending = {}
  PROVE  /\ DOMAIN parentMap = DOMAIN metadata
         /\ \A v \in Described(metadata) :
              /\ v[1] \in DOMAIN parentMap
              /\ v[2] + 1 \in DOMAIN parentMap[v[1]]
              /\ parentMap[v[1]][v[2] + 1] = Parents(metadata, v)
         /\ \A c \in DOMAIN parentMap : \A i \in DOMAIN parentMap[c] :
              \E v \in Described(metadata) :
                v = <<c, i - 1>> /\ parentMap[c][i] = Parents(metadata, v)
<1>1. parentMap = [c \in DOMAIN metadata |-> ParentSets(c)]
  BY DEF ReadInv, ReadSoFar, ReadClasses
<1>2. \A c \in DOMAIN metadata : Len(metadata[c].subVTables) \in Nat
  BY DEF ReadInv, InputOK, IsMetadata, ClassInfo
<1>3. ASSUME NEW v \in Described(metadata)
      PROVE  /\ v[1] \in DOMAIN parentMap
             /\ v[2] + 1 \in DOMAIN parentMap[v[1]]
             /\ parentMap[v[1]][v[2] + 1] = Parents(metadata, v)
  <2>1. PICK c \in DOMAIN metadata : v \in OwnVTables(metadata, c)
    BY DEF Described
  <2>2. v[1] = c /\ v[2] + 1 \in 1 .. Len(metadata[c].subVTables)
    BY <2>1, OwnVTableType DEF ReadInv, InputOK
  <2>3. ParentSets(c)[v[2] + 1] = Parents(metadata, v)
    BY <2>1, ParentSetsType DEF ReadInv, InputOK
  <2>4. DOMAIN ParentSets(c) = 1 .. Len(metadata[c].subVTables)
    BY DEF ParentSets
  <2>5. QED
    BY <1>1, <2>2, <2>3, <2>4
<1>4. ASSUME NEW c \in DOMAIN metadata, NEW i \in DOMAIN parentMap[c]
      PROVE  \E v \in Described(metadata) :
               v = <<c, i - 1>> /\ parentMap[c][i] = Parents(metadata, v)
  <2>1. i \in 1 .. Len(metadata[c].subVTables)
    BY <1>1 DEF ParentSets
  <2>2. i - 1 \in 0 .. Len(metadata[c].subVTables) - 1 /\ (i - 1) + 1 = i
    BY <1>2, <2>1
  <2>3. <<c, i - 1>> \in OwnVTables(metadata, c)
    BY <2>2 DEF OwnVTables
  <2>4. <<c, i - 1>> \in Described(metadata)
    BY <2>3 DEF Described
  <2>5. parentMap[c][i] = Parents(metadata, <<c, i - 1>>)
    BY <1>3, <2>2, <2>4
  <2>6. QED
    BY <2>4, <2>5
<1>5. QED
  BY <1>1, <1>3, <1>4

------------------------------------------------------------------------------
(* Type correctness                                                          *)

ResultDomains == DOMAIN subObjNameMap \subseteq Class /\ DOMAIN cloudSizeMap \subseteq VTable

\* The ancestor map is keyed by vtables of the metadata.
LEMMA AncestorDomain ==
  ASSUME ReadInv, WalkInv
  PROVE  DOMAIN ancestorMap \subseteq Described(metadata)
<1> SUFFICES ASSUME NEW v \in DOMAIN ancestorMap
             PROVE  v \in Described(metadata)
  OBVIOUS
<1>1. v \in D(ancestorMap[v]) /\ ancestorMap[v] \in roots
  BY DEF WalkInv, Claims, WalkTypes
<1>2. QED
  BY <1>1, RootsDescribed DEF D, Derived

\* Only two steps assign the maps of the results.
LEMMA NextResultDomains ==
  ASSUME ReadInv, WalkInv, ResultDomains, [Next]_vars
  PROVE  ResultDomains'
<1>1. DOMAIN parentMap \subseteq Class
  BY DEF ReadInv, ReadSoFar, InputOK, IsMetadata, ReadClasses
<1>2. DOMAIN ancestorMap \subseteq VTable
  BY AncestorDomain, DescribedType DEF ReadInv, InputOK
<1>3. CASE NameSubObjects
  BY <1>1, <1>3 DEF NameSubObjects, ResultDomains
<1>4. CASE CountChildren
  BY <1>2, <1>4 DEF CountChildren, ResultDomains
<1>5. CASE UNCHANGED <<subObjNameMap, cloudSizeMap>>
  BY <1>5 DEF ResultDomains
<1>6. QED
  BY <1>3, <1>4, <1>5 DEF Next, Read, Walk, AddClassInfo, RejectSecondaryRoot,
     CheckUndefined, StartPreorder, Visit, Return, ClaimDescendants, Finished, vars,
     results

\* Every variable keeps its type.
THEOREM TypeCorrect == Spec => []TypeOK
<1>1. Init => ResultDomains
  BY DEF Init, ResultDomains, EmptyMap
<1>2. ReadInv /\ WalkInv /\ ResultDomains /\ [Next]_vars => ResultDomains'
  BY NextResultDomains
<1>3. ASSUME ReadInv, WalkInv, ResultDomains
      PROVE  TypeOK
  <2>1. IsMetadata(metadata) /\ pending \subseteq DOMAIN metadata
    BY <1>3 DEF ReadInv, InputOK
  <2>2. ReadVTables \subseteq VTable
    BY <2>1, OwnVTableType DEF ReadVTables
  <2>3. ReadParents \subseteq VTable
    BY <2>1, OwnVTableType DEF ReadParents, ReadVTables
  <2>4. PartialMap(cloudMap, VTable, SUBSET VTable)
    BY <1>3, <2>2, <2>3 DEF ReadInv, ReadSoFar, PartialMap
  <2>5. PartialMap(parentMap, Class, Seq(SUBSET VTable))
    <3>1. parentMap = [c \in ReadClasses |-> ParentSets(c)]
      BY <1>3 DEF ReadInv, ReadSoFar
    <3>2. \A c \in ReadClasses : ParentSets(c) \in Seq(SUBSET VTable) /\ c \in Class
      BY <2>1, ParentSetsType DEF ReadClasses, IsMetadata
    <3>3. QED
      BY <3>1, <3>2 DEF PartialMap
  <2>6. undefinedVTables \subseteq Class
    BY <1>3, <2>1 DEF ReadInv, ReadSoFar, ReadClasses, IsMetadata
  <2>7. build_undefinedVtables \subseteq VTable
    BY <1>3, <2>3 DEF ReadInv, ReadSoFar
  <2>8. PartialMap(ancestorMap, VTable, roots)
    BY <1>3, <2>1, AncestorDomain, DescribedType DEF PartialMap, WalkInv, WalkTypes
  <2>9. roots \subseteq Class
    BY <1>3, RootsDescribed
  <2>10. QED
    BY <1>3, <2>1, <2>4, <2>5, <2>6, <2>7, <2>8, <2>9
       DEF TypeOK, ReadInv, InputOK, WalkInv, WalkTypes, ResultDomains
<1>4. QED
  BY <1>1, <1>2, <1>3, ReadInvariant, WalkInvariant, PTL DEF Spec

------------------------------------------------------------------------------
(* Ancestors when the walks are over                                         *)

WalksDone == ReadInv /\ WalkInv /\ pc \in {"claim", "count", "done"} /\ todo = {}

\* Every described vtable has been claimed.
LEMMA AllClaimed ==
  ASSUME WalksDone
  PROVE  DOMAIN ancestorMap = Described(metadata)
<1>1. IsMetadata(metadata) /\ NamedParents(metadata) \subseteq Described(metadata)
  BY ReadComplete DEF WalksDone, ReadInv, ReadSoFar, InputOK
<1>2. \A s \in roots : D(s) \subseteq DOMAIN ancestorMap
  BY DEF WalksDone, WalkInv, WalkedInOrder
<1>3. \A v \in Described(metadata) : IsRoot(metadata, v) => v \in DOMAIN ancestorMap
  <2> SUFFICES ASSUME NEW v \in Described(metadata), IsRoot(metadata, v)
               PROVE  v \in DOMAIN ancestorMap
    OBVIOUS
  <2>1. PICK c \in DOMAIN metadata : v \in OwnVTables(metadata, c)
    BY DEF Described
  <2>2. v[2] = 0 /\ roots = RootClasses(metadata)
    BY ReadComplete DEF WalksDone, ReadInv, ReadSoFar
  <2>3. v = <<c, 0>> /\ c \in roots
    BY <1>1, <2>1, <2>2, OwnVTableType DEF RootClasses
  <2>4. v \in D(c)
    BY <2>3, DerivedSelf DEF D
  <2>5. QED
    BY <1>2, <2>3, <2>4
<1>4. ASSUME NEW v \in DOMAIN ancestorMap
      PROVE  Children(metadata, v) \subseteq DOMAIN ancestorMap
  <2>1. v \in D(ancestorMap[v]) /\ ancestorMap[v] \in roots
    BY DEF WalksDone, WalkInv, Claims, WalkTypes
  <2>2. Children(metadata, v) \subseteq D(ancestorMap[v])
    BY <2>1, DerivedClosed DEF D, ClosedUnderChildren
  <2>3. QED
    BY <1>2, <2>1, <2>2
<1>5. QED
  BY <1>1, <1>3, <1>4, ForestReached, AncestorDomain DEF WalksDone

\* Some parent of a vtable that has parents was filed under the same root.
LEMMA ParentWithAncestor ==
  ASSUME WalksDone, NEW v \in Described(metadata), Parents(metadata, v) # {}
  PROVE  \E p \in Parents(metadata, v) : ancestorMap[p] = ancestorMap[v]
<1> DEFINE r == ancestorMap[v]
<1>1. v \in DOMAIN ancestorMap
  BY AllClaimed
<1>2. r \in roots /\ v \in D(r)
  BY <1>1 DEF WalksDone, WalkInv, Claims, WalkTypes
<1>3. v # <<r, 0>>
  BY <1>2, RootsDescribed DEF WalksDone, ReadInv, InputOK, IsMetadata
<1>4. PICK p \in Parents(metadata, v) : p \in D(r)
  BY <1>2, <1>3, DerivedParent DEF D
<1>5. p \in DOMAIN ancestorMap
  BY <1>2, <1>4, AllClaimed, RootsDescribed DEF D, Derived, WalksDone
<1>6. ancestorMap[p] \in roots /\ p \in D(ancestorMap[p])
  BY <1>5 DEF WalksDone, WalkInv, Claims, WalkTypes
<1>7. v \in D(ancestorMap[p])
  BY <1>4, <1>6, DerivedClosed DEF D, ClosedUnderChildren, Children
<1>8. NameLeq(ancestorMap[p], r) /\ NameLeq(r, ancestorMap[p])
  BY <1>1, <1>2, <1>4, <1>5, <1>6, <1>7 DEF WalksDone, WalkInv, Claims
<1>9. r \in Class /\ ancestorMap[p] \in Class
  BY <1>2, <1>6, RootsDescribed DEF WalksDone
<1>10. QED
  BY <1>4, <1>8, <1>9, NameOrder

\* If the parents of every vtable agree, each was filed under the same root.
LEMMA ParentsAgree ==
  ASSUME WalksDone, SameRootLayout,
         NEW v \in Described(metadata), NEW p \in Parents(metadata, v)
  PROVE  ancestorMap[p] = ancestorMap[v]
<1>1. PICK q \in Parents(metadata, v) : ancestorMap[q] = ancestorMap[v]
  BY ParentWithAncestor
<1>2. pending = {}
  BY DEF WalksDone, ReadInv, ReadSoFar
<1>3. /\ v[1] \in DOMAIN parentMap /\ v[2] + 1 \in DOMAIN parentMap[v[1]]
      /\ parentMap[v[1]][v[2] + 1] = Parents(metadata, v)
  BY <1>2, ParentMapComplete DEF WalksDone
<1>4. ancestorMap[p] = ancestorMap[q]
  BY <1>3 DEF SameRootLayout, ParentAncestors
<1>5. QED
  BY <1>1, <1>4

\* A root vtable is its own ancestor.
LEMMA RootClaimsItself ==
  ASSUME WalksDone, NEW s \in roots
  PROVE  ancestorMap[<<s, 0>>] = s
<1>1. <<s, 0>> \in DOMAIN ancestorMap
  BY AllClaimed, RootsDescribed DEF WalksDone
<1>2. <<s, 0>> \in D(ancestorMap[<<s, 0>>])
  BY <1>1 DEF WalksDone, WalkInv, Claims
<1>3. <<ancestorMap[<<s, 0>>], 0>> = <<s, 0>>
  BY <1>2, RootDerivesFromItself, RootsDescribed
     DEF D, WalksDone, ReadInv, InputOK
<1>4. QED
  BY <1>3

------------------------------------------------------------------------------
(* Layout classes                                                            *)

\* Once the sub-objects are named, the parents of every vtable agree and the
\* layout classes are computed from the final ancestor map.
Named ==
  pc \in {"count", "done"} =>
    /\ SameRootLayout
    /\ subObjNameMap = [c \in DOMAIN parentMap |->
                          [i \in DOMAIN parentMap[c] |-> LayoutClass(c, parentMap[c][i])]]

\* The maps the layout classes come from do not change any more.
LEMMA NextNamed == Named /\ [Next]_vars => Named'
<1> SUFFICES ASSUME Named, [Next]_vars
             PROVE  Named'
  OBVIOUS
<1>1. CASE NameSubObjects
  <2>1. parentMap' = parentMap /\ ancestorMap' = ancestorMap
    BY <1>1 DEF NameSubObjects, hierarchy
  <2>2. QED
    BY <1>1, <2>1
       DEF NameSubObjects, Named, SameRootLayout, LayoutClass, ParentAncestors
<1>2. CASE CountChildren
  <2>1. /\ parentMap' = parentMap /\ ancestorMap' = ancestorMap
        /\ subObjNameMap' = subObjNameMap /\ pc = "count"
    BY <1>2 DEF CountChildren, hierarchy
  <2>2. QED
    BY <2>1 DEF Named, SameRootLayout, LayoutClass, ParentAncestors
<1>3. CASE UNCHANGED vars
  BY <1>3 DEF Named, SameRootLayout, LayoutClass, ParentAncestors, vars, hierarchy,
     results
<1>4. CASE pc' \notin {"count", "done"}
  BY <1>4 DEF Named
<1>5. QED
  BY <1>1, <1>2, <1>3, <1>4 DEF Next, Read, Walk, AddClassInfo, RejectSecondaryRoot,
     CheckUndefined, StartPreorder, Visit, Return, ClaimDescendants, Finished

\* The cloud a sub-vtable's symbol is created in is the cloud its root laid out.
THEOREM LayoutClassAncestor == Spec => []LayoutClassIsAncestor
<1>1. Init => Named
  BY DEF Init, Named
<1>2. ASSUME ReadInv, WalkInv, Named
      PROVE  LayoutClassIsAncestor
  <2> SUFFICES ASSUME pc \in {"count", "done"}, NEW v \in Described(metadata)
               PROVE  /\ v \in DOMAIN ancestorMap
                      /\ subObjNameMap[v[1]][v[2] + 1] = ancestorMap[v]
    BY DEF LayoutClassIsAncestor
  <2>1. WalksDone
    BY <1>2 DEF WalksDone, WalkInv, WalkTypes
  <2>2. v \in DOMAIN ancestorMap
    BY <2>1, AllClaimed
  <2>3. pending = {} /\ IsMetadata(metadata)
    BY <1>2 DEF ReadInv, ReadSoFar, InputOK
  <2>4. subObjNameMap[v[1]][v[2] + 1] = LayoutClass(v[1], Parents(metadata, v))
    BY <1>2, <2>3, ParentMapComplete DEF Named
  <2>5. CASE Parents(metadata, v) = {}
    <3>1. IsRoot(metadata, v) /\ v[2] = 0
      BY <1>2, <2>3, <2>5, ReadComplete DEF IsMetadata, ReadInv, ReadSoFar
    <3>2. PICK c \in DOMAIN metadata : v \in OwnVTables(metadata, c)
      BY DEF Described
    <3>3. v = <<c, 0>>
      BY <2>3, <3>1, <3>2, OwnVTableType
    <3>4. c \in roots
      BY <1>2, <2>3, <3>1, <3>2, ReadComplete DEF RootClasses, ReadInv, ReadSoFar
    <3>5. ancestorMap[v] = v[1]
      BY <2>1, <3>3, <3>4, RootClaimsItself
    <3>6. QED
      BY <2>2, <2>4, <2>5, <3>5 DEF LayoutClass
  <2>6. CASE Parents(metadata, v) # {}
    <3>1. SameRootLayout
      BY <1>2 DEF Named
    <3>2. ParentAncestors(Parents(metadata, v)) = {ancestorMap[v]}
      BY <2>1, <2>6, <3>1, ParentsAgree DEF ParentAncestors
    <3>3. LayoutClass(v[1], Parents(metadata, v)) = ancestorMap[v]
      BY <2>6, <3>2 DEF LayoutClass
    <3>4. QED
      BY <2>2, <2>4, <3>3
  <2>7. QED
    BY <2>5, <2>6
<1>3. QED
  BY <1>1, <1>2, NextNamed, ReadInvariant, WalkInvariant, PTL DEF Spec

------------------------------------------------------------------------------
(* The analysis implements ClassForest                                       *)

\* The abstract specification speaks of the same vtables.
LEMMA SameHierarchy ==
  ASSUME NEW md
  PROVE  /\ Abstract!Described(md) = Described(md)
         /\ Abstract!NamedParents(md) = NamedParents(md)
         /\ Abstract!RootClasses(md) = RootClasses(md)
         /\ IsMetadata(md) => Abstract!IsMetadata(md)
         /\ \A v : /\ Abstract!IsRoot(md, v) = IsRoot(md, v)
                   /\ Abstract!Children(md, v) = Children(md, v)
                   /\ Abstract!Derived(md, v) = Derived(md, v)
<1>1. \A c : Abstract!OwnVTables(md, c) = OwnVTables(md, c)
  BY DEF Abstract!OwnVTables, OwnVTables
<1>2. Abstract!Described(md) = Described(md)
  BY <1>1 DEF Abstract!Described, Described
<1>3. \A v : /\ Abstract!IsRoot(md, v) = IsRoot(md, v)
             /\ Abstract!Parents(md, v) = Parents(md, v)
  BY DEF Abstract!IsRoot, IsRoot, Abstract!Parents, Parents, Abstract!SubInfo, SubInfo
<1>4. /\ Abstract!NamedParents(md) = NamedParents(md)
      /\ Abstract!RootClasses(md) = RootClasses(md)
  BY <1>1, <1>2, <1>3
     DEF Abstract!NamedParents, NamedParents, Abstract!RootClasses, RootClasses
<1>5. \A v : Abstract!Children(md, v) = Children(md, v)
  BY <1>2, <1>3 DEF Abstract!Children, Children
<1>6. \A v : Abstract!Derived(md, v) = Derived(md, v)
  BY <1>2, <1>5 DEF Abstract!Derived, Derived, Abstract!ClosedUnderChildren,
     ClosedUnderChildren
<1>7. ASSUME IsMetadata(md)
      PROVE  Abstract!IsMetadata(md)
  <2>1. \A S : IsFiniteSet(S) => Abstract!IsFiniteSet(S)
    BY DEF Abstract!IsFiniteSet, IsFiniteSet
  <2>2. \A S : Abstract!Cardinality(S) = Cardinality(S)
    BY DEF Abstract!Cardinality, Cardinality
  <2>3. Abstract!ClassInfo = ClassInfo
    BY DEF Abstract!ClassInfo, ClassInfo, Abstract!SubVTable, SubVTable,
           Abstract!VTable, VTable
  <2>4. /\ md \in [DOMAIN md -> Abstract!ClassInfo]
        /\ DOMAIN md \subseteq Class
        /\ Abstract!IsFiniteSet(DOMAIN md)
        /\ \A c \in DOMAIN md : Len(md[c].subVTables) > 0
    BY <1>7, <2>1, <2>3 DEF IsMetadata
  <2>5. \A v \in Abstract!Described(md) :
          /\ Abstract!IsRoot(md, v) <=> Abstract!Parents(md, v) = {}
          /\ \A p \in Abstract!Parents(md, v) : p[1] # v[1]
    BY <1>2, <1>3, <1>7 DEF IsMetadata
  <2>6. \E depth \in [DOMAIN md -> 1 .. Abstract!Cardinality(DOMAIN md)] :
          \A v \in Abstract!Described(md) :
            \A p \in Abstract!Parents(md, v) \cap Abstract!Described(md) :
              depth[p[1]] < depth[v[1]]
    <3>1. PICK depth \in [DOMAIN md -> 1 .. Cardinality(DOMAIN md)] :
            \A v \in Described(md) : \A p \in Parents(md, v) \cap Described(md) :
              depth[p[1]] < depth[v[1]]
      BY <1>7 DEF IsMetadata
    <3>2. depth \in [DOMAIN md -> 1 .. Abstract!Cardinality(DOMAIN md)]
      BY <2>2
    <3>3. QED
      BY <1>2, <1>3, <3>1, <3>2
  <2>7. QED
    BY <2>4, <2>5, <2>6 DEF Abstract!IsMetadata
<1>8. QED
  BY <1>2, <1>3, <1>4, <1>5, <1>6, <1>7

\* What ClassForest calls a forest, in the analysis' own words.
LEMMA ForestMeans ==
  ASSUME ReadInv, pending = {}, build_undefinedVtables = {}
  PROVE  Abstract!IsForest(metadata) <=>
           \A v \in Described(metadata) :
             \E r \in roots : {s \in roots : v \in D(s)} = {r}
BY ReadComplete, SameHierarchy DEF Abstract!IsForest, Abstract!RootsOf, D

\* A vtable below the roots of a checked hierarchy derives from one of them only.
LEMMA OneRoot ==
  ASSUME WalksDone, SameRootLayout, NEW s \in roots, NEW v \in D(s)
  PROVE  ancestorMap[v] = s
<1> DEFINE S == {w \in D(s) : ancestorMap[w] = s}
<1>1. <<s, 0>> \in S
  BY DerivedSelf, RootClaimsItself DEF D
<1>2. ASSUME NEW u \in S
      PROVE  Children(metadata, u) \subseteq S
  <2> SUFFICES ASSUME NEW w \in Children(metadata, u)
               PROVE  w \in S
    OBVIOUS
  <2>1. w \in D(s)
    BY DerivedClosed DEF D, ClosedUnderChildren
  <2>2. w \in Described(metadata) /\ u \in Parents(metadata, w)
    BY DEF Children
  <2>3. ancestorMap[u] = ancestorMap[w]
    BY <2>2, ParentsAgree
  <2>4. QED
    BY <2>1, <2>3
<1> HIDE DEF S
<1>3. D(s) \subseteq S
  BY <1>1, <1>2, DerivedLeast DEF D
<1>4. QED
  BY <1>3 DEF S

\* The check of the parents' layouts passes exactly on a forest.
LEMMA CheckMeansForest ==
  ASSUME WalksDone
  PROVE  SameRootLayout <=> Abstract!IsForest(metadata)
<1>1. pending = {} /\ build_undefinedVtables = {}
  BY DEF WalksDone, ReadInv, ReadSoFar
<1>2. \A v \in Described(metadata) : ancestorMap[v] \in roots /\ v \in D(ancestorMap[v])
  BY AllClaimed DEF WalksDone, WalkInv, Claims, WalkTypes
<1>3. ASSUME SameRootLayout
      PROVE  Abstract!IsForest(metadata)
  <2>1. ASSUME NEW v \in Described(metadata)
        PROVE  {s \in roots : v \in D(s)} = {ancestorMap[v]}
    BY <1>2, <1>3, OneRoot
  <2>2. QED
    BY <1>1, <1>2, <2>1, ForestMeans DEF WalksDone
<1>4. ASSUME Abstract!IsForest(metadata)
      PROVE  SameRootLayout
  <2> SUFFICES ASSUME NEW c \in DOMAIN parentMap, NEW i \in DOMAIN parentMap[c],
                      NEW p \in parentMap[c][i], NEW q \in parentMap[c][i]
               PROVE  ancestorMap[p] = ancestorMap[q]
    BY DEF SameRootLayout, ParentAncestors
  <2>1. PICK v \in Described(metadata) : parentMap[c][i] = Parents(metadata, v)
    BY <1>1, ParentMapComplete DEF WalksDone
  <2>2. p \in Described(metadata) /\ q \in Described(metadata)
    BY <1>1, <2>1, ReadComplete DEF WalksDone, NamedParents
  <2>3. v \in D(ancestorMap[p]) /\ v \in D(ancestorMap[q])
    BY <1>2, <2>1, <2>2, DerivedClosed DEF D, ClosedUnderChildren, Children
  <2>4. PICK r \in roots : {s \in roots : v \in D(s)} = {r}
    BY <1>1, <1>4, <2>1, ForestMeans DEF WalksDone
  <2>5. QED
    BY <1>2, <2>2, <2>3, <2>4
<1>5. QED
  BY <1>3, <1>4

\* The maps of an accepted hierarchy are the abstract forest.
LEMMA MapsAreForest ==
  ASSUME WalksDone, SameRootLayout
  PROVE  [status |-> "built", children |-> cloudMap, roots |-> roots,
          cloud |-> ancestorMap] = Abstract!Forest(metadata)
<1>1. pending = {} /\ build_undefinedVtables = {}
  BY DEF WalksDone, ReadInv, ReadSoFar
<1>2. /\ cloudMap = [v \in Described(metadata) |-> Children(metadata, v)]
      /\ roots = RootClasses(metadata)
  BY <1>1, ReadComplete DEF WalksDone
<1>3. ASSUME NEW v \in Described(metadata)
      PROVE  ancestorMap[v] = Abstract!CloudOf(metadata, v)
  <2>1. ancestorMap[v] \in roots /\ v \in D(ancestorMap[v])
    BY AllClaimed DEF WalksDone, WalkInv, Claims, WalkTypes
  <2>2. \A r \in roots : r \in Abstract!RootsOf(metadata, v) <=> r = ancestorMap[v]
    BY <1>2, <2>1, OneRoot, SameHierarchy DEF Abstract!RootsOf, D
  <2>3. QED
    BY <1>2, <2>1, <2>2, SameHierarchy DEF Abstract!CloudOf
<1>4. ancestorMap = [v \in Described(metadata) |-> Abstract!CloudOf(metadata, v)]
  <2>1. ancestorMap \in [Described(metadata) -> roots]
    BY AllClaimed DEF WalksDone, WalkInv, WalkTypes
  <2>2. QED
    BY <1>3, <2>1
<1>5. QED
  BY <1>2, <1>4, SameHierarchy DEF Abstract!Forest

\* Each step of the analysis builds or rejects the forest, or does not show.
LEMMA NextForest ==
  ASSUME ReadInv, ReadInv', WalkInv, WalkInv', Named, [Next]_vars
  PROVE  [Abstract!Build]_<<metadata, ForestBuilt>>
<1> USE DEF Abstract!NotBuilt
<1>1. ASSUME pc \notin {"done", "aborted"}, pc' = "aborted", metadata' = metadata,
             ~ Abstract!IsForest(metadata)
      PROVE  Abstract!Build
  BY <1>1 DEF Abstract!Build, ForestBuilt, Abstract!Rejected
<1>2. ASSUME pc \notin {"done", "aborted"}, pc' \notin {"done", "aborted"},
             metadata' = metadata
      PROVE  UNCHANGED <<metadata, ForestBuilt>>
  BY <1>2 DEF ForestBuilt
<1>3. CASE UNCHANGED vars
  BY <1>3 DEF vars, hierarchy, results, ForestBuilt
<1>4. ASSUME NEW c \in pending, RejectSecondaryRoot(c)
      PROVE  Abstract!Build
  <2>1. PICK v \in OwnVTables(metadata, c) : IsRoot(metadata, v) /\ v[2] # 0
    BY <1>4 DEF RejectSecondaryRoot, SecondaryRoot
  <2>2. v \in Described(metadata)
    BY <2>1 DEF Described, ReadInv, InputOK
  <2>3. ~ Abstract!IsForest(metadata)
    BY <2>1, <2>2, SameHierarchy DEF Abstract!IsForest
  <2>4. QED
    BY <1>1, <1>4, <2>3 DEF RejectSecondaryRoot
<1>5. CASE CheckUndefined
  <2>1. CASE build_undefinedVtables = {}
    BY <1>2, <1>5, <2>1 DEF CheckUndefined
  <2>2. CASE build_undefinedVtables # {}
    <3>1. ReadParents \ ReadVTables # {} /\ pending = {}
      BY <1>5, <2>2 DEF CheckUndefined, ReadInv, ReadSoFar
    <3>2. NamedParents(metadata) \ Described(metadata) # {}
      BY <3>1 DEF ReadParents, ReadVTables, NamedParents, Described
    <3>3. ~ Abstract!IsForest(metadata)
      BY <3>2, SameHierarchy DEF Abstract!IsForest
    <3>4. QED
      BY <1>1, <1>5, <2>2, <3>3 DEF CheckUndefined
  <2>3. QED
    BY <2>1, <2>2
<1>6. CASE NameSubObjects
  <2>1. WalksDone
    BY <1>6 DEF NameSubObjects, WalksDone
  <2>2. CASE SameRootLayout
    BY <1>2, <1>6, <2>2 DEF NameSubObjects
  <2>3. CASE ~ SameRootLayout
    BY <1>1, <1>6, <2>1, <2>3, CheckMeansForest DEF NameSubObjects
  <2>4. QED
    BY <2>2, <2>3
<1>7. CASE CountChildren
  <2>1. WalksDone /\ SameRootLayout
    BY <1>7 DEF CountChildren, WalksDone, WalkInv, WalkTypes, Named
  <2>2. \A r \in roots : <<r, 0>> \in DOMAIN cloudMap
    BY <2>1, RootsDescribed, ReadComplete DEF WalksDone, ReadInv, ReadSoFar
  <2>3. /\ pc = "count" /\ pc' = "done" /\ metadata' = metadata
        /\ cloudMap' = cloudMap /\ roots' = roots /\ ancestorMap' = ancestorMap
    BY <1>7, <2>2 DEF CountChildren, hierarchy
  <2>4. ForestBuilt' = Abstract!Forest(metadata)
    BY <2>1, <2>3, MapsAreForest DEF ForestBuilt
  <2>5. ForestBuilt = Abstract!NotBuilt /\ ForestBuilt' # Abstract!NotBuilt
    BY <2>3 DEF ForestBuilt
  <2>6. Abstract!IsForest(metadata)
    BY <2>1, CheckMeansForest
  <2>7. QED
    BY <2>3, <2>4, <2>5, <2>6 DEF Abstract!Build
<1>8. QED
  BY <1>2, <1>3, <1>4, <1>5, <1>6, <1>7 DEF Next, Read, Walk, AddClassInfo,
     StartPreorder, Visit, Return, ClaimDescendants, Finished

\* The analysis accepts exactly the forests and its result is determined by the
\* metadata, whatever the order of the named nodes.
THEOREM AnalysisImplementsForest == Spec => ImplementsForest
<1>1. Init => Abstract!Init /\ Named
  BY MetadataAssumption, SameHierarchy
     DEF Init, Abstract!Init, Abstract!NotBuilt, ForestBuilt, Named
<1>2. ReadInv /\ ReadInv' /\ WalkInv /\ WalkInv' /\ Named /\ [Next]_vars
        => [Abstract!Build]_<<metadata, ForestBuilt>>
  BY NextForest
<1>3. QED
  BY <1>1, <1>2, NextNamed, ReadInvariant, WalkInvariant, PTL
     DEF Spec, ImplementsForest, Abstract!Spec

------------------------------------------------------------------------------
(* Cloud sizes                                                               *)

\* What calculateChildrenCounts adds for a vtable itself.
OwnCount(v) == IF v[1] \in undefinedVTables THEN 0 ELSE 1

\* The recursion ends because inheritance is acyclic, so the counts are the
\* numbers it describes: its own and those of its children.
LEMMA CountsAddUp ==
  ASSUME IsMetadata(metadata),
         cloudMap = [v \in Described(metadata) |-> Children(metadata, v)]
  PROVE  \A v \in Described(metadata) :
           ChildrenCounts[v] = OwnCount(v) + MapThenSumSet(LAMBDA w : ChildrenCounts[w], cloudMap[v])
<1> DEFINE V == Described(metadata)
           body(F) == [v \in V |-> OwnCount(v) + MapThenSumSet(LAMBDA w : F[w], cloudMap[v])]
           own == [v \in V |-> OwnCount(v)]
<1>1. DOMAIN cloudMap = V /\ cloudMap \in [V -> SUBSET V]
  BY DEF Children
<1>2. own \in [V -> Nat]
  BY DEF OwnCount
<1>3. \A v \in V : IsFiniteSet(cloudMap[v])
  BY <1>1, DescribedFinite, FS_Subset
<1>4. PICK n \in Nat : \E h \in [V -> Nat] :
        /\ \A v \in V : h[v] < n
        /\ \A v \in V : \A w \in cloudMap[v] : h[w] < h[v]
  BY HeightExists
<1>5. PICK h \in [V -> Nat] :
        /\ \A v \in V : h[v] < n
        /\ \A v \in V : \A w \in cloudMap[v] : h[w] < h[v]
  BY <1>4
<1> HIDE DEF V, own
<1>6. PICK g \in [V -> Nat] :
        \A v \in V : g[v] = own[v] + Cardinality(Tokens(g, cloudMap[v]))
  BY <1>1, <1>2, <1>3, <1>5, CountExists
<1>7. ASSUME NEW v \in V
      PROVE  g[v] = OwnCount(v) + MapThenSumSet(LAMBDA w : g[w], cloudMap[v])
  <2>1. IsFiniteSet(cloudMap[v]) /\ \A w \in cloudMap[v] : g[w] \in Nat
    BY <1>1, <1>3
  <2>2. MapThenSumSet(LAMBDA w : g[w], cloudMap[v]) = Cardinality(Tokens(g, cloudMap[v]))
    BY <2>1, SumIsTokens
  <2>3. QED
    BY <1>6, <2>2 DEF own
<1>8. g = body(g)
  BY <1>7
<1>9. ChildrenCounts = CHOOSE F : F = body(F)
  BY <1>1 DEF ChildrenCounts, OwnCount
<1>10. ChildrenCounts = body(ChildrenCounts)
  <2> HIDE DEF body
  <2>1. QED
    BY <1>8, <1>9
<1>11. QED
  BY <1>10 DEF V

\* What derives from a vtable is lower than it, for any heights.
LEMMA DerivedLower ==
  ASSUME NEW md, NEW h \in [Described(md) -> Nat],
         \A v \in Described(md) : \A w \in Children(md, v) : h[w] < h[v],
         NEW v \in Described(md), NEW u \in Derived(md, v), u # v
  PROVE  u \in Described(md) /\ h[u] < h[v]
<1> DEFINE S == {w \in Described(md) : w = v \/ h[w] < h[v]}
<1>1. \A w \in S : Children(md, w) \subseteq S
  <2> SUFFICES ASSUME NEW w \in S, NEW x \in Children(md, w)
               PROVE  x \in S
    OBVIOUS
  <2>1. x \in Described(md) /\ h[x] < h[w]
    BY DEF Children
  <2>2. h[x] \in Nat /\ h[w] \in Nat /\ h[v] \in Nat
    BY <2>1
  <2>3. QED
    BY <2>1, <2>2
<1>2. Derived(md, v) \subseteq S
  <2>1. v \in S
    OBVIOUS
  <2> HIDE DEF S
  <2>2. QED
    BY <1>1, <2>1, DerivedLeast
<1>3. QED
  BY <1>2

\* What derives from a descendant derives from the vtable.
LEMMA DerivedBelow ==
  ASSUME NEW md, NEW v, NEW u \in Derived(md, v)
  PROVE  Derived(md, u) \subseteq Derived(md, v)
<1>1. \A w \in Derived(md, v) : Children(md, w) \subseteq Derived(md, v)
  BY DerivedClosed DEF ClosedUnderChildren
<1>2. QED
  BY <1>1, DerivedLeast

\* A vtable shared below x is shared below one of its children, or something
\* defined derives from two of them.
LEMMA SharedMeansOverlap ==
  ASSUME IsMetadata(metadata), NEW x \in Described(metadata)
  PROVE  SharedBelow(x) <=>
           \E w \in Children(metadata, x) :
             \/ SharedBelow(w)
             \/ \E u \in Children(metadata, x) \ {w} :
                  DefinedDescendants(w) \cap DefinedDescendants(u) # {}
<1> DEFINE V == Described(metadata)
           Under(v) == Derived(metadata, v)
           Ch(v) == Children(metadata, v)
<1>1. PICK n \in Nat : \E h \in [V -> Nat] :
        /\ \A v \in V : h[v] < n
        /\ \A v \in V : \A w \in Ch(v) : h[w] < h[v]
  BY HeightExists
<1>2. PICK h \in [V -> Nat] :
        /\ \A v \in V : h[v] < n
        /\ \A v \in V : \A w \in Ch(v) : h[w] < h[v]
  BY <1>1
<1>3. \A v \in V : \A u \in Under(v) : u \in V /\ (u = v \/ h[u] < h[v]) /\ h[u] \in Nat
  BY <1>2, DerivedLower
<1>4. \A v : v \in Under(v)
  BY DerivedSelf
<1>5. \A v : \A u \in Under(v) : Under(u) \subseteq Under(v)
  BY DerivedBelow
<1>6. \A v : Under(v) = {v} \cup UNION {Under(w) : w \in Ch(v)}
  BY DerivedOfChildren
<1>7. \A v : \A w \in Ch(v) : w \in V /\ v \in Parents(metadata, w) /\ Under(w) \subseteq Under(v) /\ w \in Under(v)
  BY <1>4, <1>6 DEF Children
<1>8. \A v, y : y \in V /\ v \in Parents(metadata, y) => y \in Ch(v)
  BY DEF Children
<1>9. \A v, d : d \in DefinedDescendants(v) <=> d \in Under(v) /\ d[1] \notin undefinedVTables
  BY DEF DefinedDescendants
<1>10. \A v : SharedBelow(v) <=>
         \E w \in Under(v) : /\ DefinedDescendants(w) # {}
                         /\ \E p, q \in Parents(metadata, w) \cap Under(v) : p # q
  BY DEF SharedBelow
<1>11. \A v, w : w \in Under(v) /\ w # v => w \in V /\ \E p \in Parents(metadata, w) : p \in Under(v)
  BY DerivedParent
<1> HIDE DEF V, Under, Ch
<1>12. \A w \in Ch(x) : x \notin Under(w)
  <2> SUFFICES ASSUME NEW w \in Ch(x), x \in Under(w)
               PROVE  FALSE
    OBVIOUS
  <2>1. w \in V /\ h[w] < h[x] /\ h[w] \in Nat /\ h[x] \in Nat
    BY <1>2, <1>7 DEF V
  <2>2. x = w \/ h[x] < h[w]
    BY <1>3, <2>1
  <2>3. QED
    BY <2>1, <2>2
<1>13. ASSUME NEW w \in Ch(x), SharedBelow(w)
       PROVE  SharedBelow(x)
  <2>1. Under(w) \subseteq Under(x)
    BY <1>7
  <2>2. PICK y \in Under(w) : /\ DefinedDescendants(y) # {}
                          /\ \E p, q \in Parents(metadata, y) \cap Under(w) : p # q
    BY <1>10, <1>13
  <2>3. QED
    BY <1>10, <2>1, <2>2
<1>14. ASSUME NEW w \in Ch(x), NEW u \in Ch(x), w # u,
              NEW d \in DefinedDescendants(w) \cap DefinedDescendants(u)
       PROVE  SharedBelow(x)
  <2> DEFINE T == {y \in Under(w) \cap Under(u) : d \in Under(y)}
             N == {n - h[y] : y \in T}
  <2>1. d \in T /\ d[1] \notin undefinedVTables
    BY <1>4, <1>9
  <2>2. T \subseteq V
    BY <1>3, <1>7
  <2>3. N \subseteq Nat /\ N # {}
    BY <1>2, <2>1, <2>2
  <2>4. PICK k \in N : \A m \in N : k <= m
    BY <2>3, LeastNat
  <2>5. PICK y \in T : k = n - h[y]
    BY <2>4
  <2>6. \A p \in T : h[p] <= h[y]
    <3> SUFFICES ASSUME NEW p \in T
                 PROVE  h[p] <= h[y]
      OBVIOUS
    <3>1. n - h[y] <= n - h[p]
      BY <2>4, <2>5
    <3>2. h[p] \in Nat /\ h[y] \in Nat
      BY <1>2, <2>2
    <3>3. QED
      BY <3>1, <3>2
  <2>7. y \in Under(w) /\ y \in Under(u) /\ d \in Under(y) /\ y \in V /\ y \in Under(x)
    BY <1>7, <2>2
  <2>8. DefinedDescendants(y) # {}
    BY <1>9, <2>1, <2>7
  <2>9. Under(w) \subseteq Under(x) /\ Under(u) \subseteq Under(x) /\ x \notin Under(w) /\ x \notin Under(u) /\ x \in Under(x)
    BY <1>4, <1>7, <1>12
  <2>10. \E p, q \in Parents(metadata, y) \cap Under(x) : p # q
    <3>1. CASE y = w
      BY <1>7, <1>11, <1>14, <2>7, <2>9, <3>1
    <3>2. CASE y = u
      BY <1>7, <1>11, <1>14, <2>7, <2>9, <3>2
    <3>3. CASE y # w /\ y # u
      <4>1. PICK p \in Parents(metadata, y) : p \in Under(w)
        BY <1>11, <2>7, <3>3
      <4>2. PICK q \in Parents(metadata, y) : q \in Under(u)
        BY <1>11, <2>7, <3>3
      <4>3. ASSUME p = q
            PROVE  FALSE
        <5>1. y \in Ch(p) /\ p \in V
          BY <1>3, <1>7, <1>8, <2>7, <4>1
        <5>2. d \in Under(p)
          BY <1>7, <2>7, <5>1
        <5>3. p \in T
          BY <4>1, <4>2, <4>3, <5>2
        <5>4. h[y] < h[p] /\ h[y] \in Nat /\ h[p] \in Nat
          BY <1>2, <2>7, <5>1
        <5>5. QED
          BY <2>6, <5>3, <5>4
      <4>4. QED
        BY <2>9, <4>1, <4>2, <4>3
    <3>4. QED
      BY <3>1, <3>2, <3>3
  <2>11. QED
    BY <1>10, <2>7, <2>8, <2>10
<1>15. ASSUME SharedBelow(x)
       PROVE  \E w \in Ch(x) : \/ SharedBelow(w)
                               \/ \E u \in Ch(x) \ {w} :
                                    DefinedDescendants(w) \cap DefinedDescendants(u) # {}
  <2>1. PICK y \in Under(x) : /\ DefinedDescendants(y) # {}
                          /\ \E p, q \in Parents(metadata, y) \cap Under(x) : p # q
    BY <1>10, <1>15
  <2>2. PICK p \in Parents(metadata, y) \cap Under(x), q \in Parents(metadata, y) \cap Under(x) : p # q
    BY <2>1
  <2>3. PICK d : d \in DefinedDescendants(y)
    BY <2>1
  <2>4. y \in V /\ p \in V /\ q \in V /\ y \in Ch(p) /\ y \in Ch(q) /\ x \in V
    BY <1>3, <1>8, <2>1, <2>2 DEF V
  <2>5. d \in Under(y) /\ d[1] \notin undefinedVTables
    BY <1>9, <2>3
  <2>6. \A r \in Under(x) : r = x \/ \E c \in Ch(x) : r \in Under(c)
    BY <1>6
  <2>7. \A c \in Ch(x), r \in V : r \in Under(c) /\ y \in Ch(r) =>
          y \in Under(c) /\ y # c /\ d \in DefinedDescendants(c)
    <3> SUFFICES ASSUME NEW c \in Ch(x), NEW r \in V, r \in Under(c), y \in Ch(r)
                 PROVE  y \in Under(c) /\ y # c /\ d \in DefinedDescendants(c)
      OBVIOUS
    <3>1. y \in Under(c)
      BY <1>5, <1>7
    <3>2. d \in Under(c)
      BY <1>5, <2>5, <3>1
    <3>3. c \in V /\ h[y] < h[r] /\ (r = c \/ h[r] < h[c])
      BY <1>2, <1>3, <1>7
    <3>4. h[y] \in Nat /\ h[r] \in Nat /\ h[c] \in Nat
      BY <1>2, <2>4, <3>3
    <3>5. y # c
      BY <3>3, <3>4
    <3>6. QED
      BY <1>9, <2>5, <3>1, <3>2, <3>5
  <2>8. CASE p = x
    <3>1. PICK c \in Ch(x) : q \in Under(c)
      BY <2>2, <2>6, <2>8
    <3>2. y \in Ch(x) /\ y # c /\ d \in DefinedDescendants(c)
      BY <2>4, <2>7, <2>8, <3>1
    <3>3. QED
      BY <2>3, <3>2
  <2>9. CASE q = x
    <3>1. PICK c \in Ch(x) : p \in Under(c)
      BY <2>2, <2>6, <2>9
    <3>2. y \in Ch(x) /\ y # c /\ d \in DefinedDescendants(c)
      BY <2>4, <2>7, <2>9, <3>1
    <3>3. QED
      BY <2>3, <3>2
  <2>10. CASE p # x /\ q # x
    <3>1. PICK c \in Ch(x) : p \in Under(c)
      BY <2>2, <2>6, <2>10
    <3>2. PICK e \in Ch(x) : q \in Under(e)
      BY <2>2, <2>6, <2>10
    <3>3. y \in Under(c) /\ d \in DefinedDescendants(c) /\ d \in DefinedDescendants(e)
      BY <2>4, <2>7, <3>1, <3>2
    <3>4. CASE c = e
      <4>1. SharedBelow(c)
        BY <1>10, <2>1, <2>2, <3>1, <3>2, <3>3, <3>4
      <4>2. QED
        BY <4>1
    <3>5. CASE c # e
      BY <3>3, <3>5
    <3>6. QED
      BY <3>4, <3>5
  <2>11. QED
    BY <2>8, <2>9, <2>10
<1>16. QED
  BY <1>13, <1>14, <1>15 DEF Ch

\* A count is the number of defined vtables below, or larger if one of them is
\* met along two paths.
LEMMA CountsExact ==
  ASSUME IsMetadata(metadata),
         cloudMap = [v \in Described(metadata) |-> Children(metadata, v)],
         NEW v \in Described(metadata)
  PROVE  /\ ChildrenCounts[v] >= Cardinality(DefinedDescendants(v))
         /\ ChildrenCounts[v] = Cardinality(DefinedDescendants(v)) <=> ~ SharedBelow(v)
<1> DEFINE V == Described(metadata)
           count == ChildrenCounts
           A == [x \in V |-> DefinedDescendants(x)]
           Exact(x) == /\ count[x] \in Nat /\ Cardinality(A[x]) <= count[x]
                       /\ count[x] = Cardinality(A[x]) <=> ~ SharedBelow(x)
           Bad == {x \in V : ~ Exact(x)}
<1>1. DOMAIN cloudMap = V /\ cloudMap \in [V -> SUBSET V]
  BY DEF Children
<1>2. \A x \in V : IsFiniteSet(cloudMap[x])
  BY <1>1, DescribedFinite, FS_Subset
<1>3. PICK n \in Nat : \E h \in [V -> Nat] :
        /\ \A x \in V : h[x] < n
        /\ \A x \in V : \A w \in cloudMap[x] : h[w] < h[x]
  BY HeightExists
<1>4. PICK h \in [V -> Nat] :
        /\ \A x \in V : h[x] < n
        /\ \A x \in V : \A w \in cloudMap[x] : h[w] < h[x]
  BY <1>3
<1>5. \A x \in V : count[x] = OwnCount(x) + MapThenSumSet(LAMBDA w : count[w], cloudMap[x])
  BY CountsAddUp
<1>6. ASSUME NEW x \in V
      PROVE  /\ IsFiniteSet(A[x])
             /\ A[x] = (IF OwnCount(x) = 1 THEN {x} ELSE {}) \cup UnionOf(A, cloudMap[x])
             /\ x \notin UnionOf(A, cloudMap[x])
  <2>1. Derived(metadata, x) = {x} \cup UNION {Derived(metadata, w) : w \in cloudMap[x]}
    BY DerivedOfChildren
  <2>2. A[x] = DefinedDescendants(x) /\ \A w \in cloudMap[x] : A[w] = DefinedDescendants(w)
    BY <1>1
  <2>3. A[x] \in SUBSET V
    BY <2>2 DEF DefinedDescendants, Derived
  <2>4. IsFiniteSet(V)
    BY DescribedFinite
  <2>5. OwnCount(x) = 1 <=> x[1] \notin undefinedVTables
    BY DEF OwnCount
  <2>6. \A w \in cloudMap[x] : x \notin Derived(metadata, w)
    <3> SUFFICES ASSUME NEW w \in cloudMap[x], x \in Derived(metadata, w)
                 PROVE  FALSE
      OBVIOUS
    <3>1. w \in V /\ h[w] < h[x] /\ h[w] \in Nat /\ h[x] \in Nat
      BY <1>1, <1>4
    <3>2. \A y \in V : \A z \in Children(metadata, y) : h[z] < h[y]
      BY <1>4
    <3>3. x = w \/ h[x] < h[w]
      BY <3>1, <3>2, DerivedLower
    <3>4. QED
      BY <3>1, <3>3
  <2> HIDE DEF A, V
  <2>7. A[x] = (IF OwnCount(x) = 1 THEN {x} ELSE {}) \cup UnionOf(A, cloudMap[x])
    BY <2>1, <2>2, <2>5 DEF DefinedDescendants, UnionOf
  <2>8. x \notin UnionOf(A, cloudMap[x])
    BY <2>2, <2>6 DEF DefinedDescendants, UnionOf
  <2>9. QED
    BY <2>3, <2>4, <2>7, <2>8, FS_Subset
<1>7. ASSUME NEW x \in V
      PROVE  SharedBelow(x) <=>
               \E w \in cloudMap[x] : SharedBelow(w) \/ ~ Apart(A, cloudMap[x], w)
  <2>1. cloudMap[x] = Children(metadata, x) /\ \A w \in cloudMap[x] : A[w] = DefinedDescendants(w)
    BY <1>1
  <2> HIDE DEF A, V
  <2>2. \A w \in cloudMap[x] : ~ Apart(A, cloudMap[x], w) <=>
          \E u \in cloudMap[x] \ {w} : DefinedDescendants(w) \cap DefinedDescendants(u) # {}
    BY <2>1 DEF Apart
  <2>3. QED
    BY <2>1, <2>2, SharedMeansOverlap DEF V
<1> HIDE DEF count, A, V
<1>8. ASSUME NEW x \in V, \A w \in cloudMap[x] : Exact(w)
      PROVE  Exact(x)
  <2> DEFINE S == cloudMap[x]
             B == UnionOf(A, S)
             u == Cardinality(Tokens(count, S))
  <2>1. IsFiniteSet(S) /\ S \subseteq V
    BY <1>1, <1>2
  <2>2. \A w \in S : count[w] \in Nat
    BY <1>8
  <2>3. \A w \in S : IsFiniteSet(A[w]) /\ Cardinality(A[w]) <= count[w]
    BY <1>6, <1>8, <2>1
  <2>4. MapThenSumSet(LAMBDA w : count[w], S) = u /\ u \in Nat
    BY <2>1, <2>2, SumIsTokens, TokensStep
  <2>5. IsFiniteSet(B) /\ Cardinality(B) <= u
    BY <2>1, <2>2, <2>3, UnionFits
  <2>6. Cardinality(B) = u <=> ~ SharedBelow(x)
    <3>1. ASSUME ~ SharedBelow(x)
          PROVE  Cardinality(B) = u
      <4>1. Tight(count, A, S)
        BY <1>7, <1>8, <3>1 DEF Tight
      <4>2. QED
        BY <2>1, <2>2, <2>3, <4>1, UnionFits
    <3>2. ASSUME SharedBelow(x)
          PROVE  Cardinality(B) < u
      <4>1. PICK w \in S : SharedBelow(w) \/ ~ Apart(A, S, w)
        BY <1>7, <3>2
      <4>2. count[w] # Cardinality(A[w]) \/ ~ Apart(A, S, w)
        BY <1>8, <4>1
      <4>3. QED
        BY <2>1, <2>2, <2>3, <4>2, UnionShort
    <3>3. Cardinality(B) \in Nat
      BY <2>5, FS_CardinalityType
    <3> HIDE DEF B, u
    <3>4. QED
      BY <2>4, <3>1, <3>2, <3>3
  <2>7. count[x] = OwnCount(x) + u
    BY <1>5, <2>4
  <2>8. Cardinality(B) \in Nat /\ OwnCount(x) \in {0, 1}
    BY <2>5, FS_CardinalityType DEF OwnCount
  <2>9. A[x] = (IF OwnCount(x) = 1 THEN {x} ELSE {}) \cup B /\ x \notin B
    BY <1>6
  <2> HIDE DEF B, u
  <2>10. Cardinality(A[x]) = OwnCount(x) + Cardinality(B)
    <3>1. CASE OwnCount(x) = 1
      <4>1. A[x] = B \cup {x}
        BY <2>9, <3>1
      <4>2. Cardinality(B \cup {x}) = Cardinality(B) + 1
        BY <2>5, <2>9, FS_AddElement
      <4>3. QED
        BY <2>8, <3>1, <4>1, <4>2
    <3>2. CASE OwnCount(x) = 0
      <4>1. A[x] = B
        BY <2>9, <3>2
      <4>2. QED
        BY <2>8, <3>2, <4>1
    <3>3. QED
      BY <2>8, <3>1, <3>2
  <2>11. /\ count[x] \in Nat /\ Cardinality(A[x]) <= count[x]
         /\ count[x] = Cardinality(A[x]) <=> Cardinality(B) = u
    BY <2>4, <2>5, <2>7, <2>8, <2>10
  <2>12. QED
    BY <2>6, <2>11
<1>9. ASSUME Bad # {}
      PROVE  FALSE
  <2> DEFINE T == {h[x] : x \in Bad}
  <2> HIDE DEF Exact
  <2>1. T \subseteq Nat /\ T # {}
    BY <1>9
  <2>2. PICK m \in T : \A y \in T : m <= y
    BY <2>1, LeastNat
  <2>3. PICK x \in Bad : m = h[x]
    BY <2>2
  <2>4. \A w \in cloudMap[x] : Exact(w)
    <3> SUFFICES ASSUME NEW w \in cloudMap[x], ~ Exact(w)
                 PROVE  FALSE
      OBVIOUS
    <3>1. x \in V /\ w \in V
      BY <1>1
    <3>2. w \in Bad /\ h[w] < h[x] /\ h[w] \in Nat /\ h[x] \in Nat
      BY <1>4, <3>1
    <3>3. h[w] \in T
      BY <3>2
    <3> HIDE DEF T, Bad
    <3>4. QED
      BY <2>2, <2>3, <3>2, <3>3
  <2>5. x \in V /\ ~ Exact(x)
    OBVIOUS
  <2>6. QED
    BY <1>8, <2>4, <2>5
<1>10. Exact(v) /\ A[v] = DefinedDescendants(v)
  <2> HIDE DEF Exact
  <2>1. QED
    BY <1>9 DEF V, A
<1>11. IsFiniteSet(A[v])
  BY <1>6 DEF V
<1>12. Cardinality(A[v]) \in Nat
  BY <1>11, FS_CardinalityType
<1>13. QED
  BY <1>10, <1>12 DEF count

\* The step that records the sizes looks up complete maps, and nothing changes the
\* sizes or the hierarchy after it.
LEMMA NextSizes ==
  ReadInv /\ WalkInv /\ CloudSizeExact /\ [Next]_vars
    => CloudSizeExact'
<1> SUFFICES ASSUME ReadInv, WalkInv, CloudSizeExact, [Next]_vars
             PROVE  CloudSizeExact'
  OBVIOUS
<1>1. ASSUME metadata' = metadata, undefinedVTables' = undefinedVTables
      PROVE  /\ Described(metadata)' = Described(metadata)
             /\ \A v : DefinedDescendants(v)' = DefinedDescendants(v)
             /\ \A v : SharedBelow(v)' = SharedBelow(v)
  BY <1>1 DEF SharedBelow, DefinedDescendants, Derived, Described, ClosedUnderChildren,
              Children, OwnVTables, Parents, SubInfo
<1>2. CASE CountChildren
  <2>1. /\ pc = "count" /\ metadata' = metadata /\ undefinedVTables' = undefinedVTables
        /\ cloudSizeMap' = [v \in DOMAIN ancestorMap |-> ChildrenCounts[v]]
    BY <1>2 DEF CountChildren, hierarchy
  <2>2. WalksDone
    BY <2>1 DEF WalksDone, WalkInv, WalkTypes
  <2>3. pending = {} /\ build_undefinedVtables = {} /\ IsMetadata(metadata)
    BY <2>1 DEF ReadInv, ReadSoFar, InputOK
  <2>4. \A v \in Described(metadata) :
          /\ ChildrenCounts[v] >= Cardinality(DefinedDescendants(v))
          /\ ChildrenCounts[v] = Cardinality(DefinedDescendants(v)) <=> ~ SharedBelow(v)
    BY <2>3, ReadComplete, CountsExact
  <2>5. \A v \in Described(metadata) :
          /\ cloudSizeMap'[v] >= Cardinality(DefinedDescendants(v))
          /\ cloudSizeMap'[v] = Cardinality(DefinedDescendants(v)) <=> ~ SharedBelow(v)
    BY <2>1, <2>2, <2>4, AllClaimed
  <2>6. QED
    BY <1>1, <2>1, <2>5 DEF CloudSizeExact
<1>3. CASE UNCHANGED vars
  <2>1. /\ metadata' = metadata /\ undefinedVTables' = undefinedVTables
        /\ cloudSizeMap' = cloudSizeMap /\ pc' = pc
    BY <1>3 DEF vars, hierarchy, results
  <2>2. QED
    BY <1>1, <2>1 DEF CloudSizeExact
<1>4. CASE pc' # "done"
  BY <1>4 DEF CloudSizeExact
<1>5. QED
  BY <1>2, <1>3, <1>4 DEF Next, Read, Walk, AddClassInfo, RejectSecondaryRoot,
     CheckUndefined, StartPreorder, Visit, Return, ClaimDescendants, NameSubObjects, Finished

\* The size recorded for a vtable is the number of defined vtables that derive from
\* it exactly if none of them is met along two paths; if one is, it is larger.
THEOREM CloudSizesExact == Spec => []CloudSizeExact
<1>1. Init => CloudSizeExact
  BY DEF Init, CloudSizeExact
<1>2. QED
  BY <1>1, NextSizes, ReadInvariant, WalkInvariant, PTL DEF Spec

==============================================================================
