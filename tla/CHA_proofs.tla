----------------------------- MODULE CHA_proofs ------------------------------
(****************************************************************************)
(* Proofs about the class hierarchy analysis, for every set of classes and  *)
(* every metadata the front end may write: what it holds while it reads the *)
(* entries, and which root claims a vtable in the walks from the roots.     *)
(****************************************************************************)
EXTENDS CHA, Hierarchy_proofs

------------------------------------------------------------------------------
(* Metadata                                                                  *)

\* The parent sets pushed on the parent map are sequences of sets of vtables.
LEMMA ParentSetsType ==
  ASSUME IsMetadata(metadata), NEW c \in DOMAIN metadata
  PROVE  /\ ParentSets(c) \in Seq(SUBSET VTable)
         /\ \A v \in OwnVTables(metadata, c) :
              ParentSets(c)[v[2] + 1] = Parents(metadata, v)
<1>1. metadata[c].subVTables \in Seq(SubVTable)
  BY DEF IsMetadata, ClassInfo
<1> DEFINE n == Len(metadata[c].subVTables)
<1>2. n \in Nat
  BY <1>1
<1>3. ASSUME NEW i \in 1 .. n
      PROVE  metadata[c].subVTables[i].parents \in SUBSET VTable
  <2>1. metadata[c].subVTables[i] \in SubVTable
    BY <1>1
  <2>2. QED
    BY <2>1 DEF SubVTable
<1>4. ParentSets(c) \in Seq(SUBSET VTable)
  BY <1>2, <1>3 DEF ParentSets
<1>5. ASSUME NEW v \in OwnVTables(metadata, c)
      PROVE  ParentSets(c)[v[2] + 1] = Parents(metadata, v)
  <2>1. v[1] = c /\ v[2] + 1 \in 1 .. n
    BY OwnVTableType
  <2>2. QED
    BY <2>1 DEF ParentSets, Parents, SubInfo
<1>6. QED
  BY <1>4, <1>5

------------------------------------------------------------------------------
(* Reading the metadata                                                      *)

ReadClasses == DOMAIN metadata \ pending

\* The maps the reading loop has built are determined by the classes read, in
\* whatever order: the strengthening that UndefinedTracked and
\* CloudMirrorsParents need.
ReadSoFar ==
  /\ cloudMap = [v \in ReadVTables \cup ReadParents |->
                   {w \in ReadVTables : v \in Parents(metadata, w)}]
  /\ parentMap = [c \in ReadClasses |-> ParentSets(c)]
  /\ roots = {c \in ReadClasses : IsRoot(metadata, <<c, 0>>)}
  /\ undefinedVTables = {c \in ReadClasses : ~ metadata[c].defined}
  /\ build_undefinedVtables = ReadParents \ ReadVTables
  /\ \A c \in ReadClasses : ~ SecondaryRoot(c)
  /\ pc \notin {"read", "aborted"} => pending = {} /\ build_undefinedVtables = {}

InputOK ==
  /\ IsMetadata(metadata)
  /\ pending \subseteq DOMAIN metadata
  /\ pc \in {"read", "claim", "walk", "count", "done", "aborted"}

ReadInv == InputOK /\ ReadSoFar

readVars == <<metadata, pending, hierarchy, build_undefinedVtables>>

\* Reading one more class adds its own vtables and the parents they name.
LEMMA ReadOneMore ==
  ASSUME NEW c \in pending, pending \subseteq DOMAIN metadata,
         pending' = pending \ {c}, metadata' = metadata
  PROVE  /\ ReadClasses' = ReadClasses \cup {c}
         /\ ReadVTables' = ReadVTables \cup OwnVTables(metadata, c)
         /\ ReadParents' = ReadParents
              \cup UNION {Parents(metadata, v) : v \in OwnVTables(metadata, c)}
<1>1. DOMAIN metadata \ (pending \ {c}) = (DOMAIN metadata \ pending) \cup {c}
  OBVIOUS
<1>2. ReadVTables' = ReadVTables \cup OwnVTables(metadata, c)
  BY <1>1 DEF ReadVTables
<1>3. QED
  BY <1>1, <1>2 DEF ReadClasses, ReadParents

\* No sub-vtable of a class that is still to be read has been seen yet.
LEMMA OwnIsNew ==
  ASSUME IsMetadata(metadata), NEW c \in pending, pending \subseteq DOMAIN metadata
  PROVE  OwnVTables(metadata, c) \cap ReadVTables = {}
<1> SUFFICES ASSUME NEW v \in OwnVTables(metadata, c), v \in ReadVTables
             PROVE  FALSE
  OBVIOUS
<1>1. PICK d \in DOMAIN metadata \ pending : v \in OwnVTables(metadata, d)
  BY DEF ReadVTables
<1>2. v[1] = c /\ v[1] = d
  BY <1>1, OwnVTableType
<1>3. QED
  BY <1>1, <1>2

\* Nothing is read yet.
LEMMA InitReadInv == Init => ReadInv
<1> SUFFICES ASSUME Init
             PROVE  ReadInv
  OBVIOUS
<1> USE DEF Init
<1>1. InputOK
  BY MetadataAssumption DEF InputOK
<1>2. ReadClasses = {} /\ ReadVTables = {} /\ ReadParents = {}
  BY DEF ReadClasses, ReadVTables, ReadParents
<1>3. ReadSoFar
  BY <1>2 DEF ReadSoFar, EmptyMap
<1>4. QED
  BY <1>1, <1>3 DEF ReadInv

\* Reading the entry of one more class extends every map by what it describes.
LEMMA AddClassInfoReadInv ==
  ASSUME ReadInv, NEW c \in pending, AddClassInfo(c)
  PROVE  ReadInv'
<1> USE DEF ReadInv
<1> DEFINE own   == OwnVTables(metadata, c)
           named == UNION {Parents(metadata, v) : v \in own}
           old   == ReadVTables
           oldp  == ReadParents
<1>1. /\ IsMetadata(metadata)
      /\ pending \subseteq DOMAIN metadata
      /\ c \in DOMAIN metadata
      /\ pc = "read" /\ pc' = "read"
      /\ metadata' = metadata
      /\ pending' = pending \ {c}
  BY DEF InputOK, AddClassInfo
<1>2. InputOK'
  BY <1>1 DEF InputOK
<1>3. /\ ReadClasses' = ReadClasses \cup {c}
      /\ ReadVTables' = old \cup own
      /\ ReadParents' = oldp \cup named
  BY <1>1, ReadOneMore
<1>4. own \cap old = {}
  BY <1>1, OwnIsNew
<1>5. named \cap own = {}
  BY <1>1, OwnNotNamed
<1>6. /\ DOMAIN cloudMap = old \cup oldp
      /\ \A v \in old \cup oldp :
           cloudMap[v] = {w \in old : v \in Parents(metadata, w)}
  BY DEF ReadSoFar
<1>7. cloudMap' = [v \in ReadVTables \cup ReadParents |->
                     {w \in ReadVTables : v \in Parents(metadata, w)}]'
  <2>1. cloudMap' = [v \in (old \cup oldp) \cup own \cup named |->
                       (IF v \in old \cup oldp THEN cloudMap[v] ELSE {})
                         \cup {w \in own : v \in Parents(metadata, w)}]
    BY <1>6 DEF AddClassInfo, CloudWith
  <2>2. \A v : v \notin old \cup oldp => {w \in old : v \in Parents(metadata, w)} = {}
    BY DEF ReadParents
  <2>3. \A v \in (old \cup oldp) \cup own \cup named :
          (IF v \in old \cup oldp THEN cloudMap[v] ELSE {})
            \cup {w \in own : v \in Parents(metadata, w)}
          = {w \in old \cup own : v \in Parents(metadata, w)}
    BY <1>6, <2>2
  <2>4. (old \cup oldp) \cup own \cup named = (old \cup own) \cup (oldp \cup named)
    OBVIOUS
  <2>5. cloudMap' = [v \in (old \cup own) \cup (oldp \cup named) |->
                       {w \in old \cup own : v \in Parents(metadata, w)}]
    BY <2>1, <2>3, <2>4
  <2>6. \A v, w : Parents(metadata, w)' = Parents(metadata, w)
    BY <1>1 DEF Parents, SubInfo
  <2>7. QED
    BY <1>1, <1>3, <2>5, <2>6
<1>8. parentMap' = [d \in ReadClasses |-> ParentSets(d)]'
  <2>1. parentMap' = [d \in ReadClasses \cup {c} |-> ParentSets(d)]
    BY <1>1 DEF ReadSoFar, AddClassInfo, Extend, ReadClasses
  <2>2. \A d : ParentSets(d)' = ParentSets(d)
    BY <1>1 DEF ParentSets
  <2>3. QED
    BY <1>3, <2>1, <2>2
<1>9. roots' = {d \in ReadClasses : IsRoot(metadata, <<d, 0>>)}'
  <2>1. roots' = {d \in ReadClasses \cup {c} : IsRoot(metadata, <<d, 0>>)}
    BY DEF ReadSoFar, AddClassInfo
  <2>2. \A d : IsRoot(metadata, <<d, 0>>)' = IsRoot(metadata, <<d, 0>>)
    BY <1>1 DEF IsRoot, SubInfo
  <2>3. QED
    BY <1>3, <2>1, <2>2
<1>10. undefinedVTables' = {d \in ReadClasses : ~ metadata[d].defined}'
  <2>1. undefinedVTables' = {d \in ReadClasses \cup {c} : ~ metadata[d].defined}
    BY DEF ReadSoFar, AddClassInfo
  <2>2. QED
    BY <1>1, <1>3, <2>1
<1>11. build_undefinedVtables' = (ReadParents \ ReadVTables)'
  <2>1. build_undefinedVtables' =
          ((oldp \ old) \ own) \cup (named \ ((old \cup oldp) \cup own))
    BY <1>6 DEF ReadSoFar, AddClassInfo, UndefinedWith
  <2>2. QED
    BY <1>3, <2>1
<1>12. (\A d \in ReadClasses : ~ SecondaryRoot(d))'
  <2>1. \A d : SecondaryRoot(d)' <=> SecondaryRoot(d)
    BY <1>1 DEF SecondaryRoot, OwnVTables, IsRoot, SubInfo
  <2>2. ~ SecondaryRoot(c)
    BY DEF AddClassInfo
  <2>3. \A d \in ReadClasses \cup {c} : ~ SecondaryRoot(d)
    BY <2>2 DEF ReadSoFar
  <2>4. QED
    BY <1>3, <2>1, <2>3
<1>13. QED
  BY <1>1, <1>2, <1>7, <1>8, <1>9, <1>10, <1>11, <1>12 DEF ReadSoFar

\* The sets of what has been read depend on the metadata and pending only.
LEMMA ReadSetsStable ==
  ASSUME metadata' = metadata, pending' = pending
  PROVE  /\ ReadClasses' = ReadClasses
         /\ ReadVTables' = ReadVTables
         /\ ReadParents' = ReadParents
         /\ \A v : Parents(metadata, v)' = Parents(metadata, v)
         /\ \A c : ParentSets(c)' = ParentSets(c)
         /\ \A c : SecondaryRoot(c)' <=> SecondaryRoot(c)
         /\ \A v : IsRoot(metadata, v)' = IsRoot(metadata, v)
BY DEF ReadClasses, ReadVTables, ReadParents, ParentSets, SecondaryRoot, Parents,
       IsRoot, SubInfo, OwnVTables

\* A step of the later phases, or one that only moves pc, keeps ReadInv.
LEMMA ReadInvStable ==
  ASSUME ReadInv, UNCHANGED readVars,
         pc' \in {"read", "claim", "walk", "count", "done", "aborted"},
         pc' \notin {"read", "aborted"} =>
           pending = {} /\ build_undefinedVtables = {}
  PROVE  ReadInv'
<1>1. /\ metadata' = metadata /\ pending' = pending
      /\ cloudMap' = cloudMap /\ parentMap' = parentMap /\ roots' = roots
      /\ undefinedVTables' = undefinedVTables
      /\ build_undefinedVtables' = build_undefinedVtables
  BY DEF readVars, hierarchy
<1>2. InputOK'
  BY <1>1 DEF ReadInv, InputOK
<1>3. ReadSoFar'
  BY <1>1, ReadSetsStable DEF ReadInv, ReadSoFar
<1>4. QED
  BY <1>2, <1>3 DEF ReadInv

\* Only AddClassInfo changes what ReadInv speaks of.
LEMMA NextReadInv == ReadInv /\ [Next]_vars => ReadInv'
<1> SUFFICES ASSUME ReadInv, [Next]_vars
             PROVE  ReadInv'
  OBVIOUS
<1> USE DEF readVars
<1>1. pc \notin {"read", "aborted"} => pending = {} /\ build_undefinedVtables = {}
  BY DEF ReadInv, ReadSoFar
<1>2. CASE UNCHANGED vars
  BY <1>1, <1>2, ReadInvStable DEF vars, ReadInv, InputOK
<1>3. ASSUME NEW c \in pending, AddClassInfo(c)
      PROVE  ReadInv'
  BY <1>3, AddClassInfoReadInv
<1>4. ASSUME NEW c \in pending, RejectSecondaryRoot(c)
      PROVE  ReadInv'
  BY <1>4, ReadInvStable DEF RejectSecondaryRoot
<1>5. CASE CheckUndefined
  BY <1>5, ReadInvStable DEF CheckUndefined
<1>6. ASSUME NEW r \in todo, StartPreorder(r)
      PROVE  ReadInv'
  BY <1>1, <1>6, ReadInvStable DEF StartPreorder
<1>7. ASSUME NEW v, Visit(v)
      PROVE  ReadInv'
  BY <1>1, <1>7, ReadInvStable DEF Visit
<1>8. CASE Return
  BY <1>1, <1>8, ReadInvStable DEF Return
<1>9. CASE ClaimDescendants
  BY <1>1, <1>9, ReadInvStable DEF ClaimDescendants
<1>10. CASE NameSubObjects
  BY <1>1, <1>10, ReadInvStable DEF NameSubObjects
<1>11. CASE CountChildren
  BY <1>1, <1>11, ReadInvStable DEF CountChildren
<1>12. CASE Finished
  BY <1>2, <1>12 DEF Finished
<1>13. QED
  BY <1>2, <1>3, <1>4, <1>5, <1>6, <1>7, <1>8, <1>9, <1>10, <1>11, <1>12
     DEF Next, Read, Walk

\* At every moment buildClouds' maps are those of the classes read so far.
THEOREM ReadInvariant == Spec => []ReadInv
<1>1. Init => ReadInv
  BY InitReadInv
<1>2. ReadInv /\ [Next]_vars => ReadInv'
  BY NextReadInv
<1>3. QED
  BY <1>1, <1>2, PTL DEF Spec

\* Whatever the link order, the vtables held for undefined are the parents
\* mentioned and not yet described.
THEOREM UndefinedTracking == Spec => []UndefinedTracked
<1>1. ReadInv => UndefinedTracked
  BY DEF ReadInv, ReadSoFar, UndefinedTracked
<1>2. QED
  BY <1>1, ReadInvariant, PTL

\* The cloud map is at every moment the inverse of the parent map.
THEOREM CloudInverse == Spec => []CloudMirrorsParents
<1>1. ASSUME ReadInv
      PROVE  CloudMirrorsParents
  <2>1. DOMAIN parentMap = DOMAIN metadata \ pending
    BY <1>1 DEF ReadInv, ReadSoFar, ReadClasses
  <2>2. ASSUME NEW w \in ReadVTables
        PROVE  parentMap[w[1]][w[2] + 1] = Parents(metadata, w)
    <3>1. PICK c \in DOMAIN metadata \ pending : w \in OwnVTables(metadata, c)
      BY <2>2 DEF ReadVTables
    <3>2. w[1] = c
      BY <1>1, <3>1, OwnVTableType DEF ReadInv, InputOK
    <3>3. parentMap[c] = ParentSets(c)
      BY <1>1, <3>1 DEF ReadInv, ReadSoFar, ReadClasses
    <3>4. QED
      BY <1>1, <3>1, <3>2, <3>3, ParentSetsType DEF ReadInv, InputOK
  <2>3. ASSUME NEW v \in DOMAIN cloudMap
        PROVE  cloudMap[v] = {w \in ReadVTables : v \in parentMap[w[1]][w[2] + 1]}
    <3>1. cloudMap[v] = {w \in ReadVTables : v \in Parents(metadata, w)}
      BY <1>1, <2>3 DEF ReadInv, ReadSoFar
    <3>2. QED
      BY <2>2, <3>1
  <2>4. QED
    BY <2>1, <2>3 DEF CloudMirrorsParents
<1>2. QED
  BY <1>1, ReadInvariant, PTL

------------------------------------------------------------------------------
(* The complete maps                                                         *)

\* Once the reading is over the cloud map is the child relation of the
\* metadata, the roots are its root classes, and every parent is described.
LEMMA ReadComplete ==
  ASSUME ReadInv, pending = {}, build_undefinedVtables = {}
  PROVE  /\ NamedParents(metadata) \subseteq Described(metadata)
         /\ cloudMap = [v \in Described(metadata) |-> Children(metadata, v)]
         /\ roots = RootClasses(metadata)
         /\ \A v \in Described(metadata) : IsRoot(metadata, v) => v[2] = 0
<1>1. /\ ReadClasses = DOMAIN metadata
      /\ ReadVTables = Described(metadata)
  BY DEF ReadClasses, ReadVTables, Described
<1>2. ReadParents = NamedParents(metadata)
  BY <1>1 DEF ReadParents, NamedParents
<1>3. NamedParents(metadata) \subseteq Described(metadata)
  BY <1>1, <1>2 DEF ReadInv, ReadSoFar
<1>4. cloudMap = [v \in Described(metadata) |-> Children(metadata, v)]
  <2>1. cloudMap = [v \in Described(metadata) \cup NamedParents(metadata) |->
                      {w \in Described(metadata) : v \in Parents(metadata, w)}]
    BY <1>1, <1>2 DEF ReadInv, ReadSoFar
  <2>2. QED
    BY <1>3, <2>1 DEF Children
<1>5. \A v \in Described(metadata) : IsRoot(metadata, v) => v[2] = 0
  BY <1>1 DEF ReadInv, ReadSoFar, SecondaryRoot, Described
<1>6. roots = RootClasses(metadata)
  <2>1. roots = {c \in DOMAIN metadata : IsRoot(metadata, <<c, 0>>)}
    BY <1>1 DEF ReadInv, ReadSoFar
  <2>2. ASSUME NEW c \in DOMAIN metadata
        PROVE  IsRoot(metadata, <<c, 0>>)
                 <=> \E v \in OwnVTables(metadata, c) : IsRoot(metadata, v)
    <3>1. <<c, 0>> \in OwnVTables(metadata, c)
      BY PrimaryVTable DEF ReadInv, InputOK
    <3>2. ASSUME NEW v \in OwnVTables(metadata, c), IsRoot(metadata, v)
          PROVE  v = <<c, 0>>
      BY <1>5, <3>2, OwnVTableType DEF ReadInv, InputOK, Described
    <3>3. QED
      BY <3>1, <3>2
  <2>3. QED
    BY <2>1, <2>2 DEF RootClasses
<1>7. QED
  BY <1>3, <1>4, <1>5, <1>6

------------------------------------------------------------------------------
(* The walk                                                                  *)

D(r) == Derived(metadata, <<r, 0>>)

\* The vtables the active frames still have to visit.
Items(q) == UNION {q[i] : i \in 1 .. Len(q)}
Agenda   == Items(frames)

\* Roots are walked in name order, and a finished walk has claimed everything
\* that derives from its root.
WalkedInOrder ==
  pc \notin {"read", "aborted"} =>
    /\ \A s \in roots \ todo, t \in todo : NameLeq(s, t)
    /\ \A s \in roots \ todo :
         (pc = "walk" => s # root) => D(s) \subseteq DOMAIN ancestorMap

\* During a walk what is visited or on the agenda derives from the root, and
\* the children of a visited vtable are visited or on the agenda.
WalkUnderWay ==
  pc = "walk" =>
    /\ root \in roots \ todo
    /\ \A s \in roots \ todo : NameLeq(s, root)
    /\ visited \cup Agenda \subseteq D(root)
    /\ <<root, 0>> \in visited \cup Agenda
    /\ \A v \in visited : Children(metadata, v) \subseteq visited \cup Agenda

Claims ==
  \A v \in DOMAIN ancestorMap :
    /\ v \in D(ancestorMap[v])
    /\ \A s \in roots : v \in D(s) => NameLeq(ancestorMap[v], s)

WalkTypes ==
  /\ todo \subseteq roots
  /\ root \in roots \cup {NoClass}
  /\ frames \in Seq(SUBSET VTable)
  /\ visited \subseteq VTable
  /\ ancestorMap \in [DOMAIN ancestorMap -> roots]
  /\ pc = "read" => DOMAIN ancestorMap = {} /\ todo = {} /\ root = NoClass
  /\ pc \in {"count", "done"} => todo = {}

WalkInv == WalkTypes /\ WalkedInOrder /\ WalkUnderWay /\ Claims

\* A root of the metadata is a described class.
LEMMA RootsDescribed ==
  ASSUME ReadInv
  PROVE  /\ roots \subseteq DOMAIN metadata
         /\ roots \subseteq Class
         /\ \A r \in roots : /\ <<r, 0>> \in Described(metadata)
                             /\ IsRoot(metadata, <<r, 0>>)
<1>1. roots \subseteq DOMAIN metadata
  BY DEF ReadInv, ReadSoFar, ReadClasses
<1>2. \A r \in roots : <<r, 0>> \in Described(metadata)
  BY <1>1, PrimaryVTable DEF ReadInv, InputOK, Described
<1>3. QED
  BY <1>1, <1>2 DEF ReadInv, ReadSoFar, InputOK, IsMetadata

\* A step that leaves the walk's variables and the input alone keeps WalkInv.
LEMMA WalkInvStable ==
  ASSUME WalkInv,
         metadata' = metadata, roots' = roots, todo' = todo, UNCHANGED walk,
         ancestorMap' = ancestorMap,
         pc' \in {pc, "aborted"} \/ (pc = "claim" /\ todo = {} /\ pc' = "count")
           \/ (pc = "count" /\ pc' = "done")
  PROVE  WalkInv'
<1>1. \A r : D(r)' = D(r)
  BY DEF D, Derived, Described, ClosedUnderChildren, Children, OwnVTables, Parents,
         SubInfo
<1>2. Agenda' = Agenda
  BY DEF Agenda, Items, walk
<1>3. WalkTypes'
  BY DEF WalkInv, WalkTypes, walk
<1>4. WalkedInOrder'
  BY <1>1 DEF WalkInv, WalkedInOrder, NameLeq, walk
<1>5. \A v : Children(metadata, v)' = Children(metadata, v)
  BY DEF Children, Described, OwnVTables, Parents, SubInfo
<1>6. WalkUnderWay'
  BY <1>1, <1>2, <1>5 DEF WalkInv, WalkUnderWay, NameLeq, walk
<1>7. Claims'
  BY <1>1 DEF WalkInv, Claims, NameLeq
<1>8. QED
  BY <1>3, <1>4, <1>6, <1>7 DEF WalkInv


\* Before the walks there is nothing to keep.
LEMMA InitWalkInv == Init => WalkInv
<1> SUFFICES ASSUME Init
             PROVE  WalkInv
  OBVIOUS
<1> USE DEF Init
<1>1. DOMAIN ancestorMap = {} /\ ancestorMap \in [DOMAIN ancestorMap -> roots]
  BY DEF EmptyMap
<1>2. frames \in Seq(SUBSET VTable)
  OBVIOUS
<1>3. WalkTypes
  BY <1>1, <1>2 DEF WalkTypes
<1>4. WalkedInOrder /\ WalkUnderWay /\ Claims
  BY <1>1 DEF WalkedInOrder, WalkUnderWay, Claims
<1>5. QED
  BY <1>3, <1>4 DEF WalkInv

\* While the metadata is read no walk has left anything behind.
LEMMA AddClassInfoWalkInv ==
  ASSUME WalkInv, NEW c \in pending, AddClassInfo(c)
  PROVE  WalkInv'
<1>1. /\ pc = "read" /\ pc' = "read"
      /\ todo' = todo /\ UNCHANGED walk /\ ancestorMap' = ancestorMap
  BY DEF AddClassInfo, results
<1>2. roots \subseteq roots'
  BY DEF AddClassInfo
<1>3. /\ DOMAIN ancestorMap = {} /\ todo = {} /\ root = NoClass
  BY <1>1 DEF WalkInv, WalkTypes
<1>4. ancestorMap' \in [DOMAIN ancestorMap' -> roots']
  BY <1>1, <1>2 DEF WalkInv, WalkTypes
<1>5. WalkTypes'
  BY <1>1, <1>3, <1>4 DEF WalkInv, WalkTypes, walk
<1>6. WalkedInOrder' /\ WalkUnderWay' /\ Claims'
  BY <1>1, <1>3 DEF WalkedInOrder, WalkUnderWay, Claims
<1>7. QED
  BY <1>5, <1>6 DEF WalkInv

\* The ancestor loop starts with every root still to do.
LEMMA CheckUndefinedWalkInv ==
  ASSUME WalkInv, CheckUndefined
  PROVE  WalkInv'
<1>1. /\ pc = "read" /\ pc' \in {"claim", "aborted"}
      /\ pc' = "claim" => todo' = roots'
      /\ pc' = "aborted" => todo' = todo
      /\ roots' = roots /\ UNCHANGED walk /\ ancestorMap' = ancestorMap
  BY DEF CheckUndefined, hierarchy, results
<1>2. DOMAIN ancestorMap = {} /\ todo = {} /\ root = NoClass
  BY <1>1 DEF WalkInv, WalkTypes
<1>3. WalkTypes'
  BY <1>1, <1>2 DEF WalkInv, WalkTypes, walk
<1>4. WalkedInOrder' /\ WalkUnderWay' /\ Claims'
  BY <1>1, <1>2 DEF WalkedInOrder, WalkUnderWay, Claims
<1>5. QED
  BY <1>3, <1>4 DEF WalkInv

\* What is derived, and who is a child of whom, depends on the metadata only.
LEMMA DerivedStable ==
  ASSUME metadata' = metadata
  PROVE  /\ \A r : D(r)' = D(r)
         /\ \A v : Children(metadata, v)' = Children(metadata, v)
         /\ Described(metadata)' = Described(metadata)
BY DEF D, Derived, Described, ClosedUnderChildren, Children, OwnVTables, Parents,
       SubInfo

\* A frame put on top of the others adds its items to theirs.
LEMMA PushFrame ==
  ASSUME NEW q \in Seq(SUBSET VTable), NEW e \in SUBSET VTable
  PROVE  /\ <<e>> \o q \in Seq(SUBSET VTable)
         /\ Items(<<e>> \o q) = e \cup Items(q)
<1>1. <<e>> \o q \in Seq(SUBSET VTable)
  OBVIOUS
<1>2. Len(<<e>> \o q) = Len(q) + 1 /\ (<<e>> \o q)[1] = e
  OBVIOUS
<1>3. \A i \in 1 .. Len(q) : (<<e>> \o q)[i + 1] = q[i]
  OBVIOUS
<1>4. \A i \in 1 .. Len(q) + 1 : i # 1 => i - 1 \in 1 .. Len(q)
  OBVIOUS
<1>5. \A i \in 1 .. Len(q) + 1 : i # 1 => (<<e>> \o q)[i] = q[i - 1]
  OBVIOUS
<1>6. 1 \in 1 .. Len(q) + 1 /\ \A i \in 1 .. Len(q) : i + 1 \in 1 .. Len(q) + 1
  OBVIOUS
<1> DEFINE p == <<e>> \o q
<1>7. /\ p[1] = e
      /\ Len(p) = Len(q) + 1
      /\ \A i \in 1 .. Len(q) : p[i + 1] = q[i]
      /\ \A i \in 1 .. Len(q) + 1 : i # 1 => p[i] = q[i - 1]
  BY <1>2, <1>3, <1>5
<1> HIDE DEF p
<1>8. ASSUME NEW x \in Items(p)
      PROVE  x \in e \cup Items(q)
  <2>1. PICK i \in 1 .. Len(q) + 1 : x \in p[i]
    BY <1>7 DEF Items
  <2>2. CASE i = 1
    BY <1>7, <2>1, <2>2
  <2>3. CASE i # 1
    BY <1>4, <1>7, <2>1, <2>3 DEF Items
  <2>4. QED
    BY <2>2, <2>3
<1>9. ASSUME NEW x \in e \cup Items(q)
      PROVE  x \in Items(p)
  <2>1. CASE x \in e
    BY <1>6, <1>7, <2>1 DEF Items
  <2>2. CASE x \in Items(q)
    <3>1. PICK i \in 1 .. Len(q) : x \in q[i]
      BY <2>2 DEF Items
    <3>2. i + 1 \in 1 .. Len(p) /\ x \in p[i + 1]
      BY <1>6, <1>7, <3>1
    <3>3. QED
      BY <3>2 DEF Items
  <2>3. QED
    BY <2>1, <2>2
<1>10. Items(p) = e \cup Items(q)
  BY <1>8, <1>9
<1>11. QED
  BY <1>1, <1>10 DEF p

\* The items of the frames are those of the top one and those of the others.
LEMMA PopFrame ==
  ASSUME NEW q \in Seq(SUBSET VTable), q # <<>>
  PROVE  /\ Head(q) \in SUBSET VTable
         /\ Tail(q) \in Seq(SUBSET VTable)
         /\ Items(q) = Head(q) \cup Items(Tail(q))
<1>1. /\ Head(q) \in SUBSET VTable
      /\ Tail(q) \in Seq(SUBSET VTable)
      /\ Head(q) = q[1]
      /\ Len(q) > 0
      /\ Len(Tail(q)) = Len(q) - 1
  OBVIOUS
<1>2. \A i \in 1 .. Len(q) - 1 : Tail(q)[i] = q[i + 1]
  OBVIOUS
<1>3. \A i \in 1 .. Len(q) :
        i = 1 \/ (i - 1 \in 1 .. Len(q) - 1 /\ q[i] = Tail(q)[i - 1])
  BY <1>2
<1>4. 1 \in 1 .. Len(q) /\ \A i \in 1 .. Len(q) - 1 : i + 1 \in 1 .. Len(q)
  BY <1>1
<1> DEFINE t == Tail(q)
<1>5. /\ Len(t) = Len(q) - 1
      /\ \A i \in 1 .. Len(q) - 1 : t[i] = q[i + 1]
      /\ \A i \in 1 .. Len(q) :
           i = 1 \/ (i - 1 \in 1 .. Len(q) - 1 /\ q[i] = t[i - 1])
  BY <1>1, <1>2, <1>3
<1> HIDE DEF t
<1>6. ASSUME NEW x \in Items(q)
      PROVE  x \in Head(q) \cup Items(t)
  <2>1. PICK i \in 1 .. Len(q) : x \in q[i]
    BY DEF Items
  <2>2. CASE i = 1
    BY <1>1, <2>1, <2>2
  <2>3. CASE i # 1
    BY <1>5, <2>1, <2>3 DEF Items
  <2>4. QED
    BY <2>2, <2>3
<1>7. ASSUME NEW x \in Head(q) \cup Items(t)
      PROVE  x \in Items(q)
  <2>1. CASE x \in Head(q)
    BY <1>1, <1>4, <2>1 DEF Items
  <2>2. CASE x \in Items(t)
    <3>1. PICK i \in 1 .. Len(q) - 1 : x \in t[i]
      BY <1>5, <2>2 DEF Items
    <3>2. i + 1 \in 1 .. Len(q) /\ x \in q[i + 1]
      BY <1>4, <1>5, <3>1
    <3>3. QED
      BY <3>2 DEF Items
  <2>3. QED
    BY <2>1, <2>2
<1>8. Items(q) = Head(q) \cup Items(t)
  BY <1>6, <1>7
<1>9. QED
  BY <1>1, <1>8 DEF t

\* A walk starts with its root on the agenda; every root walked before is
\* smaller, every root still to come larger.
LEMMA StartPreorderWalkInv ==
  ASSUME ReadInv, WalkInv, NEW r \in todo, StartPreorder(r)
  PROVE  WalkInv'
<1>1. /\ pc = "claim" /\ pc' = "walk"
      /\ \A s \in todo : NameLeq(r, s)
      /\ todo' = todo \ {r} /\ root' = r
      /\ frames' = << {<<r, 0>>} >> /\ visited' = {}
      /\ metadata' = metadata /\ roots' = roots /\ ancestorMap' = ancestorMap
  BY DEF StartPreorder, hierarchy, results
<1>2. r \in roots /\ todo \subseteq roots
  BY DEF WalkInv, WalkTypes
<1>3. <<r, 0>> \in VTable
  BY <1>2, RootsDescribed, DescribedType DEF ReadInv, InputOK
<1>4. Agenda' = {<<r, 0>>}
  BY <1>1 DEF Agenda, Items
<1>5. WalkTypes'
  BY <1>1, <1>2, <1>3 DEF WalkInv, WalkTypes
<1>6. WalkedInOrder'
  <2>1. ASSUME NEW s \in roots \ (todo \ {r}), NEW t \in todo \ {r}
        PROVE  NameLeq(s, t)
    BY <1>1 DEF WalkInv, WalkedInOrder
  <2>2. ASSUME NEW s \in roots \ (todo \ {r}), s # r
        PROVE  D(s) \subseteq DOMAIN ancestorMap
    BY <1>1, <2>2 DEF WalkInv, WalkedInOrder
  <2>3. QED
    BY <1>1, <2>1, <2>2, DerivedStable DEF WalkedInOrder, NameLeq
<1>7. WalkUnderWay'
  <2>1. \A s \in roots \ (todo \ {r}) : NameLeq(s, r)
    <3>1. NameLeq(r, r)
      BY <1>1
    <3>2. QED
      BY <1>1, <3>1 DEF WalkInv, WalkedInOrder
  <2>2. <<r, 0>> \in D(r)
    BY DerivedSelf DEF D
  <2>3. QED
    BY <1>1, <1>2, <1>4, <2>1, <2>2, DerivedStable DEF WalkUnderWay, NameLeq
<1>8. Claims'
  BY <1>1, DerivedStable DEF WalkInv, Claims, NameLeq
<1>9. QED
  BY <1>5, <1>6, <1>7, <1>8 DEF WalkInv

\* A step within a walk changes only what is visited and the agenda, and has to
\* keep those within what derives from the root.
LEMMA WithinWalkInv ==
  ASSUME WalkInv, pc = "walk", pc' = "walk",
         metadata' = metadata, roots' = roots, todo' = todo, root' = root,
         ancestorMap' = ancestorMap,
         frames' \in Seq(SUBSET VTable), visited' \subseteq VTable, WalkUnderWay'
  PROVE  WalkInv'
<1>1. WalkTypes'
  BY DEF WalkInv, WalkTypes
<1>2. WalkedInOrder'
  BY DerivedStable DEF WalkInv, WalkedInOrder, NameLeq
<1>3. Claims'
  BY DerivedStable DEF WalkInv, Claims, NameLeq
<1>4. QED
  BY <1>1, <1>2, <1>3 DEF WalkInv

\* Visiting a vtable moves it from the agenda to the visited ones and puts its
\* children on the agenda.
LEMMA VisitWalkInv ==
  ASSUME ReadInv, WalkInv, frames # <<>>, NEW v \in Head(frames), Visit(v)
  PROVE  WalkInv'
<1> DEFINE rest == <<Head(frames) \ {v}>> \o Tail(frames)
<1>1. /\ pc = "walk" /\ pc' = "walk"
      /\ metadata' = metadata /\ roots' = roots /\ todo' = todo /\ root' = root
      /\ ancestorMap' = ancestorMap
      /\ IF v \in visited
         THEN frames' = rest /\ visited' = visited
         ELSE frames' = <<cloudMap[v]>> \o rest /\ visited' = visited \cup {v}
  BY DEF Visit, hierarchy, results
<1>2. frames \in Seq(SUBSET VTable) /\ visited \subseteq VTable
  BY DEF WalkInv, WalkTypes
<1>3. /\ Head(frames) \in SUBSET VTable
      /\ Tail(frames) \in Seq(SUBSET VTable)
      /\ Agenda = Head(frames) \cup Items(Tail(frames))
  BY <1>2, PopFrame DEF Agenda
<1>4. Head(frames) \ {v} \in SUBSET VTable
  BY <1>3
<1>5. /\ rest \in Seq(SUBSET VTable)
      /\ Items(rest) = (Head(frames) \ {v}) \cup Items(Tail(frames))
  BY <1>3, <1>4, PushFrame
<1>6. /\ visited \cup Agenda \subseteq D(root)
      /\ <<root, 0>> \in visited \cup Agenda
      /\ root \in roots \ todo
      /\ \A s \in roots \ todo : NameLeq(s, root)
      /\ \A u \in visited : Children(metadata, u) \subseteq visited \cup Agenda
  BY <1>1 DEF WalkInv, WalkUnderWay
<1>7. v \in VTable /\ v \in Agenda
  BY <1>3
<1>8. CASE v \in visited
  <2>1. frames' = rest /\ visited' = visited
    BY <1>1, <1>8
  <2>2. Agenda' = Items(rest)
    BY <2>1 DEF Agenda
  <2>3. visited' \cup Agenda' = visited \cup Agenda
    BY <1>3, <1>5, <1>8, <2>1, <2>2
  <2>4. WalkUnderWay'
    BY <1>1, <1>6, <2>1, <2>3, DerivedStable DEF WalkUnderWay, NameLeq
  <2>5. QED
    BY <1>1, <1>2, <1>5, <2>1, <2>4, WithinWalkInv
<1>9. CASE v \notin visited
  <2>1. frames' = <<cloudMap[v]>> \o rest /\ visited' = visited \cup {v}
    BY <1>1, <1>9
  <2>2. cloudMap[v] = Children(metadata, v)
    <3>1. v \in Described(metadata)
      BY <1>6, <1>7, RootsDescribed DEF D, Derived
    <3>2. pending = {} /\ build_undefinedVtables = {}
      BY <1>1 DEF ReadInv, ReadSoFar
    <3>3. QED
      BY <3>1, <3>2, ReadComplete
  <2>3. Children(metadata, v) \in SUBSET VTable
    BY DescribedType DEF Children, ReadInv, InputOK
  <2>4. /\ frames' \in Seq(SUBSET VTable)
        /\ Agenda' = Children(metadata, v) \cup Items(rest)
    BY <1>5, <2>1, <2>2, <2>3, PushFrame DEF Agenda
  <2>5. visited' \cup Agenda' = visited \cup Agenda \cup Children(metadata, v)
    BY <1>3, <1>5, <1>7, <2>1, <2>4
  <2>6. Children(metadata, v) \subseteq D(root)
    BY <1>6, <1>7, DerivedClosed DEF D, ClosedUnderChildren
  <2>7. \A u \in visited' : Children(metadata, u) \subseteq visited' \cup Agenda'
    BY <1>6, <2>1, <2>5
  <2>8. WalkUnderWay'
    BY <1>1, <1>6, <2>5, <2>6, <2>7, DerivedStable DEF WalkUnderWay, NameLeq
  <2>9. QED
    BY <1>1, <1>2, <1>7, <2>1, <2>4, <2>8, WithinWalkInv
<1>10. QED
  BY <1>8, <1>9

\* Returning drops an empty frame.
LEMMA ReturnWalkInv ==
  ASSUME WalkInv, Return
  PROVE  WalkInv'
<1>1. /\ pc = "walk" /\ pc' = "walk" /\ frames # <<>> /\ Head(frames) = {}
      /\ frames' = Tail(frames) /\ visited' = visited
      /\ metadata' = metadata /\ roots' = roots /\ todo' = todo /\ root' = root
      /\ ancestorMap' = ancestorMap
  BY DEF Return, hierarchy, results
<1>2. frames \in Seq(SUBSET VTable) /\ visited \subseteq VTable
  BY DEF WalkInv, WalkTypes
<1>3. Tail(frames) \in Seq(SUBSET VTable) /\ Agenda' = Agenda
  BY <1>1, <1>2, PopFrame DEF Agenda
<1>4. WalkUnderWay'
  BY <1>1, <1>3, DerivedStable DEF WalkInv, WalkUnderWay, NameLeq
<1>5. QED
  BY <1>1, <1>2, <1>3, <1>4, WithinWalkInv

\* A finished walk has visited all that derives from its root, so what it
\* claims derives from no root walked before.
LEMMA ClaimDescendantsWalkInv ==
  ASSUME ReadInv, WalkInv, ClaimDescendants
  PROVE  WalkInv'
<1>1. /\ pc = "walk" /\ pc' = "claim" /\ frames = <<>>
      /\ ancestorMap' = [v \in DOMAIN ancestorMap \cup visited |->
                           IF v \in DOMAIN ancestorMap THEN ancestorMap[v] ELSE root]
      /\ metadata' = metadata /\ roots' = roots /\ todo' = todo
      /\ root' = root /\ frames' = frames /\ visited' = visited
  BY DEF ClaimDescendants, hierarchy, walk
<1>2. /\ root \in roots \ todo
      /\ \A s \in roots \ todo : NameLeq(s, root)
      /\ visited \cup Agenda \subseteq D(root)
      /\ <<root, 0>> \in visited \cup Agenda
      /\ \A v \in visited : Children(metadata, v) \subseteq visited \cup Agenda
  BY <1>1 DEF WalkInv, WalkUnderWay
<1>3. Agenda = {}
  BY <1>1 DEF Agenda, Items
<1>4. visited = D(root)
  BY <1>2, <1>3, DerivedLeast DEF D
<1>5. /\ \A s \in roots \ todo, t \in todo : NameLeq(s, t)
      /\ \A s \in roots \ todo : s # root => D(s) \subseteq DOMAIN ancestorMap
  BY <1>1 DEF WalkInv, WalkedInOrder
<1>6. WalkTypes'
  <2>1. ancestorMap' \in [DOMAIN ancestorMap' -> roots]
    BY <1>1, <1>2 DEF WalkInv, WalkTypes
  <2>2. QED
    BY <1>1, <2>1 DEF WalkInv, WalkTypes
<1>7. WalkedInOrder'
  BY <1>1, <1>4, <1>5, DerivedStable DEF WalkedInOrder, NameLeq
<1>8. WalkUnderWay'
  BY <1>1 DEF WalkUnderWay
<1>9. Claims'
  <2>1. ASSUME NEW v \in visited, v \notin DOMAIN ancestorMap,
               NEW s \in roots, v \in D(s)
        PROVE  NameLeq(root, s)
    <3>1. CASE s \in todo
      BY <1>2, <1>5, <3>1
    <3>2. CASE s = root
      BY <1>2, <3>2
    <3>3. QED
      BY <1>5, <2>1, <3>1, <3>2
  <2>2. ASSUME NEW v \in DOMAIN ancestorMap \cup visited
        PROVE  /\ v \in D(ancestorMap'[v])
               /\ \A s \in roots : v \in D(s) => NameLeq(ancestorMap'[v], s)
    <3>1. CASE v \in DOMAIN ancestorMap
      BY <1>1, <3>1 DEF WalkInv, Claims
    <3>2. CASE v \notin DOMAIN ancestorMap
      BY <1>1, <1>4, <2>1, <3>2
    <3>3. QED
      BY <3>1, <3>2
  <2>3. QED
    BY <1>1, <2>2, DerivedStable DEF Claims, NameLeq
<1>10. QED
  BY <1>6, <1>7, <1>8, <1>9 DEF WalkInv

\* Every step of the analysis keeps the invariant of the walks.
LEMMA NextWalkInv == ReadInv /\ WalkInv /\ [Next]_vars => WalkInv'
<1> SUFFICES ASSUME ReadInv, WalkInv, [Next]_vars
             PROVE  WalkInv'
  OBVIOUS
<1>1. CASE UNCHANGED vars
  BY <1>1, WalkInvStable DEF vars, hierarchy, results
<1>2. ASSUME NEW c \in pending, AddClassInfo(c)
      PROVE  WalkInv'
  BY <1>2, AddClassInfoWalkInv
<1>3. ASSUME NEW c \in pending, RejectSecondaryRoot(c)
      PROVE  WalkInv'
  BY <1>3, WalkInvStable DEF RejectSecondaryRoot, hierarchy, results
<1>4. CASE CheckUndefined
  BY <1>4, CheckUndefinedWalkInv
<1>5. ASSUME NEW r \in todo, StartPreorder(r)
      PROVE  WalkInv'
  BY <1>5, StartPreorderWalkInv
<1>6. ASSUME NEW v \in (IF frames = <<>> THEN {} ELSE Head(frames)), Visit(v)
      PROVE  WalkInv'
  BY <1>6, VisitWalkInv
<1>7. CASE Return
  BY <1>7, ReturnWalkInv
<1>8. CASE ClaimDescendants
  BY <1>8, ClaimDescendantsWalkInv
<1>9. CASE NameSubObjects
  BY <1>9, WalkInvStable DEF NameSubObjects, hierarchy
<1>10. CASE CountChildren
  BY <1>10, WalkInvStable DEF CountChildren, hierarchy
<1>11. CASE Finished
  BY <1>1, <1>11 DEF Finished
<1>12. QED
  BY <1>1, <1>2, <1>3, <1>4, <1>5, <1>6, <1>7, <1>8, <1>9, <1>10, <1>11
     DEF Next, Read, Walk

\* The ancestor loop of buildClouds keeps the invariant of the walks.
THEOREM WalkInvariant == Spec => []WalkInv
<1>1. Init => WalkInv
  BY InitWalkInv
<1>2. ReadInv /\ WalkInv /\ [Next]_vars => WalkInv'
  BY NextWalkInv
<1>3. QED
  BY <1>1, <1>2, ReadInvariant, PTL DEF Spec

\* A vtable belongs to the first root, in name order, that it derives from, and
\* nothing below a finished root is left out.
THEOREM FirstRootClaim == Spec => []FirstRootClaims
<1>1. ReadInv /\ WalkInv => FirstRootClaims
  <2> SUFFICES ASSUME ReadInv, WalkInv
               PROVE  FirstRootClaims
    OBVIOUS
  <2>1. QED
    BY DEF WalkInv, Claims, WalkedInOrder, FirstRootClaims, D
<1>2. QED
  BY <1>1, ReadInvariant, WalkInvariant, PTL

==============================================================================
