--------------------------------- MODULE CHA ---------------------------------
(****************************************************************************)
(* SDBuildCHA, the class hierarchy analysis (SafeDispatchCHA.cpp): it reads *)
(* the metadata of every class in the order the linker left the named nodes *)
(* in, keeps track of parents mentioned before they are described, walks    *)
(* the clouds from their roots to find the ancestor of every vtable, checks *)
(* that the parents of a vtable agree on it, and counts children.           *)
(*                                                                          *)
(* A failed assert ends the link: pc becomes "aborted" (a build with        *)
(* assertions, the default of every build type but Release).                *)
(****************************************************************************)
EXTENDS Hierarchy, FiniteSetsExt

CONSTANTS
  NoClass,                       \* stands for `no root is being walked'
  Metadata                       \* the metadata the linked module may carry

ASSUME NoClassAssumption == NoClass \notin Class

ASSUME MetadataAssumption == \A md \in Metadata : IsMetadata(md)

VARIABLES
  metadata,                      \* the input, fixed in Init
  pc,
  pending,                       \* classes whose named node is still to be read
  cloudMap,                      \* vtable -> its children
  parentMap,                     \* class -> the parents of each sub-vtable
  roots,
  undefinedVTables,              \* classes whose vtable has no initializer
  build_undefinedVtables,        \* vtables mentioned as parents, not yet described
  todo,                          \* roots the ancestor loop has not reached
  root,                          \* the root whose preorder is under way
  frames,                        \* preorderHelper's activations, innermost first:
                                 \* the children each still has to visit
  visited,
  ancestorMap,                   \* vtable -> root class
  subObjNameMap,                 \* class -> layout class of each sub-vtable
  cloudSizeMap

hierarchy == <<cloudMap, parentMap, roots, undefinedVTables>>
walk      == <<root, frames, visited>>
results   == <<ancestorMap, subObjNameMap, cloudSizeMap>>
vars == <<metadata, pc, pending, hierarchy, build_undefinedVtables, todo, walk,
          results>>

EmptyMap == [x \in {} |-> {}]
Extend(f, k, e) == [x \in DOMAIN f \cup {k} |-> IF x = k THEN e ELSE f[x]]

Init ==
  /\ metadata \in Metadata
  /\ pc = "read"
  /\ pending = DOMAIN metadata
  /\ cloudMap = EmptyMap
  /\ parentMap = EmptyMap
  /\ roots = {}
  /\ undefinedVTables = {}
  /\ build_undefinedVtables = {}
  /\ todo = {}
  /\ root = NoClass
  /\ frames = <<>>
  /\ visited = {}
  /\ ancestorMap = EmptyMap
  /\ subObjNameMap = EmptyMap
  /\ cloudSizeMap = EmptyMap

------------------------------------------------------------------------------
(* Reading the metadata                                                      *)

SecondaryRoot(c) ==
  \E v \in OwnVTables(metadata, c) : IsRoot(metadata, v) /\ v[2] # 0

\* Operators named Mutant... are plausible slips in the definition of the same
\* name; no specification here uses them, each is a test of one property.
\* Here: the entry of a vtable starts its children afresh.
MutantCloudWith(c) ==
  LET own   == OwnVTables(metadata, c)
      named == UNION {Parents(metadata, v) : v \in own}
  IN  [v \in DOMAIN cloudMap \cup own \cup named |->
         IF v \in own \/ v \notin DOMAIN cloudMap
         THEN {w \in own : v \in Parents(metadata, w)}
         ELSE cloudMap[v] \cup {w \in own : v \in Parents(metadata, w)}]

\* cloudMap after the entry of c: its sub-vtables and the parents they name
\* become known, and each sub-vtable is a child of its parents.
CloudWith(c) ==
  LET own   == OwnVTables(metadata, c)
      named == UNION {Parents(metadata, v) : v \in own}
  IN  [v \in DOMAIN cloudMap \cup own \cup named |->
         (IF v \in DOMAIN cloudMap THEN cloudMap[v] ELSE {})
           \cup {w \in own : v \in Parents(metadata, w)}]

\* The entry of a vtable does not take it off the undefined ones.
MutantUndefinedWith(c) ==
  build_undefinedVtables \cup
    (UNION {Parents(metadata, v) : v \in OwnVTables(metadata, c)}
       \ (DOMAIN cloudMap \cup OwnVTables(metadata, c)))

UndefinedWith(c) ==
  LET own   == OwnVTables(metadata, c)
      named == UNION {Parents(metadata, v) : v \in own}
  IN  (build_undefinedVtables \ own) \cup (named \ (DOMAIN cloudMap \cup own))

ParentSets(c) ==
  [i \in 1 .. Len(metadata[c].subVTables) |-> metadata[c].subVTables[i].parents]

AddClassInfo(c) ==
  /\ pc = "read"
  /\ ~ SecondaryRoot(c)
  /\ pending' = pending \ {c}
  /\ cloudMap' = CloudWith(c)
  /\ build_undefinedVtables' = UndefinedWith(c)
  /\ parentMap' = Extend(parentMap, c, ParentSets(c))
  /\ roots' = IF IsRoot(metadata, <<c, 0>>) THEN roots \cup {c} ELSE roots
  /\ undefinedVTables' =
       IF metadata[c].defined THEN undefinedVTables ELSE undefinedVTables \cup {c}
  /\ UNCHANGED <<metadata, pc, todo, walk, results>>

\* assert(ind == 0): a secondary vtable must have a direct parent.
RejectSecondaryRoot(c) ==
  /\ pc = "read"
  /\ SecondaryRoot(c)
  /\ pc' = "aborted"
  /\ UNCHANGED <<metadata, pending, hierarchy, build_undefinedVtables, todo,
                 walk, results>>

\* The ancestor loop goes over all classes.
MutantCheckUndefined ==
  /\ pc = "read"
  /\ pending = {}
  /\ IF build_undefinedVtables = {}
     THEN pc' = "claim" /\ todo' = DOMAIN parentMap
     ELSE pc' = "aborted" /\ UNCHANGED todo
  /\ UNCHANGED <<metadata, pending, hierarchy, build_undefinedVtables, walk,
                 results>>

\* assert(build_undefinedVtables.size() == 0)
CheckUndefined ==
  /\ pc = "read"
  /\ pending = {}
  /\ IF build_undefinedVtables = {}
     THEN pc' = "claim" /\ todo' = roots
     ELSE pc' = "aborted" /\ UNCHANGED todo
  /\ UNCHANGED <<metadata, pending, hierarchy, build_undefinedVtables, walk,
                 results>>

------------------------------------------------------------------------------
(* The ancestor loop: one preorder walk per root, roots in name order        *)

StartPreorder(r) ==
  /\ pc = "claim"
  /\ \A s \in todo : NameLeq(r, s)
  /\ pc' = "walk"
  /\ todo' = todo \ {r}
  /\ root' = r
  /\ frames' = << {<<r, 0>>} >>
  /\ visited' = {}
  /\ UNCHANGED <<metadata, pending, hierarchy, build_undefinedVtables, results>>

\* The loop over the children does not advance.
MutantVisit(v) ==
  /\ pc = "walk"
  /\ \A w \in Head(frames) : VTableLeq(v, w)
  /\ IF v \in visited
     THEN UNCHANGED <<frames, visited>>
     ELSE frames' = <<cloudMap[v]>> \o frames /\ visited' = visited \cup {v}
  /\ UNCHANGED <<metadata, pc, pending, hierarchy, build_undefinedVtables, todo,
                 root, results>>

\* preorderHelper(v): nothing if v was visited, else mark it and go through
\* its children, which std::set keeps in order.
Visit(v) ==
  /\ pc = "walk"
  /\ \A w \in Head(frames) : VTableLeq(v, w)
  /\ LET rest == <<Head(frames) \ {v}>> \o Tail(frames)
     IN  IF v \in visited
         THEN frames' = rest /\ UNCHANGED visited
         ELSE frames' = <<cloudMap[v]>> \o rest /\ visited' = visited \cup {v}
  /\ UNCHANGED <<metadata, pc, pending, hierarchy, build_undefinedVtables, todo,
                 root, results>>

Return ==
  /\ pc = "walk"
  /\ frames # <<>>
  /\ Head(frames) = {}
  /\ frames' = Tail(frames)
  /\ UNCHANGED <<metadata, pc, pending, hierarchy, build_undefinedVtables, todo,
                 root, visited, results>>

\* A later root takes vtables over.
MutantClaimDescendants ==
  /\ pc = "walk"
  /\ frames = <<>>
  /\ pc' = "claim"
  /\ ancestorMap' = [v \in DOMAIN ancestorMap \cup visited |->
                       IF v \in visited THEN root ELSE ancestorMap[v]]
  /\ UNCHANGED <<metadata, pending, hierarchy, build_undefinedVtables, todo, walk,
                 subObjNameMap, cloudSizeMap>>

\* The vtables of the finished preorder that have no ancestor yet get this root.
ClaimDescendants ==
  /\ pc = "walk"
  /\ frames = <<>>
  /\ pc' = "claim"
  /\ ancestorMap' = [v \in DOMAIN ancestorMap \cup visited |->
                       IF v \in DOMAIN ancestorMap THEN ancestorMap[v] ELSE root]
  /\ UNCHANGED <<metadata, pending, hierarchy, build_undefinedVtables, todo, walk,
                 subObjNameMap, cloudSizeMap>>

------------------------------------------------------------------------------
(* Layout classes and cloud sizes                                            *)

ParentAncestors(S) == {ancestorMap[p] : p \in S}

\* Only the first sub-vtable is compared.
MutantSameRootLayout ==
  \A c \in DOMAIN parentMap :
    \A a, b \in ParentAncestors(parentMap[c][1]) : a = b

SameRootLayout ==
  \A c \in DOMAIN parentMap : \A i \in DOMAIN parentMap[c] :
    \A a, b \in ParentAncestors(parentMap[c][i]) : a = b

\* Every class is taken for its own layout class.
MutantLayoutClass(c, S) == c

LayoutClass(c, S) == IF S = {} THEN c ELSE CHOOSE a \in ParentAncestors(S) : TRUE

\* assert: all parents of a primitive vtable should have the same root layout.
NameSubObjects ==
  /\ pc = "claim"
  /\ todo = {}
  /\ IF SameRootLayout
     THEN /\ pc' = "count"
          /\ subObjNameMap' = [c \in DOMAIN parentMap |->
                                 [i \in DOMAIN parentMap[c] |->
                                    LayoutClass(c, parentMap[c][i])]]
     ELSE pc' = "aborted" /\ UNCHANGED subObjNameMap
  /\ UNCHANGED <<metadata, pending, hierarchy, build_undefinedVtables, todo, walk,
                 ancestorMap, cloudSizeMap>>

\* A vtable that no linked module defines counts too.
MutantChildrenCounts ==
  LET count[v \in DOMAIN cloudMap] ==
        1 + MapThenSumSet(LAMBDA w : count[w], cloudMap[v])
  IN  count

\* calculateChildrenCounts: a plain recursion, which meets a vtable once for
\* every path that leads to it.
ChildrenCounts ==
  LET count[v \in DOMAIN cloudMap] ==
        (IF v[1] \in undefinedVTables THEN 0 ELSE 1)
          + MapThenSumSet(LAMBDA w : count[w], cloudMap[v])
  IN  count

\* runOnModule counts from every root, so the vtables counted are the ones the
\* walks reached; then verifyClouds looks every root up.
CountChildren ==
  /\ pc = "count"
  /\ cloudSizeMap' = [v \in DOMAIN ancestorMap |-> ChildrenCounts[v]]
  /\ pc' = IF \A r \in roots : <<r, 0>> \in DOMAIN cloudMap
           THEN "done" ELSE "aborted"
  /\ UNCHANGED <<metadata, pending, hierarchy, build_undefinedVtables, todo, walk,
                 ancestorMap, subObjNameMap>>

Finished ==
  /\ pc \in {"done", "aborted"}
  /\ UNCHANGED vars

------------------------------------------------------------------------------
Read == \E c \in pending : AddClassInfo(c) \/ RejectSecondaryRoot(c)

Walk ==
  \/ \E r \in todo : StartPreorder(r)
  \/ \E v \in (IF frames = <<>> THEN {} ELSE Head(frames)) : Visit(v)
  \/ Return
  \/ ClaimDescendants

Next == Read \/ CheckUndefined \/ Walk \/ NameSubObjects \/ CountChildren \/ Finished

\* The pass is one thread that runs until it returns or an assert ends it.
Spec == Init /\ [][Next]_vars /\ WF_vars(Next)

------------------------------------------------------------------------------
(* Properties                                                                *)

ReadVTables == UNION {OwnVTables(metadata, c) : c \in DOMAIN metadata \ pending}
ReadParents == UNION {Parents(metadata, v) : v \in ReadVTables}

PartialMap(f, S, T) == DOMAIN f \subseteq S /\ f \in [DOMAIN f -> T]

\* The type invariant.
TypeOK ==
  /\ IsMetadata(metadata)
  /\ pc \in {"read", "claim", "walk", "count", "done", "aborted"}
  /\ pending \subseteq DOMAIN metadata
  /\ PartialMap(cloudMap, VTable, SUBSET VTable)
  /\ PartialMap(parentMap, Class, Seq(SUBSET VTable))
  /\ roots \subseteq Class
  /\ undefinedVTables \subseteq Class
  /\ build_undefinedVtables \subseteq VTable
  /\ todo \subseteq roots
  /\ root \in roots \cup {NoClass}
  /\ frames \in Seq(SUBSET VTable)
  /\ visited \subseteq VTable
  /\ PartialMap(ancestorMap, VTable, roots)
  /\ DOMAIN subObjNameMap \subseteq Class
  /\ DOMAIN cloudSizeMap \subseteq VTable

\* Whatever the order the named nodes come in, the vtables held for undefined
\* are exactly the parents mentioned so far that no entry read so far describes
\* (the insert/erase pair of buildClouds), and the cloud map knows nothing else.
UndefinedTracked ==
  /\ DOMAIN cloudMap = ReadVTables \cup ReadParents
  /\ build_undefinedVtables = ReadParents \ ReadVTables

\* The cloud map and the parent map are inverse relations at every moment, also
\* for a parent that became known through its child before its own entry.
CloudMirrorsParents ==
  /\ DOMAIN parentMap = DOMAIN metadata \ pending
  /\ \A v \in DOMAIN cloudMap :
       cloudMap[v] = {w \in ReadVTables : v \in parentMap[w[1]][w[2] + 1]}

\* The ancestor of a vtable is the first root, in name order, that it derives
\* from, and a root whose walk is over has claimed all that derives from it.
FirstRootClaims ==
  /\ \A v \in DOMAIN ancestorMap :
       /\ v \in Derived(metadata, <<ancestorMap[v], 0>>)
       /\ \A s \in roots :
            v \in Derived(metadata, <<s, 0>>) => NameLeq(ancestorMap[v], s)
  /\ \A s \in roots \ todo :
       pc \notin {"read", "aborted"} /\ (pc = "walk" => s # root) =>
         Derived(metadata, <<s, 0>>) \subseteq DOMAIN ancestorMap

\* The layout class recorded for a sub-vtable, which names the cloud its new
\* symbol is created in, is the ancestor under which the walk filed it.
LayoutClassIsAncestor ==
  pc \in {"count", "done"} =>
    \A v \in Described(metadata) :
      /\ v \in DOMAIN ancestorMap
      /\ subObjNameMap[v[1]][v[2] + 1] = ancestorMap[v]

DefinedDescendants(v) ==
  {w \in Derived(metadata, v) : w[1] \notin undefinedVTables}

\* Below v, a vtable from which something defined derives has two parents.
SharedBelow(v) ==
  \E w \in Derived(metadata, v) :
    /\ DefinedDescendants(w) # {}
    /\ \E p, q \in Parents(metadata, w) \cap Derived(metadata, v) : p # q

\* calculateChildrenCounts adds up along the paths of the cloud: no size leaves
\* a defined descendant out, and the size of a vtable is their number, as
\* SafeDispatchCHA.h:412-416 says of getCloudSize, exactly if no shared vtable
\* below it is met along two paths; if one is, the size is larger.
CloudSizeExact ==
  pc = "done" =>
    \A v \in Described(metadata) :
      LET descendants == Cardinality(DefinedDescendants(v))
      IN  /\ cloudSizeMap[v] >= descendants
          /\ cloudSizeMap[v] = descendants <=> ~ SharedBelow(v)

\* The walk and the counting come to an end, or an assert ends the pass.
Terminates == <>(pc \in {"done", "aborted"})

ForestBuilt ==
  CASE pc = "done"    -> [status   |-> "built",
                          children |-> cloudMap,
                          roots    |-> roots,
                          cloud    |-> ancestorMap]
    [] pc = "aborted" -> [status |-> "rejected"]
    [] OTHER          -> [status |-> "not built"]

Abstract == INSTANCE ClassForest WITH forest <- ForestBuilt

\* The analysis accepts exactly the metadata that describes a forest, whatever
\* the link order, and its result depends on the metadata alone.
ImplementsForest == Abstract!Spec

==============================================================================
