------------------------------- MODULE Layout --------------------------------
(****************************************************************************)
(* SDLayoutBuilder (SafeDispatchLayoutBuilder.cpp): it merges the vtables   *)
(* of every cloud into one table, ordered one after the other or            *)
(* interleaved entry by entry, moves the vptrs there, computes the ranges   *)
(* of vptrs a class admits, and verifies the result.                        *)
(*                                                                          *)
(* Input is a hierarchy that the analysis accepted (CHA.tla,                *)
(* ClassForest.tla) with the region of every sub-vtable: the first and last *)
(* index of its entries in the vtable of its class, and its address point;  *)
(* and its virtual thunks, functions that read the distance to `this' from  *)
(* the vtable at a fixed offset from its address point.                     *)
(* Indices are uint64_t in the code; here they are integers, and a negative *)
(* one stands for the value it wraps to.                                    *)
(****************************************************************************)
EXTENDS Hierarchy, FiniteSetsExt, SequencesExt

CONSTANTS
  NoCloud,                       \* stands for `no cloud is being laid out'
  Preorder(_, _),                \* SDBuildCHA::preorder
  Programs                       \* what may be linked, see IsProgram

VARIABLES
  program,                       \* the input, fixed in Init
  cha,                           \* what the analysis found, fixed in Init
  pc,                            \* which of the loops of buildNewLayouts runs
  todo,                          \* roots the loop has not reached
  cloud,                         \* the root being laid out
  queue,                         \* vtables of its preorder still to process
  filled,                        \* orderedVtbl.size()
  prePadMap,
  alignmentMap,                  \* root -> alignment, in words
  newIndex,                      \* entry -> index in the table of its cloud
  thunkIndex,                    \* cloned thunk -> where it finds its offset
  vptr,                          \* vtable -> index its objects point to
  rangeMap,                      \* vtable -> runs of preorder indices
  memRangeMap                    \* vtable -> runs of vptrs

layout  == <<prePadMap, alignmentMap, newIndex>>
emitted == <<thunkIndex, vptr>>
ranges  == <<rangeMap, memRangeMap>>
vars == <<program, cha, pc, todo, cloud, queue, filled, layout, emitted, ranges>>

------------------------------------------------------------------------------
(* The program, seen through the accessors of the analysis                   *)

Region == [first : Nat, addrPt : Nat, last : Nat]

\* p's entries are all in v, at the same distance from the address point.
Extends(region, v, p) ==
  /\ region[p].addrPt - region[p].first <= region[v].addrPt - region[v].first
  /\ region[p].last - region[p].addrPt <= region[v].last - region[v].addrPt

\* Regions as the front end lays them out: they follow each other, with room
\* in front of the address point, and a vtable that has parents is the
\* extension of one of them.  A thunk is an entry of the vtables in t.in and
\* reads the entry t.offset from their address points.
IsProgram(p) ==
  LET md == p.metadata  region == p.region IN
  /\ IsMetadata(md)
  /\ region \in [Described(md) -> Region]
  /\ p.interleave \in BOOLEAN
  /\ \A v \in Described(md) :
       /\ region[v].first < region[v].addrPt
       /\ region[v].addrPt <= region[v].last
       /\ v[2] = 0 => region[v].first = 0
       /\ v[2] > 0 => region[v].first = region[<<v[1], v[2] - 1>>].last + 1
       /\ Parents(md, v) # {} => \E q \in Parents(md, v) : Extends(region, v, q)
  /\ \A t \in p.thunks :
       /\ t.offset \in Int
       /\ \A v \in t.in :
            /\ v \in Described(md) /\ md[v[1]].defined
            /\ region[v].addrPt + t.offset \in region[v].first .. region[v].addrPt - 1

ASSUME NoCloudAssumption == NoCloud \notin Class

\* The parents are described and every vtable is in one cloud: what the
\* analysis asserts before the layout is built.
ASSUME ProgramsAssumption == \A p \in Programs : IsProgram(p)

ASSUME ForestAssumption ==
  \A md \in {p.metadata : p \in Programs} :
    /\ NamedParents(md) \subseteq Described(md)
    /\ \A v \in Described(md) :
         Cardinality({r \in RootClasses(md) : v \in Derived(md, <<r, 0>>)}) = 1

\* Depth first: what comes between a vtable and a later child of it derives from it.
FollowsBranches(md, nodes) ==
  \A i, j \in DOMAIN nodes :
    nodes[j] \in Children(md, nodes[i]) =>
      \A k \in i .. j : nodes[k] \in Derived(md, nodes[i])

\* A preorder starts with its root and lists what derives from it once, depth first.
ASSUME PreorderAssumption ==
  \A md \in {p.metadata : p \in Programs} : \A v \in Described(md) :
    /\ Preorder(md, v) \in Seq(VTable)
    /\ Preorder(md, v)[1] = v
    /\ ToSet(Preorder(md, v)) = Derived(md, v)
    /\ IsInjective(Preorder(md, v))
    /\ FollowsBranches(md, Preorder(md, v))

VTables        == DOMAIN cha.children
ChildrenOf(v)  == cha.children[v]
Order(v)       == cha.preorder[v]
Descendants(v) == ToSet(cha.preorder[v])
roots          == cha.roots
isDefined(v)   == program.metadata[v[1]].defined
first(v)       == program.region[v].first
addrPt(v)      == program.region[v].addrPt
last(v)        == program.region[v].last

CloudOrder(r) == Order(<<r, 0>>)
CloudOf(r)    == Descendants(<<r, 0>>)

\* indMap: where v comes in the preorder of the cloud of r.
Index(r, v) == CHOOSE i \in DOMAIN CloudOrder(r) : CloudOrder(r)[i] = v

\* The children a cloud meets after v; the others were "visited from a
\* different node".
LaterChildren(r, v) == {w \in ChildrenOf(v) : Index(r, w) > Index(r, v)}

FirstOf(S)  == CHOOSE r \in S : \A s \in S : NameLeq(r, s)
Merge(f, g) == [x \in DOMAIN f \cup DOMAIN g |->
                  IF x \in DOMAIN g THEN g[x] ELSE f[x]]
EmptyMap    == [x \in {} |-> 0]

ClassHierarchy(md) ==
  [children |-> [v \in Described(md) |-> Children(md, v)],
   roots    |-> RootClasses(md),
   preorder |-> [v \in Described(md) |-> Preorder(md, v)]]

Init ==
  /\ program \in Programs
  /\ cha = ClassHierarchy(program.metadata)
  /\ pc = "place"
  /\ todo = roots
  /\ cloud = NoCloud
  /\ queue = <<>>
  /\ filled = 0
  /\ prePadMap = [v \in VTables |-> 0]
  /\ alignmentMap = EmptyMap
  /\ newIndex = EmptyMap
  /\ thunkIndex = EmptyMap
  /\ vptr = EmptyMap
  /\ rangeMap = EmptyMap
  /\ memRangeMap = EmptyMap

------------------------------------------------------------------------------
(* First loop: every cloud is ordered or interleaved                         *)

Size(v) == last(v) - first(v) + 1

\* orderCloud rounds the size of the largest vtable up to a power of two.
RoundedUp(n)   == Min({2^k : k \in 0 .. n} \cap (n .. 2 * n))
RoundedSize(r) == RoundedUp(Max({Size(v) : v \in CloudOf(r)}))

\* Operators named Mutant... are plausible slips in the definition of that name,
\* each the test of one property; no specification here uses them.
\* Here: the loop does not advance.
MutantStartCloud(r) ==
  /\ pc = "place"
  /\ cloud = NoCloud
  /\ todo # {} /\ r = FirstOf(todo)
  /\ cloud' = r
  /\ queue' = CloudOrder(r)
  /\ filled' = 0
  /\ alignmentMap' =
       Merge(alignmentMap, [c \in {r} |-> IF program.interleave THEN 1
                                          ELSE RoundedSize(r)])
  /\ UNCHANGED <<program, cha, pc, todo, prePadMap, newIndex, emitted, ranges>>

StartCloud(r) ==
  /\ pc = "place"
  /\ cloud = NoCloud
  /\ todo # {} /\ r = FirstOf(todo)
  /\ todo' = todo \ {r}
  /\ cloud' = r
  /\ queue' = CloudOrder(r)
  /\ filled' = 0
  /\ alignmentMap' =
       Merge(alignmentMap, [c \in {r} |-> IF program.interleave THEN 1
                                          ELSE RoundedSize(r)])
  /\ UNCHANGED <<program, cha, pc, prePadMap, newIndex, emitted, ranges>>

\* The start of a vtable is aligned instead of its address point.
MutantOrderVTable(v) ==
  /\ pc = "place" /\ ~ program.interleave
  /\ queue # <<>> /\ v = Head(queue)
  /\ queue' = Tail(queue)
  /\ IF isDefined(v)
     THEN LET max  == alignmentMap[cloud]
              base == CHOOSE b \in filled .. filled + max - 1 : b % max = 0
          IN  /\ newIndex' =
                   Merge(newIndex, [e \in {v} \X (first(v) .. last(v)) |->
                                      base + e[2] - first(v)])
              /\ filled' = base + Size(v)
     ELSE UNCHANGED <<newIndex, filled>>
  /\ UNCHANGED <<program, cha, pc, todo, cloud, prePadMap, alignmentMap, emitted,
                 ranges>>

\* orderCloud, one vtable: dummy entries until its address point is aligned,
\* then its entries.
OrderVTable(v) ==
  /\ pc = "place" /\ ~ program.interleave
  /\ queue # <<>> /\ v = Head(queue)
  /\ queue' = Tail(queue)
  /\ IF isDefined(v)
     THEN LET max  == alignmentMap[cloud]
              base == CHOOSE b \in filled .. filled + max - 1 :
                        (b + addrPt(v) - first(v)) % max = 0
          IN  /\ newIndex' =
                   Merge(newIndex, [e \in {v} \X (first(v) .. last(v)) |->
                                      base + e[2] - first(v)])
              /\ filled' = base + Size(v)
     ELSE UNCHANGED <<newIndex, filled>>
  /\ UNCHANGED <<program, cha, pc, todo, cloud, prePadMap, alignmentMap, emitted,
                 ranges>>

\* interleaveCloudNew, one parent: a later child that begins closer to its
\* address point than the parent is padded in front.
Depth(v) == addrPt(v) - first(v) + prePadMap[v]

\* The difference is taken whatever its sign.
MutantPadChildren(v) ==
  /\ pc = "place" /\ program.interleave
  /\ queue # <<>> /\ v = Head(queue)
  /\ queue' = Tail(queue)
  /\ prePadMap' = [w \in VTables |->
                     IF isDefined(v) /\ w \in LaterChildren(cloud, v)
                     THEN Depth(v) - Depth(w)
                     ELSE prePadMap[w]]
  /\ UNCHANGED <<program, cha, pc, todo, cloud, filled, alignmentMap, newIndex,
                 emitted, ranges>>

PadChildren(v) ==
  /\ pc = "place" /\ program.interleave
  /\ queue # <<>> /\ v = Head(queue)
  /\ queue' = Tail(queue)
  /\ prePadMap' = [w \in VTables |->
                     IF /\ isDefined(v)
                        /\ w \in LaterChildren(cloud, v)
                        /\ Depth(v) > Depth(w)
                     THEN Depth(v) - Depth(w)
                     ELSE prePadMap[w]]
  /\ UNCHANGED <<program, cha, pc, todo, cloud, filled, alignmentMap, newIndex,
                 emitted, ranges>>

\* The last entry is taken for the end.
MutantEntries(v) == {v} \X (first(v) - prePadMap[v] .. last(v) - 1)

\* The entries of v, the pad included, at their old indices.
Entries(v) == {v} \X (first(v) - prePadMap[v] .. last(v))

\* Rows are counted from the start of a vtable, not from its address point.
MutantPrecedes(r, d, e) ==
  LET row(x) == x[2] - first(x[1])
  IN  \/ row(d) < row(e)
      \/ row(d) = row(e) /\ Index(r, d[1]) < Index(r, e[1])

\* A row is taken in the order of the names.
MutantPrecedesByName(r, d, e) ==
  LET row(x) == x[2] - addrPt(x[1])
  IN  \/ row(d) < row(e)
      \/ row(d) = row(e) /\ d[1] # e[1] /\ VTableLeq(d[1], e[1])

\* fillVtablePart goes away from the address points row by row, in front of
\* them and behind, and takes each row in preorder.
Precedes(r, d, e) ==
  LET row(x) == x[2] - addrPt(x[1])
  IN  \/ row(d) < row(e)
      \/ row(d) = row(e) /\ Index(r, d[1]) < Index(r, e[1])

InterleaveCloud ==
  /\ pc = "place" /\ program.interleave
  /\ cloud # NoCloud /\ queue = <<>>
  /\ LET defined == {v \in CloudOf(cloud) : isDefined(v)}
         entries == UNION {Entries(v) : v \in defined}
     IN  newIndex' =
           Merge(newIndex, [e \in entries |->
             Cardinality({d \in entries : Precedes(cloud, d, e)})])
  /\ cloud' = NoCloud
  /\ UNCHANGED <<program, cha, pc, todo, queue, filled, prePadMap, alignmentMap,
                 emitted, ranges>>

FinishOrder ==
  /\ pc = "place" /\ ~ program.interleave
  /\ cloud # NoCloud /\ queue = <<>>
  /\ cloud' = NoCloud
  /\ UNCHANGED <<program, cha, pc, todo, queue, filled, layout, emitted, ranges>>

\* The next loop over the roots.
NextLoop ==
  /\ pc \in {"place", "emit", "range"}
  /\ cloud = NoCloud /\ todo = {}
  /\ pc' = CASE pc = "place" -> "emit" [] pc = "emit" -> "range"
             [] pc = "range" -> "verify"
  /\ todo' = roots
  /\ UNCHANGED <<program, cha, cloud, queue, filled, layout, emitted, ranges>>

------------------------------------------------------------------------------
(* Second loop: the new tables are emitted and the vptrs moved               *)

\* newLayoutInds[v][i]: the new index of the i-th entry of v, counted from the
\* first one that was placed.
newLayoutInds(v, i) == newIndex[<<v, first(v) - prePadMap[v] + i>>]

\* getFirstDefinedChild
FirstDefinedChild(v) ==
  LET order == Order(v)
  IN  order[Min({i \in DOMAIN order : isDefined(order[i])})]

\* translateVtblInd, relative: the index SDUpdateIndices puts in the place of
\* offset where a vtable is used as v, and its assert that the vtable has it.
Translated(v) == IF isDefined(v) THEN v ELSE FirstDefinedChild(v)

IsTranslatable(v, offset) ==
  LET u == Translated(v) IN addrPt(u) + offset \in first(u) .. last(u)

translateVtblInd(v, offset) ==
  LET u   == Translated(v)
      old == addrPt(u) - first(u)
  IN  newLayoutInds(u, old + offset) - newLayoutInds(u, old)

\* createThunkFunctions goes through the classes of a cloud in preorder, and
\* through all the vtables of each, those in other clouds as well.
Classes(r)       == {v[1] : v \in CloudOf(r)}
ClassIndex(r, c) == Min({i \in DOMAIN CloudOrder(r) : CloudOrder(r)[i][1] = c})

MetBefore(r, v, w) ==
  \/ ClassIndex(r, v[1]) < ClassIndex(r, w[1])
  \/ v[1] = w[1] /\ v[2] < w[2]

\* The vtables of the cloud of s that hold the thunk t.
Holders(t, s) == t.in \cap CloudOf(s)

\* A plausible slip: the primary vtable of the class is asked.
MutantThunkIndices(r) ==
  LET met(k) == {v \in Holders(k[1], k[2]) : v[1] \in Classes(r)}
      new    == {k \in program.thunks \X roots : met(k) # {}} \ DOMAIN thunkIndex
      asked(k) == CHOOSE v \in met(k) : \A w \in met(k) \ {v} : MetBefore(r, v, w)
  IN  [k \in new |-> translateVtblInd(<<asked(k)[1], 0>>, k[1].offset)]

\* One clone of a thunk per cloud whose vtables hold it, named for the root; its
\* index is translated for the vtable that is met first, the others share it.
ThunkIndices(r) ==
  LET met(k) == {v \in Holders(k[1], k[2]) : v[1] \in Classes(r)}
      new    == {k \in program.thunks \X roots : met(k) # {}} \ DOMAIN thunkIndex
      asked(k) == CHOOSE v \in met(k) : \A w \in met(k) \ {v} : MetBefore(r, v, w)
  IN  [k \in new |-> translateVtblInd(asked(k), k[1].offset)]

\* createNewVTable: a pad entry becomes a null pointer, unless its index
\* wrapped: then it is taken for an entry of the old table, and fetching it
\* fails an assert.  The vptr of v is looked up by the place of its address
\* point in the old vtable.
EmitCloud(r) ==
  /\ pc = "emit"
  /\ todo # {} /\ r = FirstOf(todo)
  /\ todo' = todo \ {r}
  /\ thunkIndex' = Merge(thunkIndex, ThunkIndices(r))
  /\ IF \E e \in DOMAIN newIndex : e[1] \in CloudOf(r) /\ e[2] < 0
     THEN pc' = "aborted" /\ UNCHANGED vptr
     ELSE /\ vptr' = Merge(vptr, [v \in {w \in CloudOf(r) : isDefined(w)} |->
                                    newLayoutInds(v, addrPt(v) - first(v))])
          /\ UNCHANGED pc
  /\ UNCHANGED <<program, cha, cloud, queue, filled, layout, ranges>>

------------------------------------------------------------------------------
(* Third loop: the ranges of the vptrs                                       *)

Covered(R) == UNION {r[1] .. r[2] - 1 : r \in R}

\* Sorted and coalesced, ranges are the maximal runs of what they cover.
Coalesced(I) ==
  {r \in I \X {i + 1 : i \in I} :
     /\ r[1] < r[2]
     /\ r[1] .. r[2] - 1 \subseteq I
     /\ r[1] - 1 \notin I /\ r[2] \notin I}

VPtrRanges(r) ==
  LET rangesOf[v \in CloudOf(r)] ==
        Coalesced({Index(r, v)} \cup
                    UNION {Covered(rangesOf[w]) : w \in ChildrenOf(v)})
  IN  [v \in CloudOf(r) |-> rangesOf[v]]

\* Vtables without an initializer count.
MutantMemRanges(r, R) ==
  LET defined(i, j) == {k \in i .. j - 1 : isDefined(CloudOrder(r)[k])}
      start(v)      == newLayoutInds(v, addrPt(v) - first(v))
  IN  {[start |-> start(CloudOrder(r)[Min(defined(q[1], q[2]))]),
        width |-> q[2] - q[1]] :
         q \in {p \in R : defined(p[1], p[2]) # {}}}

\* calculateVPtrRanges: a range of preorder indices with a defined vtable
\* becomes as many vptrs as it has defined vtables, from the vptr of the first.
MemRanges(r, R) ==
  LET defined(i, j) == {k \in i .. j - 1 : isDefined(CloudOrder(r)[k])}
      start(v)      == newLayoutInds(v, addrPt(v) - first(v))
  IN  {[start |-> start(CloudOrder(r)[Min(defined(q[1], q[2]))]),
        width |-> Cardinality(defined(q[1], q[2]))] :
         q \in {p \in R : defined(p[1], p[2]) # {}}}

\* verifyVPtrRanges.
VPtrRangesVerified(r) ==
  \A v \in CloudOf(r) :
    /\ \A p, q \in rangeMap[v] : p # q => p[2] < q[1] \/ q[2] < p[1]
    /\ MapThenSumSet(LAMBDA q : q[2] - q[1], rangeMap[v]) = Len(Order(v))
    /\ \A w \in ToSet(Order(v)) : Index(r, w) \in Covered(rangeMap[v])

CoalesceRanges(r) ==
  /\ pc = "range"
  /\ cloud = NoCloud
  /\ todo # {} /\ r = FirstOf(todo)
  /\ todo' = todo \ {r}
  /\ cloud' = r
  /\ rangeMap' = Merge(rangeMap, VPtrRanges(r))
  /\ UNCHANGED <<program, cha, pc, queue, filled, layout, emitted, memRangeMap>>

BuildMemRanges ==
  /\ pc = "range"
  /\ cloud # NoCloud
  /\ cloud' = NoCloud
  /\ memRangeMap' =
       Merge(memRangeMap, [v \in CloudOf(cloud) |-> MemRanges(cloud, rangeMap[v])])
  /\ pc' = IF VPtrRangesVerified(cloud) THEN pc ELSE "aborted"
  /\ UNCHANGED <<program, cha, todo, queue, filled, layout, emitted, rangeMap>>

------------------------------------------------------------------------------
(* verifyNewLayouts                                                          *)

\* 1) the old indices of every defined vtable are there, without a hole.
Dense(r) ==
  \A v \in CloudOf(r) :
    isDefined(v) => Entries(v) \subseteq DOMAIN newIndex

DefinedPairs(r) ==
  {q \in CloudOf(r) \X CloudOf(r) :
     /\ isDefined(q[1]) /\ isDefined(q[2])
     /\ q[2] \in LaterChildren(r, q[1])}

\* The child has to begin further away than the parent.
MutantContained(p, c) ==
  /\ Depth(p) < Depth(c)
  /\ last(p) - addrPt(p) <= last(c) - addrPt(c)

\* 1.5) the parent is contained in the child.
Contained(p, c) ==
  /\ Depth(p) <= Depth(c)
  /\ last(p) - addrPt(p) <= last(c) - addrPt(c)

\* 2) relative to the address point, the entries of the parent have moved like
\* the ones of the child.
SameOffsets(p, c) ==
  \A e \in Entries(p) :
    newIndex[e] - newIndex[<<p, addrPt(p)>>] =
      newIndex[<<c, e[2] - addrPt(p) + addrPt(c)>>] - newIndex[<<c, addrPt(c)>>]

CloudVerified(r) ==
  /\ Dense(r)
  /\ \A q \in DefinedPairs(r) : Contained(q[1], q[2])
  /\ \A q \in DefinedPairs(r) : SameOffsets(q[1], q[2])

\* Without interleaving the function returns after the first cloud.
VerifyNewLayouts ==
  /\ pc = "verify"
  /\ pc' = IF IF program.interleave THEN \A r \in roots : CloudVerified(r)
              ELSE roots # {} => Dense(FirstOf(roots))
           THEN "done" ELSE "aborted"
  /\ UNCHANGED <<program, cha, todo, cloud, queue, filled, layout, emitted, ranges>>

Finished ==
  /\ pc \in {"done", "aborted"}
  /\ UNCHANGED vars

------------------------------------------------------------------------------
Place ==
  \/ \E r \in todo : StartCloud(r)
  \/ \E v \in VTables : OrderVTable(v) \/ PadChildren(v)
  \/ InterleaveCloud
  \/ FinishOrder

Next ==
  \/ Place
  \/ NextLoop
  \/ \E r \in todo : EmitCloud(r) \/ CoalesceRanges(r)
  \/ BuildMemRanges
  \/ VerifyNewLayouts
  \/ Finished

\* The pass is one thread that runs until it returns or an assert ends it.
Spec == Init /\ [][Next]_vars /\ WF_vars(Next)

------------------------------------------------------------------------------
(* What the emitted program does                                             *)

\* The vptrs that the check for v is meant to admit.
Admitted(v) ==
  UNION {{m.start + i * alignmentMap[r] : i \in 0 .. m.width - 1} :
           m \in memRangeMap[v], r \in {s \in roots : v \in CloudOf(s)}}

------------------------------------------------------------------------------
(* Properties                                                                *)

PartialMap(f, S, T) == DOMAIN f \subseteq S /\ f \in [DOMAIN f -> T]

\* The type invariant.
TypeOK ==
  /\ program.region \in [VTables -> Region]
  /\ cha \in [children : [VTables -> SUBSET VTables],
              roots    : SUBSET Class,
              preorder : [VTables -> Seq(VTables)]]
  /\ pc \in {"place", "emit", "range", "verify", "done", "aborted"}
  /\ todo \subseteq roots
  /\ cloud \in roots \cup {NoCloud}
  /\ queue \in Seq(VTables)
  /\ filled \in Nat
  /\ prePadMap \in [VTables -> Nat]
  /\ PartialMap(alignmentMap, roots, Nat \ {0})
  /\ PartialMap(newIndex, VTables \X Int, Nat)
  /\ PartialMap(thunkIndex, program.thunks \X roots, Int)
  /\ PartialMap(vptr, VTables, Nat)
  /\ PartialMap(rangeMap, VTables, SUBSET (Nat \X Nat))
  /\ PartialMap(memRangeMap, VTables, SUBSET [start : Nat, width : Nat])

\* No two entries of a cloud share an index, and when a cloud is laid out every
\* entry of its defined vtables has one: nothing of an old vtable is lost or
\* overwritten when the old vtables are deleted.
EntriesKept ==
  /\ \A r \in roots :
       LET placed == {e \in DOMAIN newIndex : e[1] \in CloudOf(r)}
       IN  Cardinality({newIndex[e] : e \in placed}) = Cardinality(placed)
  /\ \A r \in roots \ (todo \cup {cloud}) : \A v \in CloudOf(r) :
       isDefined(v) => {v} \X (first(v) .. last(v)) \subseteq DOMAIN newIndex

\* The vptr of a vtable that needed no pad is the new place of its address
\* point, at a multiple of the alignment if the cloud was ordered: what the
\* rotation in the range check relies on.
VptrOnAddressPoint ==
  \A v \in DOMAIN vptr :
    /\ prePadMap[v] = 0 => vptr[v] = newIndex[<<v, addrPt(v)>>]
    /\ \A r \in roots : v \in CloudOf(r) /\ ~ program.interleave =>
         vptr[v] % alignmentMap[r] = 0

\* Where the comparisons of verifyNewLayouts lead from v.
VerifiedBelow(r, v) ==
  {w \in CloudOf(r) : \A S \in SUBSET CloudOf(r) :
     v \in S /\ (\A q \in DefinedPairs(r) : q[1] \in S => q[2] \in S) => w \in S}

\* The defined vtables of a cloud laid out from u to w, or from w to u.
Between(r, u, w) ==
  {x \in CloudOf(r) :
     /\ isDefined(x)
     /\ Index(r, x) \in (Index(r, u) .. Index(r, w)) \cup (Index(r, w) .. Index(r, u))}

\* The vtables below v that keep the entries of v at their distances from the vptr:
\* no table in between lacks a row, and no pad has moved the vptr.
Receivers(r, v) ==
  {w \in Descendants(v) :
     /\ isDefined(w)
     /\ IF program.interleave
        THEN /\ prePadMap[w] = 0 /\ prePadMap[Translated(v)] = 0
             /\ \/ isDefined(v) /\ w \in VerifiedBelow(r, v)
                \/ \A x \in Between(r, Translated(v), w) : Extends(program.region, x, v)
        ELSE Extends(program.region, w, v)}

\* A virtual call through a class finds in a vtable below it the entry the
\* static type meant, whatever was interleaved in between: in an ordered cloud
\* wherever the entry is, in an interleaved one where the verification compared
\* every step from the class to the vtable, also around others that lack the entry,
\* or where all that lies between has it; without pads in the two.
DispatchFindsEntry ==
  pc = "done" =>
    \A r \in roots : \A v \in CloudOf(r) : \A w \in Receivers(r, v) :
      \A k \in first(v) - addrPt(v) .. last(v) - addrPt(v) :
        IsTranslatable(v, k) =>
          vptr[w] + translateVtblInd(v, k) = newIndex[<<w, addrPt(w) + k>>]

\* A thunk finds its offset in every vtable that holds it, though all those of a
\* cloud share one clone: in an ordered cloud, and in an interleaved one if the
\* others keep the entries of one of them (Receivers).
ThunksFindOffset ==
  pc = "done" =>
    \A t \in program.thunks : \A r \in roots :
      \/ Holders(t, r) = {}
      \/ program.interleave /\ \A v \in Holders(t, r) : ~ Holders(t, r) \subseteq Receivers(r, v)
      \/ \A v \in Holders(t, r) :
           vptr[v] + thunkIndex[<<t, r>>] = newIndex[<<v, addrPt(v) + t.offset>>]

\* A vptr that the check for v admits belongs to a vtable that derives from v,
\* unless a pad has moved the vptrs the ranges of v begin with.
OnlyDescendantsAdmitted ==
  pc = "done" =>
    \A r \in roots : \A v, w \in CloudOf(r) :
      /\ \A u \in Descendants(v) : prePadMap[u] = 0
      /\ isDefined(w) /\ vptr[w] \in Admitted(v)
      => w \in Descendants(v)

\* In an interleaved cloud without pads the ranges of v are exactly the vptrs of
\* what derives from v, not one index more.
InterleavedRangesExact ==
  pc = "done" /\ program.interleave =>
    \A r \in roots :
      (\A v \in CloudOf(r) : prePadMap[v] = 0) =>
        \A v \in CloudOf(r) :
          Admitted(v) = {vptr[w] : w \in {u \in Descendants(v) : isDefined(u)}}

\* The asserts of the pass end it only if some vtable does not extend one of
\* its parents: a hierarchy of tables that do is laid out to the end.
OnlyMisfitsAbort ==
  pc = "aborted" =>
    \E v \in VTables : \E p \in Parents(program.metadata, v) :
      ~ Extends(program.region, v, p)

\* The loops over the clouds come to an end, or an assert ends the pass.
Terminates == <>(pc \in {"done", "aborted"})

------------------------------------------------------------------------------
(* What comments in the code say of it                                       *)

\* verifyNewLayouts: "Check that the relative vtable offsets are the same for
\* every parent/child class pair".
SameOffsetsEverywhere ==
  pc = "done" =>
    \A p \in VTables : \A c \in ChildrenOf(p) :
      isDefined(p) /\ isDefined(c) /\ Contained(p, c) => SameOffsets(p, c)

\* buildNewLayouts: "Check that each descendent is in one of the ranges".
DescendantsAdmitted ==
  pc = "done" =>
    \A v \in VTables : \A w \in Descendants(v) :
      isDefined(w) => vptr[w] \in Admitted(v)

\* createNewVTable: "find the new offset corresponding to the relative offset
\* inside the interleaved vtable".
VptrCorresponds ==
  \A v \in DOMAIN vptr : vptr[v] = newIndex[<<v, addrPt(v)>>]

\* createThunkFunctions: "if allready exists than skip [...] we already created
\* such function, will use that later", of a vtable whose index it "replace[s
\*...] since the layout of the v tables is changed".
ClonesSuitAll ==
  pc = "done" =>
    \A t \in program.thunks : \A r \in roots : \A v \in Holders(t, r) :
      vptr[v] + thunkIndex[<<t, r>>] = newIndex[<<v, addrPt(v) + t.offset>>]

\* runOnModule: assert(verifyNewLayouts(M)).
LayoutsVerify == pc # "aborted"

==============================================================================
