------------------------------ MODULE Policies -------------------------------
(****************************************************************************)
(* SDAnalysis (SafeDispatchAnalysis.cpp): for every call site of the linked *)
(* program it finds the functions that each policy of control flow          *)
(* integrity would let the site call: the policies that compare types       *)
(* (IFCC, IFCC-safe, vTrust, TypeArmor), and for virtual calls the ones     *)
(* that compare places in the class hierarchy (ShrinkWrap, VTV, Marx,       *)
(* vTint).  The files it writes have the sets and their sizes; here they    *)
(* are sets.                                                                *)
(*                                                                          *)
(* A program is a hierarchy with the regions of its vtables (as in Layout), *)
(* the function of every entry from the address point on, the functions of  *)
(* the linked module with their types, the call sites with the types they   *)
(* call, the virtual calls (the uses of sd_get_checked_vptr), and what      *)
(* earlier links left in the directory the files go to.                     *)
(****************************************************************************)
EXTENDS Hierarchy, FiniteSetsExt, SequencesExt

CONSTANTS
  Preorder(_, _),                \* SDBuildCHA::preorder
  Programs                       \* what may be linked, see IsProgram

VARIABLES
  program,                       \* the input, fixed in Init
  cha,                           \* what the analysis found, fixed in Init
  pc,
  ordered,                       \* classes whose sub-hierarchy is still to build
  frames,                        \* calls of topoSortHelper: class, children left
  todo,                          \* what the running loop has not reached
  VTableSubHierarchy,            \* vtable -> defined vtables below it
  ClassSubHierarchy,             \* class -> classes of these, of any sub-vtable
  VTableSubHierarchyPerFunction, \* <<function, class>> -> functions
  ClassSubHierarchyPerFunction,
  islands,                       \* island root -> classes
  classToIslandRoot,
  ClassToIsland,                 \* <<function, class>> -> functions
  AllVFunctions,
  callees,                       \* the functions by their encoded types
  callees_virtual,               \* the virtual ones
  VirtualCallSites,
  Data,                          \* what was found out, see CallSiteInfo
  outputs                        \* <<name, number>> -> content

sorted      == <<ordered, frames>>
hierarchies == <<VTableSubHierarchy, ClassSubHierarchy>>
targets     == <<VTableSubHierarchyPerFunction, ClassSubHierarchyPerFunction>>
marx        == <<islands, classToIslandRoot, ClassToIsland>>
functions   == <<AllVFunctions, callees, callees_virtual>>
sites       == <<VirtualCallSites, Data>>
vars == <<program, cha, pc, sorted, todo, hierarchies, targets, marx, functions,
          sites, outputs>>

------------------------------------------------------------------------------
(* Programs                                                                  *)

\* A function is a sequence of strings, its class and its name; a thunk has a
\* third.  The name is what the demangler leaves of it.
FunctionName == Seq(STRING)
NoName       == <<"", "">>       \* of a destructor, or of no entry
isThunk(f)   == Len(f) = 3

\* A type is a kind, or "ptr" and the type pointed to.
Kinds == {"void", "i1", "i8", "i16", "i32", "i64", "half", "float", "double",
          "fp80", "struct", "array", "other"}

IsType(t) ==
  /\ t \in Seq(Kinds \cup {"ptr"})
  /\ t # <<>> /\ t[Len(t)] \in Kinds
  /\ \A i \in 1 .. Len(t) - 1 : t[i] = "ptr"

IsFunctionType(t) ==
  /\ IsType(t.ret)
  /\ Len(t.params) \in Nat /\ DOMAIN t.params = 1 .. Len(t.params)
  /\ \A i \in DOMAIN t.params : IsType(t.params[i])

\* A class that extends a vtable of a base extends the primary one too.
ExtendsPrimaries(md) ==
  \A c \in DOMAIN md :
    LET extended == UNION {Parents(md, v) : v \in OwnVTables(md, c)}
    IN  \A p \in extended : <<p[1], 0>> \in extended

\* The path of a class to itself, which has no parent, leads to its primary vtable.
RootsArePrimary(md) == \A v \in Described(md) : IsRoot(md, v) => v[2] = 0

\* An entry below is the one above in the same place, or overrides it: it has the
\* same name but for the class, and the same types (classes are not told apart).
OverridesKeepTypes(p) ==
  \A v \in Described(p.metadata) : \A w \in Derived(p.metadata, v) :
    \A k \in DOMAIN p.entry[v] \cap DOMAIN p.entry[w] :
      LET f == p.entry[v][k]
          g == p.entry[w][k]
      IN  {f, g} \subseteq DOMAIN p.functions =>
            g[2] = f[2] /\ p.functions[g] = p.functions[f]

\* A function that a class declares has one overrider in every class below, in each
\* place where the function is: in its own slot and in those of the bases it
\* overrides.
OneOverrider(p) ==
  \A i \in DOMAIN p.calls :
    LET f   == p.calls[i].function
        own == OwnVTables(p.metadata, p.calls[i].class)
    IN  \A v, w \in own : \A k \in DOMAIN p.entry[v], l \in DOMAIN p.entry[w] :
          p.entry[v][k] = f /\ p.entry[w][l] = f =>
            \A x \in Derived(p.metadata, v) :
              /\ k \in DOMAIN p.entry[x] /\ p.entry[x][k] # NoName
              /\ \E y \in Derived(p.metadata, w) :
                   /\ y[1] = x[1] /\ l \in DOMAIN p.entry[y]
                   /\ p.entry[y][l] = p.entry[x][k]

IsProgram(p) ==
  LET md == p.metadata IN
  /\ IsMetadata(md) /\ ExtendsPrimaries(md) /\ RootsArePrimary(md)
  /\ NamedParents(md) \subseteq Described(md)
  /\ p.blacklisted \subseteq DOMAIN p.functions
  /\ \A f \in DOMAIN p.functions : f # NoName /\ IsFunctionType(p.functions[f])
  /\ \A v \in Described(md) :
       /\ p.region[v] \in [first : Int, addrPt : Int, last : Int]
       /\ p.region[v].first < p.region[v].addrPt
       /\ p.entry[v] \in Seq(FunctionName)
       /\ Len(p.entry[v]) = p.region[v].last - p.region[v].addrPt + 1
  /\ \A s \in DOMAIN p.sites : IsFunctionType(p.sites[s])
  /\ \A i \in DOMAIN p.calls :
       LET call == p.calls[i] IN
       /\ call.class \in DOMAIN md
       /\ call.index \in Nat /\ call.index + 1 \in DOMAIN p.entry[<<call.class, 0>>]
       /\ p.entry[<<call.class, 0>>][call.index + 1] = call.function
       /\ call.function # NoName /\ call.function \in DOMAIN p.functions
       /\ call.function[1] = call.class
       /\ call.site \in DOMAIN p.sites \cup {0}
       /\ call.site # 0 => p.sites[call.site] = p.functions[call.function]
  /\ OverridesKeepTypes(p) /\ OneOverrider(p)
  /\ IsFiniteSet(DOMAIN p.dir) /\ DOMAIN p.dir \subseteq {"Virtual", "Indirect"} \X Nat

ASSUME ProgramsAssumption == \A p \in Programs : IsProgram(p)

\* A preorder lists what derives from its root once.
ASSUME PreorderAssumption ==
  \A md \in {p.metadata : p \in Programs} : \A v \in Described(md) :
    /\ Preorder(md, v) \in Seq(VTable)
    /\ ToSet(Preorder(md, v)) = Derived(md, v)
    /\ IsInjective(Preorder(md, v))

metadata     == program.metadata
Classes      == DOMAIN metadata
VTables      == DOMAIN cha.children
ChildrenOf(v) == cha.children[v]
isDefined(c) == metadata[c].defined
Calls        == DOMAIN program.calls
Sites        == DOMAIN program.sites

FirstClass(S)  == CHOOSE c \in S : \A d \in S : NameLeq(c, d)
FirstVTable(S) == CHOOSE v \in S : \A w \in S : VTableLeq(v, w)

EmptyMap     == [x \in {} |-> {}]
Lookup(f, k) == IF k \in DOMAIN f THEN f[k] ELSE {}
Merge(f, g)  == [x \in DOMAIN f \cup DOMAIN g |->
                   IF x \in DOMAIN g THEN g[x] ELSE f[x]]

NoCallees == [Normal |-> EmptyMap, Short |-> EmptyMap, Precise |-> EmptyMap,
              Params |-> EmptyMap]

Init ==
  /\ program \in Programs
  /\ cha = [children |-> [v \in Described(metadata) |-> Children(metadata, v)],
            roots    |-> RootClasses(metadata)]
  /\ pc = "sort"
  /\ ordered = <<>>
  /\ frames = <<>>
  /\ todo = cha.roots
  /\ VTableSubHierarchy = EmptyMap
  /\ ClassSubHierarchy = EmptyMap
  /\ VTableSubHierarchyPerFunction = EmptyMap
  /\ ClassSubHierarchyPerFunction = EmptyMap
  /\ islands = EmptyMap
  /\ classToIslandRoot = EmptyMap
  /\ ClassToIsland = EmptyMap
  /\ AllVFunctions = {}
  /\ callees = NoCallees
  /\ callees_virtual = NoCallees
  /\ VirtualCallSites = {}
  /\ Data = EmptyMap
  /\ outputs = program.dir

------------------------------------------------------------------------------
(* The hierarchy below every vtable and class                                *)

\* topoSortHelper, one call: a class that was left is not visited again; one that is
\* being visited must not come up ("CHA is cyclic!?").
TopoSortHelper(c, callers) ==
  IF c \in ToSet(ordered)
  THEN frames' = callers /\ UNCHANGED pc
  ELSE IF \E i \in DOMAIN frames : frames[i].class = c
  THEN pc' = "aborted" /\ UNCHANGED frames
  ELSE /\ frames' = Append(callers, [class |-> c, rest |-> ChildrenOf(<<c, 0>>)])
       /\ UNCHANGED pc

\* topoSort: depth first from the roots in name order, over the classes of the
\* children of primary vtables.
VisitRoot(r) ==
  /\ pc = "sort" /\ frames = <<>>
  /\ todo # {} /\ r = FirstClass(todo)
  /\ todo' = todo \ {r}
  /\ TopoSortHelper(r, <<>>)
  /\ UNCHANGED <<program, cha, ordered, hierarchies, targets, marx, functions, sites,
                 outputs>>

VisitChild ==
  /\ pc = "sort" /\ frames # <<>>
  /\ Last(frames).rest # {}
  /\ LET v == FirstVTable(Last(frames).rest)
     IN  TopoSortHelper(v[1], Append(Front(frames),
                                     [Last(frames) EXCEPT !.rest = @ \ {v}]))
  /\ UNCHANGED <<program, cha, ordered, todo, hierarchies, targets, marx, functions,
                 sites, outputs>>

\* Operators named Mutant... are plausible slips in the definition of that name,
\* each the test of one property; no specification here uses them.
\* Here: a class is put behind the ones left before it.
MutantLeaveClass ==
  /\ pc = "sort" /\ frames # <<>>
  /\ Last(frames).rest = {}
  /\ ordered' = Append(ordered, Last(frames).class)
  /\ frames' = Front(frames)
  /\ UNCHANGED <<program, cha, pc, todo, hierarchies, targets, marx, functions, sites,
                 outputs>>

\* A class is put in front when it is left.
LeaveClass ==
  /\ pc = "sort" /\ frames # <<>>
  /\ Last(frames).rest = {}
  /\ ordered' = <<Last(frames).class>> \o ordered
  /\ frames' = Front(frames)
  /\ UNCHANGED <<program, cha, pc, todo, hierarchies, targets, marx, functions, sites,
                 outputs>>

\* Vtables without an initializer count.
MutantSubHierarchy(v) ==
  {v} \cup UNION {VTableSubHierarchy[w] : w \in ChildrenOf(v)}

SubHierarchy(v) ==
  {w \in {v} : isDefined(w[1])}
    \cup UNION {VTableSubHierarchy[w] : w \in ChildrenOf(v)}

\* buildSubHierarchies, one class: the topological order backwards, with an
\* assert that every child was there before.
BuildSubHierarchy ==
  /\ pc = "hierarchies" /\ ordered # <<>>
  /\ ordered' = Front(ordered)
  /\ LET c   == Last(ordered)
         own == OwnVTables(metadata, c)
     IN  IF UNION {ChildrenOf(v) : v \in own} \subseteq DOMAIN VTableSubHierarchy
         THEN /\ VTableSubHierarchy' =
                   Merge(VTableSubHierarchy, [v \in own |-> SubHierarchy(v)])
              /\ ClassSubHierarchy' =
                   Merge(ClassSubHierarchy,
                         [x \in {c} |-> {w[1] : w \in UNION {SubHierarchy(v) : v \in own}}])
              /\ UNCHANGED pc
         ELSE pc' = "aborted" /\ UNCHANGED hierarchies
  /\ UNCHANGED <<program, cha, frames, todo, targets, marx, functions, sites, outputs>>

------------------------------------------------------------------------------
(* Functions at the same offset in the tables below (ShrinkWrap, VTV)        *)

\* The entries in front of the address point of v.
Prefix(v) == program.region[v].addrPt - program.region[v].first

\* sd_generateSubvtableInfo counts the offset of an entry from the beginning of
\* its sub-vtable; destructors are left out.
Offsets(v) == {Prefix(v) + k - 1 : k \in {i \in DOMAIN program.entry[v] :
                                            program.entry[v][i] # NoName}}

\* FunctionNameInVTableAtOffset[v][offset]: reading a place without a function
\* puts the empty name there.
NameAt(v, offset) ==
  IF offset \in Offsets(v) THEN program.entry[v][offset - Prefix(v) + 1] ELSE NoName

\* FunctionNamesInClassAtOffset[c][offset]
NamesInClassAt(c, offset) ==
  {NameAt(v, offset) : v \in {w \in OwnVTables(metadata, c) : offset \in Offsets(w)}}

OffsetsInClass(c) == UNION {Offsets(v) : v \in OwnVTables(metadata, c)}

\* The key of a function in two sub-vtables of a class, or at two offsets of one,
\* is written twice: the last one stays.
MatchTargetsInVTable(v) ==
  /\ pc = "vtable targets"
  /\ todo # {} /\ v = FirstVTable(todo)
  /\ todo' = todo \ {v}
  /\ LET names   == {NameAt(v, o) : o \in Offsets(v)}
         last(f) == Max({o \in Offsets(v) : NameAt(v, o) = f})
     IN  VTableSubHierarchyPerFunction' =
           Merge(VTableSubHierarchyPerFunction,
                 [k \in names \X {v[1]} |->
                    {NameAt(w, last(k[1])) : w \in VTableSubHierarchy[v]}])
  /\ UNCHANGED <<program, cha, pc, sorted, hierarchies, ClassSubHierarchyPerFunction,
                 marx, functions, sites, outputs>>

\* The classes below are taken for one table each.
MutantMatchTargetsInClass(c) ==
  /\ pc = "class targets"
  /\ todo # {} /\ c = FirstClass(todo)
  /\ todo' = todo \ {c}
  /\ LET names   == UNION {NamesInClassAt(c, o) : o \in OffsetsInClass(c)}
         last(f) == Max({o \in OffsetsInClass(c) : f \in NamesInClassAt(c, o)})
     IN  ClassSubHierarchyPerFunction' =
           Merge(ClassSubHierarchyPerFunction,
                 [k \in names \X {c} |->
                    {NameAt(<<d, 0>>, last(k[1])) : d \in ClassSubHierarchy[c]}])
  /\ UNCHANGED <<program, cha, pc, sorted, hierarchies,
                 VTableSubHierarchyPerFunction, marx, functions, sites, outputs>>

MatchTargetsInClass(c) ==
  /\ pc = "class targets"
  /\ todo # {} /\ c = FirstClass(todo)
  /\ todo' = todo \ {c}
  /\ LET names   == UNION {NamesInClassAt(c, o) : o \in OffsetsInClass(c)}
         last(f) == Max({o \in OffsetsInClass(c) : f \in NamesInClassAt(c, o)})
     IN  ClassSubHierarchyPerFunction' =
           Merge(ClassSubHierarchyPerFunction,
                 [k \in names \X {c} |->
                    UNION {NamesInClassAt(d, last(k[1])) : d \in ClassSubHierarchy[c]}])
  /\ UNCHANGED <<program, cha, pc, sorted, hierarchies,
                 VTableSubHierarchyPerFunction, marx, functions, sites, outputs>>

------------------------------------------------------------------------------
(* Islands of classes (Marx), and all functions in vtables (vTint)           *)

\* A root always makes an island of its own.
MutantIslandRoot(r) == r

\* computeVTableIslands, one root: the new classes of its preorder make an island.
\* The first class that has an island already, of an earlier root or of this one if
\* the class comes a second time, decides whose it is.
IslandRoot(r) ==
  LET met     == [i \in DOMAIN Preorder(metadata, <<r, 0>>) |->
                    Preorder(metadata, <<r, 0>>)[i][1]]
      old(i)  == met[i] \in DOMAIN classToIslandRoot
      again   == {i \in DOMAIN met : old(i) \/ \E j \in 1 .. i - 1 : met[j] = met[i]}
  IN  IF again = {} \/ ~ old(Min(again)) THEN r ELSE classToIslandRoot[met[Min(again)]]

NewClasses(r) ==
  {v[1] : v \in ToSet(Preorder(metadata, <<r, 0>>))} \ DOMAIN classToIslandRoot

\* The classes of a root replace those of the island they are merged into.
MutantClaimIsland(r) ==
  /\ pc = "islands"
  /\ todo # {} /\ r = FirstClass(todo)
  /\ todo' = todo \ {r}
  /\ LET root == IslandRoot(r)
         new  == NewClasses(r)
     IN  /\ classToIslandRoot' = Merge(classToIslandRoot, [c \in new |-> root])
         /\ islands' = Merge(islands, [x \in {root} |-> new])
  /\ UNCHANGED <<program, cha, pc, sorted, hierarchies, targets, ClassToIsland,
                 functions, sites, outputs>>

ClaimIsland(r) ==
  /\ pc = "islands"
  /\ todo # {} /\ r = FirstClass(todo)
  /\ todo' = todo \ {r}
  /\ LET root == IslandRoot(r)
         new  == NewClasses(r)
     IN  /\ classToIslandRoot' = Merge(classToIslandRoot, [c \in new |-> root])
         /\ islands' = Merge(islands, [x \in {root} |-> Lookup(islands, root) \cup new])
  /\ UNCHANGED <<program, cha, pc, sorted, hierarchies, targets, ClassToIsland,
                 functions, sites, outputs>>

IslandFunctions(r, offset) ==
  UNION {NamesInClassAt(c, offset) : c \in {d \in Lookup(islands, r) : isDefined(d)}}

CollectIslands ==
  /\ pc = "collect"
  /\ pc' = "vfunctions"
  /\ LET names(c)   == UNION {NamesInClassAt(c, o) : o \in OffsetsInClass(c)}
         last(f, c) == Max({o \in OffsetsInClass(c) : f \in NamesInClassAt(c, o)})
         keys       == UNION {names(c) \X {c} : c \in DOMAIN classToIslandRoot}
     IN  ClassToIsland' =
           [k \in keys |-> IslandFunctions(classToIslandRoot[k[2]], last(k[1], k[2]))]
  /\ UNCHANGED <<program, cha, sorted, todo, hierarchies, targets, islands,
                 classToIslandRoot, functions, sites, outputs>>

FindAllVFunctions ==
  /\ pc = "vfunctions"
  /\ pc' = "callees"
  /\ todo' = DOMAIN program.functions
  /\ AllVFunctions' =
       UNION {NamesInClassAt(c, o) :
                c \in {d \in Classes : isDefined(d)},
                o \in UNION {OffsetsInClass(d) : d \in Classes}}
  /\ UNCHANGED <<program, cha, sorted, hierarchies, targets, marx, callees,
                 callees_virtual, sites, outputs>>

\* From a loop that is over to the next one.
NextLoop ==
  /\ todo = {} /\ frames = <<>>
  /\ \/ /\ pc = "sort"
        /\ pc' = "hierarchies" /\ UNCHANGED todo
     \/ /\ pc = "hierarchies" /\ ordered = <<>>
        /\ pc' = "vtable targets" /\ todo' = DOMAIN VTableSubHierarchy
     \/ /\ pc = "vtable targets"
        /\ pc' = "class targets" /\ todo' = DOMAIN ClassSubHierarchy
     \/ /\ pc = "class targets"
        /\ pc' = "islands" /\ todo' = cha.roots
     \/ /\ pc = "islands"
        /\ pc' = "collect" /\ UNCHANGED todo
     \/ /\ pc = "callees"
        /\ pc' = "virtual" /\ todo' = Calls
     \/ /\ pc = "virtual"
        /\ pc' = "indirect" /\ todo' = Sites
     \/ /\ pc = "indirect"
        /\ pc' = "store" /\ UNCHANGED todo
  /\ UNCHANGED <<program, cha, sorted, hierarchies, targets, marx, functions, sites,
                 outputs>>

------------------------------------------------------------------------------
(* Functions by their types (IFCC, IFCC-safe, vTrust, TypeArmor)             *)

Code == [void |-> 1, i1 |-> 2, i8 |-> 3, i16 |-> 4, i32 |-> 5, i64 |-> 6, half |-> 7,
         float |-> 8, double |-> 9, fp80 |-> 10, ptr |-> 11, struct |-> 12,
         array |-> 13, other |-> 14]

encodeType(t, recurse) ==
  IF t[1] = "ptr" /\ recurse THEN 16 + Code[t[2]] ELSE Code[t[1]]

\* The digits are added to one another.
MutantEncodeFunction(t, encodePointers) ==
  LET encoding[i \in 0 .. Len(t.params)] ==
        IF i = 0 THEN encodeType(t.ret, encodePointers)
        ELSE encodeType(t.params[i], TRUE) + encoding[i - 1]
  IN  IF Len(t.params) >= 8 THEN 32 ELSE encoding[Len(t.params)]

\* One number of base 32 for a type of less than eight parameters, and one number
\* for all the others.  Pointers are always looked through in the parameters.
encodeFunction(t, encodePointers) ==
  LET encoding[i \in 0 .. Len(t.params)] ==
        IF i = 0 THEN encodeType(t.ret, encodePointers)
        ELSE encodeType(t.params[i], TRUE) + encoding[i - 1] * 32
  IN  IF Len(t.params) >= 8 THEN 32 ELSE encoding[Len(t.params)]

\* Encodings::encode
Normal(t)  == encodeFunction(t, TRUE)
Short(t)   == encodeFunction(t, FALSE)
Precise(t) == encodeFunction(t, TRUE)

Demangled(f) == f[2]
ParamsClass(t) == Min({Len(t.params), 7})

AddTo(bucket, k, f) == Merge(bucket, [x \in {k} |-> Lookup(bucket, k) \cup {f}])

WithCallee(c, f) ==
  LET t == program.functions[f] IN
  [Normal  |-> AddTo(c.Normal, Normal(t), f),
   Short   |-> AddTo(c.Short, Short(t), f),
   Precise |-> AddTo(c.Precise, <<Demangled(f), Precise(t)>>, f),
   Params  |-> AddTo(c.Params, ParamsClass(t), f)]

isVirtualFunction(f) == f \in AllVFunctions \/ isThunk(f)

\* A function that is passed over does not advance the loop.
MutantAnalyseCallee(f) ==
  /\ pc = "callees"
  /\ IF f \in program.blacklisted
     THEN UNCHANGED <<todo, functions>>
     ELSE /\ todo' = todo \ {f}
          /\ callees' = WithCallee(callees, f)
          /\ IF isVirtualFunction(f)
             THEN /\ AllVFunctions' = AllVFunctions \cup {f}
                  /\ callees_virtual' = WithCallee(callees_virtual, f)
             ELSE UNCHANGED <<AllVFunctions, callees_virtual>>
  /\ UNCHANGED <<program, cha, pc, sorted, hierarchies, targets, marx, sites, outputs>>

\* analyseCallees, one function of the module.
AnalyseCallee(f) ==
  /\ pc = "callees"
  /\ todo' = todo \ {f}
  /\ IF f \in program.blacklisted
     THEN UNCHANGED functions
     ELSE /\ callees' = WithCallee(callees, f)
          /\ IF isVirtualFunction(f)
             THEN /\ AllVFunctions' = AllVFunctions \cup {f}
                  /\ callees_virtual' = WithCallee(callees_virtual, f)
             ELSE UNCHANGED <<AllVFunctions, callees_virtual>>
  /\ UNCHANGED <<program, cha, pc, sorted, hierarchies, targets, marx, sites, outputs>>

------------------------------------------------------------------------------
(* Call sites                                                                *)

\* As many parameters as the site has are taken for too many.
MutantTypeMatches(c, t) ==
  [IFCC      |-> Lookup(c.Normal, Normal(t)),
   Short     |-> Lookup(c.Short, Short(t)),
   TypeArmor |-> UNION {Lookup(c.Params, n) : n \in 0 .. ParamsClass(t) - 1}]

\* analyseCall: what the site of type t may call by the types of c.
TypeMatches(c, t) ==
  [IFCC      |-> Lookup(c.Normal, Normal(t)),
   Short     |-> Lookup(c.Short, Short(t)),
   TypeArmor |-> UNION {Lookup(c.Params, n) : n \in 0 .. ParamsClass(t)}]

\* What a virtual call may call besides.  The more precise class is read from the
\* operand of the class that declares the method, so the two are the same.
HierarchyMatches(call) ==
  LET key == <<call.function, call.class>> IN
  [ShrinkWrap |-> Lookup(VTableSubHierarchyPerFunction, key),
   VTV        |-> Lookup(ClassSubHierarchyPerFunction, key),
   Marx       |-> Lookup(ClassToIsland, key),
   vTrust     |-> Lookup(callees.Precise,
                         <<Demangled(call.function),
                           Precise(program.sites[call.site])>>)]

CallSiteInfo(t) ==
  [all |-> TypeMatches(callees, t), virtual |-> TypeMatches(callees_virtual, t)]

\* processVirtualCallSites, one use of sd_get_checked_vptr; a use that leads to no
\* call is only warned of.
ProcessVirtualCallSite(i) ==
  /\ pc = "virtual"
  /\ todo' = todo \ {i}
  /\ LET call == program.calls[i] IN
       IF call.site = 0 THEN UNCHANGED sites
       ELSE /\ VirtualCallSites' = VirtualCallSites \cup {call.site}
            /\ Data' = Merge(Data, [x \in {<<"virtual", i>>} |->
                                      [types     |-> CallSiteInfo(program.sites[call.site]),
                                       hierarchy |-> HierarchyMatches(call)]])
  /\ UNCHANGED <<program, cha, pc, sorted, hierarchies, targets, marx, functions,
                 outputs>>

\* processIndirectCallSites, one call through a pointer.
ProcessIndirectCallSite(s) ==
  /\ pc = "indirect"
  /\ todo' = todo \ {s}
  /\ Data' = IF s \in VirtualCallSites THEN Data
             ELSE Merge(Data, [x \in {<<"indirect", s>>} |->
                                 [types |-> CallSiteInfo(program.sites[s])]])
  /\ UNCHANGED <<program, cha, pc, sorted, hierarchies, targets, marx, functions,
                 VirtualCallSites, outputs>>

------------------------------------------------------------------------------
(* The files                                                                 *)

exists(name, n) == <<name, n>> \in DOMAIN outputs

\* findOutputFileName: no number, or the first one for which there is no file for
\* virtual calls (which the loop asks twice).
OutputNumber ==
  IF exists("Virtual", 0) \/ exists("Indirect", 0)
  THEN CHOOSE n \in 1 .. Cardinality(DOMAIN outputs) + 1 :
         /\ ~ exists("Virtual", n)
         /\ \A m \in 1 .. n - 1 : exists("Virtual", m)
  ELSE 0

\* A file that could be opened is written, whatever becomes of the other.
MutantStoreData(opened) ==
  /\ pc = "store"
  /\ pc' = "done"
  /\ outputs' = IF Data = EmptyMap THEN outputs
                ELSE Merge(outputs, [x \in opened \X {OutputNumber} |-> "results"])
  /\ UNCHANGED <<program, cha, sorted, todo, hierarchies, targets, marx, functions,
                 sites>>

\* storeData: opening a file empties it, and nothing is written unless both could be
\* opened.
StoreData(opened) ==
  /\ pc = "store"
  /\ pc' = "done"
  /\ outputs' =
       IF Data = EmptyMap THEN outputs
       ELSE Merge(outputs,
                  [x \in opened \X {OutputNumber} |->
                     IF opened = {"Virtual", "Indirect"} THEN "results" ELSE "empty"])
  /\ UNCHANGED <<program, cha, sorted, todo, hierarchies, targets, marx, functions,
                 sites>>

Finished ==
  /\ pc \in {"done", "aborted"}
  /\ UNCHANGED vars

------------------------------------------------------------------------------
AnalyseCHA ==
  \/ \E r \in todo : VisitRoot(r)
  \/ VisitChild
  \/ LeaveClass
  \/ BuildSubHierarchy
  \/ \E v \in todo : MatchTargetsInVTable(v)
  \/ \E c \in todo : MatchTargetsInClass(c)
  \/ \E r \in todo : ClaimIsland(r)
  \/ CollectIslands
  \/ FindAllVFunctions

AnalyseCalls ==
  \/ \E f \in todo : AnalyseCallee(f)
  \/ \E i \in todo : ProcessVirtualCallSite(i)
  \/ \E s \in todo : ProcessIndirectCallSite(s)
  \/ \E opened \in SUBSET {"Virtual", "Indirect"} : StoreData(opened)

Next == AnalyseCHA \/ NextLoop \/ AnalyseCalls \/ Finished

\* The pass is one thread that runs until it returns or an assert ends it.
Spec == Init /\ [][Next]_vars /\ WF_vars(Next)

------------------------------------------------------------------------------
(* Properties                                                                *)

DefinedBelow(v) == {w \in Derived(metadata, v) : isDefined(w[1])}

\* The type invariant.
TypeOK ==
  /\ pc \in {"sort", "hierarchies", "vtable targets", "class targets", "islands",
             "collect", "vfunctions", "callees", "virtual", "indirect", "store",
             "done", "aborted"}
  /\ ToSet(ordered) \cup {frames[i].class : i \in DOMAIN frames} \subseteq Classes
  /\ \A v \in DOMAIN VTableSubHierarchy : VTableSubHierarchy[v] \subseteq VTables
  /\ \A c \in DOMAIN ClassSubHierarchy : ClassSubHierarchy[c] \subseteq Classes
  /\ UNION {DOMAIN t : t \in {VTableSubHierarchyPerFunction,
                             ClassSubHierarchyPerFunction, ClassToIsland}}
       \subseteq (UNION {ToSet(program.entry[v]) : v \in VTables}) \X Classes
  /\ DOMAIN islands \subseteq cha.roots
  /\ \A c \in DOMAIN classToIslandRoot : c \in islands[classToIslandRoot[c]]
  /\ VirtualCallSites \subseteq Sites
  /\ DOMAIN Data \subseteq ({"virtual"} \X Calls) \cup ({"indirect"} \X Sites)

\* What is filed under a vtable are the defined vtables that derive from it, by
\* whatever path, and under a class the classes of those of all its sub-vtables:
\* the topological order brings every class after all that derive from it, also the
\* ones it reaches through a secondary vtable only.
SubHierarchiesExact ==
  pc = "store" =>
    /\ VTableSubHierarchy = [v \in VTables |-> DefinedBelow(v)]
    /\ ClassSubHierarchy =
         [c \in Classes |->
            {w[1] : w \in UNION {DefinedBelow(v) : v \in OwnVTables(metadata, c)}}]

\* The assert in buildSubHierarchies (the sub-hierarchy of every child is there)
\* never fails: the order is found from the primary vtables alone, and still all
\* children of all sub-vtables come before their parents.
ChildrenComeFirst == pc # "aborted"

\* The functions a virtual call may reach in a program that breaks no rule: the
\* entries at its index in the tables of the objects that its class may point to.
LegalTargets(i) ==
  LET call == program.calls[i]
      met  == {w \in DefinedBelow(<<call.class, 0>>) :
                 Len(program.entry[w]) > call.index}
  IN  {program.entry[w][call.index + 1] : w \in met} \cap DOMAIN program.functions

\* Offsets are counted from the beginning of a table, so tables can be compared
\* where those below a class have as many entries in front of the address point.
AlignedBelow(c) ==
  \A v \in OwnVTables(metadata, c) : \A w \in VTableSubHierarchy[v] :
    Prefix(w) = Prefix(v)

NoClassTwice(r) ==
  \A v, w \in ToSet(Preorder(metadata, <<r, 0>>)) : v[1] = w[1] => v = w

\* Islands that meet are merged if there are two of them, and no class is met a
\* second time on the way from one root.
TidyIslands == Cardinality(cha.roots) <= 2 /\ \A r \in cha.roots : NoClassTwice(r)

Analysed == {i \in Calls : <<"virtual", i>> \in DOMAIN Data}

\* No policy that compares types forbids a call that the program may make: every
\* function of a defined class below the class of the call is in the set of each,
\* through numbers of parameters, encodings and names.
TypesAllowLegalTargets ==
  pc = "store" => \A i \in Analysed :
    LET info  == Data[<<"virtual", i>>]
        legal == LegalTargets(i) \ program.blacklisted
    IN  /\ legal \subseteq info.types.all.IFCC \cap info.types.all.Short
        /\ legal \subseteq info.types.all.TypeArmor \cap info.types.virtual.TypeArmor
        /\ legal \subseteq info.hierarchy.vTrust

\* Nor does one that compares places in the hierarchy, through offsets and walks
\* over it.
LegalTargetsAllowed ==
  pc = "store" => \A i \in Analysed :
    LET info  == Data[<<"virtual", i>>]
        legal == LegalTargets(i) \ program.blacklisted
    IN  AlignedBelow(program.calls[i].class) =>
          /\ legal \subseteq info.hierarchy.ShrinkWrap \cap info.hierarchy.VTV
          /\ TidyIslands => legal \subseteq info.hierarchy.Marx

\* Every policy of the hierarchy allows what the finer ones do: the sets of
\* sub-vtables, classes, islands and all vtables grow.
PoliciesNested ==
  \A i \in Analysed :
    LET h == Data[<<"virtual", i>>].hierarchy IN
    AlignedBelow(program.calls[i].class) =>
      /\ h.ShrinkWrap \subseteq h.VTV
      /\ TidyIslands => h.VTV \subseteq h.Marx
      /\ h.Marx \subseteq AllVFunctions

\* Two types the encoding must tell apart: with pointers looked through once.
Flat(t) == IF t[1] = "ptr" THEN SubSeq(t, 1, 2) ELSE <<t[1]>>
SameShape(t, u) ==
  \/ Len(t.params) >= 8 /\ Len(u.params) >= 8
  \/ /\ Len(t.params) = Len(u.params) /\ Len(t.params) < 8
     /\ Flat(t.ret) = Flat(u.ret)
     /\ \A i \in DOMAIN t.params : Flat(t.params[i]) = Flat(u.params[i])

\* Functions share an encoding exactly if they have the same types in the same
\* places (IFCC), also at no parameters and at eight or more, which share one
\* number that no shorter type may have.
SignaturesSeparate ==
  LET found == UNION {callees.Normal[k] : k \in DOMAIN callees.Normal} IN
  \A f, g \in found :
    (\E k \in DOMAIN callees.Normal : {f, g} \subseteq callees.Normal[k])
      <=> SameShape(program.functions[f], program.functions[g])

\* Either file of a pair has a result only if both have it.
Paired(dir) ==
  \A n \in {x[2] : x \in DOMAIN dir} : \A x, y \in {"Virtual", "Indirect"} \X {n} :
    x \in DOMAIN dir /\ dir[x] # "empty" => y \in DOMAIN dir /\ dir[y] = dir[x]

\* The file that is lost because the loop of findOutputFileName never asks for it:
\* an Indirect n, with n the first number that no Virtual file has.
Exposed(dir, x) ==
  /\ x[1] = "Indirect" /\ x[2] > 0
  /\ <<"Virtual", x[2]>> \notin DOMAIN dir
  /\ \A m \in 1 .. x[2] - 1 : <<"Virtual", m>> \in DOMAIN dir

\* Whatever is in the directory, no result of an earlier link is overwritten but
\* perhaps the exposed one; and where the results were in pairs, all of them are
\* kept and still in pairs, also if one of the new files cannot be opened.
OutputsKept ==
  /\ \A x \in DOMAIN program.dir :
       program.dir[x] # "empty" /\ ~ Exposed(program.dir, x) =>
         x \in DOMAIN outputs /\ outputs[x] = program.dir[x]
  /\ Paired(program.dir) =>
       /\ Paired(outputs)
       /\ \A x \in DOMAIN program.dir :
            program.dir[x] # "empty" => x \in DOMAIN outputs /\ outputs[x] = program.dir[x]

\* The loops end, or the assert ends the pass.
Terminates == <>(pc \in {"done", "aborted"})

==============================================================================
