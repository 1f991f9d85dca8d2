------------------------------ MODULE Pipeline -------------------------------
(****************************************************************************)
(* A build, from the translation units to the end of link-time             *)
(* optimization: Link.tla, then the passes that populateLTOPassManager      *)
(* schedules for the options of the gold plugin, each as what it reads and  *)
(* leaves behind.                                                           *)
(* The passes are modelled in detail elsewhere (CHA, Policies, Layout,      *)
(* UpdateIndices); here it is their order, the results they share through   *)
(* the pass manager and the state of the module that matter.  Also here:    *)
(* SDFix and SDCleanup.                                                     *)
(****************************************************************************)
EXTENDS Link

VARIABLES
  todo,                          \* passes still to run
  cha,                           \* result of SDBuildCHA
  layout,                        \* result of SDLayoutBuilder
  tables,                        \* vtables of the module: "old", "both", "new"
  moved,                         \* vtables erased because the new ones hold them
  replaced,                      \* destructors replaced by another variant
  code                           \* kind of intrinsic -> what its users get

passes == <<todo, cha, layout, tables, moved, replaced, code>>
vars   == <<program, pc, compiled, link, removed, passes>>

------------------------------------------------------------------------------
(* The schedule                                                              *)

Options == {"interleave", "order", "returnChecks"}

\* Offsets read from a vtable by thunks: the one `this' is adjusted by, in the
\* thunks the layout builder clones (_ZTv, _ZTcv); the one of a covariant
\* result, in thunks that it does not recognize (_ZTch) and in clones.
Offsets == {"thisOffset", "resultOffset", "clonedResultOffset"}
Kinds   == {"index", "check"} \cup Offsets

\* Only the layout builder takes an argument.
Pass(name) == [name |-> name, interleave |-> FALSE]

Only(condition, ps) == IF condition THEN ps ELSE <<>>

lays(options) == options \cap {"interleave", "order"} # {}

\* addRequired and addPreserved of the passes; SDBuildCHA preserves all.
Required(name) ==
  CASE name \in {"SDAnalysis", "SDLayoutBuilder"} -> <<"SDBuildCHA">>
    [] name = "SDUpdateIndices" -> <<"SDLayoutBuilder", "SDBuildCHA">>
    [] OTHER -> <<>>
Preserved(name, available) ==
  CASE name = "SDBuildCHA" -> available
    [] name \in {"SDAnalysis", "SDLayoutBuilder", "SDUpdateIndices"} ->
         available \cap {"SDBuildCHA"}
    [] OTHER -> {}

\* PMTopLevelManager::schedulePass: a required pass that no earlier pass left
\* available is created with its default constructor and scheduled first.
Add(s, p) ==
  [passes    |-> Append(s.passes, p),
   available |-> Preserved(p.name, s.available) \cup {p.name}]
Provide(s, name) == IF name \in s.available THEN s ELSE Add(s, Pass(name))
ProvideAll(s, name) ==
  IF name \in s.available THEN s
  ELSE Provide(FoldLeft(Provide, s, Required(name)), name)
schedulePass(s, p) == Add(FoldLeft(ProvideAll, s, Required(p.name)), p)

schedulePasses(ps) ==
  LET scheduled[i \in 0 .. Len(ps)] ==
        IF i = 0 THEN [passes |-> <<>>, available |-> {}]
        ELSE schedulePass(scheduled[i - 1], ps[i])
  IN  scheduled[Len(ps)].passes

\* A plausible slip: the policies are analysed after the layout.
MutantPopulateLTOPassManager(options) ==
  Only(options # {}, <<Pass("GlobalDCE"), Pass("SDFix"), Pass("SDBuildCHA")>>)
  \o Only(lays(options),
       <<[Pass("SDLayoutBuilder") EXCEPT !.interleave = "interleave" \in options],
         Pass("SDUpdateIndices"), Pass("SDSubstModule")>>)
  \o Only("returnChecks" \in options, <<Pass("SDAnalysis")>>)
  \o <<Pass("SDCleanup")>>

\* The passes that are this project's, in order; SDMoveBasicBlocks, which
\* comes last and only reorders blocks, is left out.
populateLTOPassManager(options) ==
  Only(options # {}, <<Pass("GlobalDCE"), Pass("SDFix"), Pass("SDBuildCHA")>>)
  \o Only("returnChecks" \in options, <<Pass("SDAnalysis")>>)
  \o Only(lays(options),
       <<[Pass("SDLayoutBuilder") EXCEPT !.interleave = "interleave" \in options],
         Pass("SDUpdateIndices"), Pass("SDSubstModule")>>)
  \o <<Pass("SDCleanup")>>

\* EmitVTBLChecks and EmitIVTBL of the front end.
emits(kind) ==
  CASE kind = "check"   -> program.checks
    [] kind = "index"   -> program.emit
    [] kind \in Offsets -> program.emit /\ kind \in program.offsets

\* A destructor function: "takes VTT" is defined, with the parameter that the
\* base variant has if there are virtual bases; "alias of other" is an alias of
\* anything but a function.  LLVM's verifier rejects aliases of declarations.
Forms == {"defined", "takes VTT", "declared",
          "alias", "alias of declaration", "alias of other"}

\* Units for a link with new layouts are compiled for it (-femit-ivtbl).
\* `misfits': classes with a vtable that lacks entries of a parent; `called':
\* classes through which a virtual method is called.
\* Destructors are <<class, variant>>; one nobody mentions has no function.
IsBuild(p) ==
  /\ p.options \subseteq Options
  /\ {p.checks, p.emit} \subseteq BOOLEAN
  /\ lays(p.options) => p.emit
  /\ p.offsets \subseteq Offsets
  /\ p.misfits \subseteq Class
  /\ p.called \subseteq Class
  /\ p.unused \subseteq Class
  /\ p.slots \in [DOMAIN p.slots -> SUBSET (Class \X (0 .. 2))]
  /\ p.destructors \in [DOMAIN p.destructors -> Forms]
  /\ \A s \in DOMAIN p.slots : p.slots[s] \subseteq DOMAIN p.destructors

ASSUME BuildsAssumption == \A p \in Programs : IsBuild(p)

Init ==
  /\ LinkInit
  /\ todo = schedulePasses(populateLTOPassManager(program.options))
  /\ cha = [status |-> "none"]
  /\ layout = [status |-> "none"]
  /\ tables = "old"
  /\ moved = {}
  /\ replaced = {}
  /\ code = [k \in Kinds |-> IF emits(k) THEN "get" ELSE "none"]

------------------------------------------------------------------------------
(* Passes                                                                    *)

Runs(name) ==
  /\ pc = "passes"
  /\ todo # <<>>
  /\ Head(todo).name = name

Ended == todo' = Tail(todo)
Aborted == pc' = "aborted" /\ UNCHANGED todo

\* LLVM's: vtables that nothing refers to any more.
GlobalDCE ==
  /\ Runs("GlobalDCE")
  /\ \E S \in SUBSET (Definitions \cap program.unused) : removed' = S
  /\ Ended
  /\ UNCHANGED <<program, pc, compiled, link, cha, layout, tables, moved, replaced, code>>

Slots(s) == IF s \in DOMAIN program.slots THEN program.slots[s] ELSE {}
Form(d)  == IF d \in DOMAIN program.destructors THEN program.destructors[d] ELSE "none"

\* DestructorInfo: an alias is defined if its function is.
isDefined(d) == Form(d) \in {"defined", "takes VTT", "alias"}

\* The destructors in the vtables that are left, in their old place or in the
\* new tables, and the complete ones of them without a body.
Destructors == UNION {Slots(s) : s \in {s \in Alive \cup moved : isVtableName(s)}}
Missing     == {d \in Destructors : d[2] = 1 /\ ~isDefined(d)}
Base(d)     == <<d[1], 2>>

\* DestructorInfo asserts that an alias is one of a function; getFunction that
\* what is to be replaced is no alias; and what is found under the name of the
\* base variant has to be a function, with a body and of the same type.
Inspectable     == \A d \in Destructors : Form(d) # "alias of other"
Replaceable(d)  == Form(d) = "declared" /\ Form(Base(d)) = "defined"

\* A plausible slip: only one destructor is looked at.
MutantSDFix ==
  /\ Runs("SDFix")
  /\ IF Inspectable /\ \A d \in Missing : Replaceable(d)
     THEN /\ replaced' = IF Missing = {} THEN {} ELSE {CHOOSE d \in Missing : TRUE}
          /\ Ended
          /\ UNCHANGED pc
     ELSE Aborted /\ UNCHANGED replaced
  /\ UNCHANGED <<program, compiled, link, removed, cha, layout, tables, moved, code>>

\* A plausible slip: destructors that have a body are replaced too.
MutantSDFixAll ==
  LET all == {d \in Destructors : d[2] = 1} IN
  /\ Runs("SDFix")
  /\ IF Inspectable /\ \A d \in all : Form(Base(d)) = "defined"
     THEN replaced' = all /\ Ended /\ UNCHANGED pc
     ELSE Aborted /\ UNCHANGED replaced
  /\ UNCHANGED <<program, compiled, link, removed, cha, layout, tables, moved, code>>

\* fixDestructors2: all uses of such a destructor become uses of the base
\* object destructor.
SDFix ==
  /\ Runs("SDFix")
  /\ IF Inspectable /\ \A d \in Missing : Replaceable(d)
     THEN replaced' = Missing /\ Ended /\ UNCHANGED pc
     ELSE Aborted /\ UNCHANGED replaced
  /\ UNCHANGED <<program, compiled, link, removed, cha, layout, tables, moved, code>>

Analysis == INSTANCE ClassForest WITH metadata <- cha, forest <- cha

\* CHA.tla in detail; ClassForest.tla says when it asserts.
SDBuildCHA ==
  /\ Runs("SDBuildCHA")
  /\ IF Analysis!IsForest(extractMetadata)
     THEN /\ cha' = [status |-> "built", metadata |-> extractMetadata]
          /\ Ended
          /\ UNCHANGED pc
     ELSE Aborted /\ UNCHANGED cha
  /\ UNCHANGED <<program, compiled, link, removed, layout, tables, moved, replaced, code>>

\* An internal name that two units use, and entries for it that all refer to
\* a symbol.  Otherwise classes may be taken for each other, and the hierarchy of
\* the analysis need not be one that C++ can have: any later assert may fail.
Shared(n) == Cardinality({t \in Units : n \in DOMAIN MD(t) /\ isInternal(t, n)}) > 1
NamesKnown ==
  \A t \in Units : \A c \in DOMAIN info[t] : \A n \in NamesIn(t, c) :
    Shared(n) => n \in info[t][c] /\ symbol[t][n] \in Alive

\* Policies.tla in detail: it writes reports and no code.
SDAnalysis ==
  /\ Runs("SDAnalysis")
  /\ \/ Ended /\ UNCHANGED pc
     \/ ~NamesKnown /\ Aborted
  /\ UNCHANGED <<program, compiled, link, removed, cha, layout, tables, moved, replaced, code>>

\* The users of what is `from' get something else instead.
Becoming(what, from, to, kinds) ==
  [k \in Kinds |-> IF k \in kinds /\ what[k] = from THEN to ELSE what[k]]

\* The analysis knows a vtable that lacks entries of a parent.
Misfit == \E t \in Units : DOMAIN info[t] \cap program.misfits # {}

\* The vtables the analysis has found, cha->oldVTables.
oldVTables == {n \in DOMAIN cha.metadata : cha.metadata[n].defined}

\* Layout.tla in detail: objects point to the new tables, the old ones are still
\* there.  All offsets in a clone are translated for the vtable that holds the
\* thunk, that of a result, which belongs to a vtable of the result, as well.
\* The asserts may fail if vtables do not extend their parents
\* (OnlyMisfitsAbort), or for an offset of another vtable.
SDLayoutBuilder ==
  /\ Runs("SDLayoutBuilder")
  /\ \/ /\ layout' = [status |-> "built", interleave |-> Head(todo).interleave,
                       laid |-> oldVTables]
        /\ tables' = "both"
        /\ code' = Becoming(Becoming(code, "get", "new", {"thisOffset"}),
                            "get", "other", {"clonedResultOffset"})
        /\ Ended
        /\ UNCHANGED pc
     \/ /\ ~NamesKnown \/ Misfit \/ emits("clonedResultOffset")
        /\ Aborted
        /\ UNCHANGED <<layout, tables, code>>
  /\ UNCHANGED <<program, compiled, link, removed, cha, moved, replaced>>

\* translateVtblInd goes through another vtable if the class of the call has none.
Untranslatable ==
  /\ Misfit
  /\ \E c \in program.called \cap DOMAIN cha.metadata : ~ cha.metadata[c].defined

\* removeOldLayouts asserts that a vtable is still there and not used.
Removable == oldVTables \subseteq Alive \cap layout.laid

\* UpdateIndices.tla in detail, with offsets that were not translated becoming
\* their operand; then removeOldLayouts erases the vtables the analysis found
\* defined, and clearAnalysisResults clears both analyses.
SDUpdateIndices ==
  /\ Runs("SDUpdateIndices")
  /\ \/ /\ Removable
        /\ code' = Becoming(Becoming(code, "get", "subst", {"index", "check"}),
                            "get", "old", Offsets)
        /\ tables' = "new"
        /\ moved' = oldVTables
        /\ removed' = removed \cup moved'
        /\ cha' = [status |-> "cleared"]
        /\ layout' = [status |-> "cleared"]
        /\ Ended
        /\ UNCHANGED pc
     \/ /\ ~NamesKnown \/ Untranslatable \/ ~Removable
        /\ Aborted
        /\ UNCHANGED <<removed, cha, layout, tables, moved, code>>
  /\ UNCHANGED <<program, compiled, link, replaced>>

\* A plausible slip: the checks are not lowered.
MutantSDSubstModule ==
  /\ Runs("SDSubstModule")
  /\ code' = Becoming(code, "subst", "new", {"index"})
  /\ Ended
  /\ UNCHANGED <<program, pc, compiled, link, removed, cha, layout, tables, moved, replaced>>

\* RangeCheck.tla in detail.
SDSubstModule ==
  /\ Runs("SDSubstModule")
  /\ code' = Becoming(code, "subst", "new", {"index", "check"})
  /\ Ended
  /\ UNCHANGED <<program, pc, compiled, link, removed, cha, layout, tables, moved, replaced>>

\* A plausible slip: the pass waits for intrinsics it does not replace.
MutantSDCleanup ==
  /\ Runs("SDCleanup")
  /\ code' = Becoming(code, "get", "old", Kinds)
  /\ IF code["index"] = "none" THEN Ended ELSE UNCHANGED todo
  /\ UNCHANGED <<program, pc, compiled, link, removed, cha, layout, tables, moved, replaced>>

\* The users of what no pass has rewritten get the operand: the old index or
\* offset, the unchecked vptr.  (The calls of sd_get_vcall_index stay behind
\* without users, here and in SDUpdateIndices; the others are erased.)
SDCleanup ==
  /\ Runs("SDCleanup")
  /\ code' = Becoming(code, "get", "old", Kinds)
  /\ Ended
  /\ UNCHANGED <<program, pc, compiled, link, removed, cha, layout, tables, moved, replaced>>

Done ==
  /\ pc = "passes" /\ todo = <<>>
  /\ pc' = "done"
  /\ UNCHANGED <<program, compiled, link, removed, passes>>

Finished ==
  /\ pc \in {"done", "aborted"}
  /\ UNCHANGED vars

Build ==
  \/ /\ \/ \E c \in Class : ReferenceVTable(c)
        \/ \E c \in Class : DefineVTable(c)
        \/ EndUnit
        \/ \E t \in Units : LinkUnit(t)
     /\ UNCHANGED passes
  \/ GlobalDCE \/ SDFix \/ SDBuildCHA \/ SDAnalysis
  \/ SDLayoutBuilder \/ SDUpdateIndices \/ SDSubstModule \/ SDCleanup
  \/ Done

Next == Build \/ Finished

\* The compiler and the linker run to their end.
Spec == Init /\ [][Next]_vars /\ WF_vars(Build)

------------------------------------------------------------------------------
(* Properties                                                                *)

PassNames == {"GlobalDCE", "SDFix", "SDBuildCHA", "SDAnalysis",
              "SDLayoutBuilder", "SDUpdateIndices", "SDSubstModule", "SDCleanup"}

\* The state has the types of the code; a unit defines only what it declares,
\* and only symbols of linked units are removed.
TypeOK ==
  /\ pc \in {"compile", "link", "passes", "done", "aborted"}
  /\ unit \in Units
  /\ \A t \in Units :
       /\ emitted[t] \subseteq declared[t]
       /\ declared[t] \subseteq DOMAIN MD(t)
       /\ DOMAIN info[t] \subseteq DOMAIN MD(t)
       /\ \A c \in DOMAIN info[t] : info[t][c] \subseteq NamesIn(t, c) \cap declared[t]
       /\ DOMAIN symbol[t] = IF t \in ToSet(linked) THEN declared[t] ELSE {}
       /\ Range(symbol[t]) \subseteq Class
  /\ IsInjective(linked)
  /\ removed \subseteq Definitions
  /\ \A i \in DOMAIN todo : todo[i].name \in PassNames
  /\ cha.status \in {"none", "built", "cleared"}
  /\ layout.status \in {"none", "built", "cleared"}
  /\ tables \in {"old", "both", "new"}
  /\ moved \subseteq removed
  /\ replaced \subseteq DOMAIN program.destructors
  /\ code \in [Kinds -> {"none", "get", "subst", "new", "other", "old"}]

isNext(names) == pc = "passes" /\ todo # <<>> /\ Head(todo).name \in names

\* What the analysis reads is metadata as it is assumed to be there, whatever
\* order the units were linked in and whichever copies and names win: entries
\* of different units never form a cycle.
LinkedIsMetadata == isNext({"SDBuildCHA"}) => IsMetadata(extractMetadata)

SymbolOf(t, n) == IF n \in declared[t] THEN symbol[t][n] ELSE n

DescribedAs(md, t, c) ==
  LET s == symbol[t][c] IN
  /\ s \in DOMAIN md
  /\ md[s].defined
  /\ md[s].subVTables =
       [i \in DOMAIN MD(t)[c].subVTables |->
          [MD(t)[c].subVTables[i] EXCEPT !.parents =
             {<<SymbolOf(t, p[1]), p[2]>> : p \in @}]]

\* Every vtable that is left is described with the parents its own unit
\* declares, by their symbols, in whatever order the vtables were mentioned
\* and emitted and the units linked; of names that two units use internally this
\* needs the references.
DeclaredHierarchyLinked ==
  cha.status = "built" /\ NamesKnown =>
    \A t \in Units : \A c \in emitted[t] :
      isVtableName(c) /\ symbol[t][c] \in Alive => DescribedAs(cha.metadata, t, c)

\* What stops a build is to be found in its inputs: a base of std, which has no
\* metadata; an alias among the destructors of its vtables that is not one of a
\* function, or a complete one that no base variant can stand in for; a unit
\* whose hierarchy is no forest; confused names; or, if vtables get a new
\* layout, one that lacks entries of a parent or a clone with the offset of a
\* covariant result.  Linked units that declare forests make up a forest, and
\* the vtables that are erased are always there, laid out and unused.
AbortsExplained ==
  pc = "aborted" =>
    \/ \E t \in Units : \E c \in DOMAIN info[t] : ~ NamesIn(t, c) \cap program.std = {}
    \/ ~ Inspectable
    \/ \E d \in Missing : ~ Replaceable(d)
    \/ \E t \in Units : ~ Analysis!IsForest(MD(t))
    \/ ~ NamesKnown
    \/ lays(program.options) /\ (Misfit \/ emits("clonedResultOffset"))

\* A pass that uses the hierarchy finds the one a fresh analysis would read
\* from the module at that moment, of vtables that have not been laid out
\* before, and the indices are rewritten after the layout that the options
\* ask for, which covers all of these vtables.
ResultsCurrent ==
  /\ isNext({"SDAnalysis", "SDLayoutBuilder", "SDUpdateIndices"}) =>
       cha = [status |-> "built", metadata |-> extractMetadata]
  /\ isNext({"SDAnalysis", "SDLayoutBuilder"}) => tables = "old"
  /\ isNext({"SDUpdateIndices"}) =>
       layout = [status |-> "built", interleave |-> "interleave" \in program.options,
                 laid |-> oldVTables]

\* In the end objects point to new tables exactly if the options ask for a
\* layout, and what counts in the tables fits those that objects point to: new
\* indices, checks and offsets of `this' with new tables, the old ones with old
\* tables.  The offsets of covariant results are known to fit with old tables
\* only: with new ones they are the old ones, or those of another vtable, although
\* createThunkFunctions is there to replace them, "since the layout of the v
\* tables is changed".
CodeMatchesTables ==
  pc = "done" =>
    /\ tables = IF lays(program.options) THEN "new" ELSE "old"
    /\ \A k \in {"index", "check", "thisOffset"} :
         code[k] = IF emits(k) THEN tables ELSE "none"
    /\ tables = "old" =>
         \A k \in Offsets : code[k] = IF emits(k) THEN "old" ELSE "none"

\* No vtable that was repaired calls a complete destructor without a body: each
\* was replaced by a function with a body and the same parameters.
DestructorsCallable ==
  pc = "done" /\ program.options # {} =>
    \A d \in Missing : d \in replaced /\ Form(Base(d)) = "defined"

\* The build ends.
Terminates == <>(pc \in {"done", "aborted"})

==============================================================================
