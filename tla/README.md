# Verification of the LLVM-CFI passes

LLVM-CFI is a fork of LLVM and clang with link-time passes that protect C++
virtual calls: the vtables of a class hierarchy are merged into one table whose
layout makes "is this vptr one of the classes allowed here?" a range check, and
further passes measure how many targets other policies would leave to a call.
This directory models that code (`src/source_code/` below is left out of paths)
in TLA+, checks the models with TLC and proves theorems about them with TLAPS.

## The system

| Component | Code | State | Operations |
|---|---|---|---|
| Metadata emission | `include/llvm/Transforms/IPO/SafeDispatchVtblMD.h`, `SafeDispatchGVMd.h`, clang `CGVTables.cpp`, `ItaniumCXXABI.cpp` | the named nodes `sd.class_info.*` of a module | `sd_insertVtableMD`, `sd_generateSubvtableInfo` |
| Class hierarchy analysis | `SafeDispatchCHA.{h,cpp}` | `cloudMap`, `parentMap`, `roots`, `undefinedVTables`, `ancestorMap`, `subObjNameMap`, `cloudSizeMap` | `buildClouds`, `preorder`, `calculateChildrenCounts`, `verifyClouds`, `extractMetadata`, `topoSort`, queries |
| Layout builder | `SafeDispatchLayoutBuilder.{h,cpp}` | `interleavingMap`, `prePadMap`, `alignmentMap`, `newLayoutInds`, `rangeMap`, `memRangeMap`, the module's vtables | `buildNewLayouts`, `createThunkFunctions`, `verifyNewLayouts`, `translateVtblInd`, `removeOldLayouts` |
| Update of indices and checks | `SafeDispatchUpdateIndices.cpp` | the IR of the module | four loops over the intrinsics, then `SDSubstModule` lowers the checks |
| Policy analysis | `SafeDispatchAnalysis.cpp` | islands, sub-hierarchies, encodings, call sites | `runOnModule` and the metrics per call site |
| Repair and placement | `SafeDispatchFix.cpp`, `SafeDispatchMoveBasicBlocks.cpp`, `SafeDispatchCleanup.cpp` | the IR | one pass each |
| Pipeline | `PassManagerBuilder.cpp`, `tools/gold/gold-plugin.cpp` | options | which passes run, in which order |
| Run time | `libdlcfi/dlcfi.cpp`, `libdyncast/dynamic_cast.cpp` | none | `vptr_safe`, a cast diagnosis |

The passes call each other's results, not each other: the analysis is asked for
children, preorders, regions and ancestors by every later pass; the layout
builder is asked for indices and ranges by the update. The pass manager keeps
the results and drops them when a pass does not declare them preserved. All
passes run in one thread. The metadata, on the other hand, is written by several
compilations that know nothing of each other, and is joined by the linker.
What makes the code hard is not concurrency but data it does not control: the
hierarchies (multiple and virtual inheritance, classes without a vtable, parents
that are described later or never), the order in which the linker leaves the
named nodes, the sizes of the vtables in front of and behind their address
points, and asserts that are the only error handling and end the link.

What makes each component correct:

- *Emission and linking*: whatever the units mention, emit and name alike, what
  the analysis reads is the hierarchy they declare.
- *Analysis*: whatever the order of the nodes, its result is the hierarchy the
  metadata describes; it refuses exactly what is not a forest of clouds; its walk
  ends; the ancestor it stores is the one the parents of a vtable agree on.
- *Layout*: no entry of an old vtable is lost or overwritten; vptrs are where the
  check and the calls look for them; a call through a base finds its entry; the
  ranges of a class admit its descendants and nothing else; a thunk reads its
  offset where the vtable it was called through has it.
- *Update*: the check lowered to a rotation accepts exactly the vptrs of the range;
  a check decided at link time is decided as it would be at run time.
- *Policy analysis*: no policy forbids a call that a program may make, a stricter
  one never leaves more targets than a looser one, and the results of one link
  do not overwrite those of another.
- *Pipeline*: passes use results that describe the module as it is, a build that is
  stopped has a reason for it in its inputs, and in the end code and tables agree,
  whatever the options leave out.

## Modules

| Module | Models |
|---|---|
| `Hierarchy` | the metadata all passes read: classes, sub-vtables, parents; `IsMetadata` is what the front end guarantees of it |
| `ClassForest` | what the analysis promises: one step from metadata to a forest, or to a refusal |
| `CHA` | `SDBuildCHA`, an action per node read, per call and return of the preorder recursion, per assert |
| `CloudOrder` | `SDBuildCHA::preorder` as a function |
| `Layout` | `SDLayoutBuilder`, an action per vtable placed or padded, per cloud emitted, per range computation and verification |
| `RangeCheck` | the arithmetic of an emitted range check, on machine words |
| `UpdateIndices` | `SDUpdateIndices` and `SDSubstModule` behind the steps of `Layout`, which it extends: an action per use of an intrinsic |
| `Policies` | `SDAnalysis`: an action per class, vtable or root of its loops, per function, per call site, and for the files |
| `Link` | the metadata on its way: an action per vtable mentioned or defined in a unit and per unit linked, and what the analysis reads of the result |
| `Pipeline` | `Link`, then the passes scheduled for the plugin's options, each as what it reads, what it leaves and what may stop it; `SDFix` and `SDCleanup` have no module of their own |
| `MCCHA`, `MCLayout`, `MCUpdateIndices`, `MCPolicies`, `MCPipeline` | inputs for TLC; `SmallHierarchies` holds what three of them share |
| `Hierarchy_proofs` | lemmas about metadata: what derives from what, finiteness, heights, sums over a hierarchy |
| `CHA_proofs`, `CHAForest_proofs` | theorems about `CHA` |
| `Layout_proofs` | theorems about `Layout` |
| `RangeCheck_proofs` | theorems about `RangeCheck` |
| `UpdateIndices_proofs` | theorems about `UpdateIndices`, from those of the two modules above |
| `Policies_proofs` | theorems about `Policies` |
| `Pipeline_proofs` | theorems about `Link` and `Pipeline` |

`Hierarchy` declares the order of class names (`NameRank`, the order of
`std::string`) because every `std::set` and `std::map` iteration depends on it.
A vtable is `<<class, order>>` as in `vtbl_t`; the parent `("", 0)` of the code
is the flag `root`.

### CHA

Variables carry the names of the members of `SDBuildCHA` and of `buildClouds`'
local `build_undefinedVtables`. The named nodes are read in any order
(`pending`, `AddClassInfo`); since a class has one node per linked module with
its first copy kept, the model has one entry per class. `frames` is the stack of
`preorderHelper`: one set of children left to visit per activation. A failed
assert sets `pc` to `"aborted"`: the secondary vtable without a parent, an
undefined parent after all nodes are read, and parents in clouds of different
roots. `Next` stutters in `"done"` and `"aborted"` (`Finished`), so the absence
of deadlock says that every other state has a next step.

### Layout

The three loops of `buildNewLayouts` are the phases `"place"`, `"emit"` and
`"range"`, followed by `"verify"` for the assert in `runOnModule`. `cha` holds
the answers of the analysis' accessors. `newIndex` is `newLayoutInds` with the
old index as key, so that the operator `newLayoutInds(v, i)` can look entries up
the way the code does, from the first entry that was placed. An ordered cloud is
built vtable by vtable (`OrderVTable`); an interleaved one is padded parent by
parent (`PadChildren`) and then filled in one step (`InterleaveCloud`), since
`fillVtablePart` has no choice: entries are sorted by distance from the address
point, then by preorder (`Precedes`). Indices are words; `uint64_t` values below
zero, which only a pad in front of a primary vtable produces, are negative
integers that stand for the wrapped value, and the emission treats them as the
code does (they look like old entries, fetching them fails an assert).

A thunk of a program (`program.thunks`) is known by the vtables that hold it and
by the entry it reads, relative to their address points. `ThunkIndices` is
`createThunkFunctions` for one root: the classes in preorder, all vtables of
each, one clone per thunk and root name, the translation of the vtable met
first. `EmitCloud` makes the clones of a cloud, then its table, as the second
loop of `buildNewLayouts` does.

`Layout` takes `Preorder` as a constant operator with the assumption that it
lists what derives from a vtable once, root first and depth first
(`FollowsBranches`: between a vtable and a later child of it there is nothing but
what derives from the vtable); `SmallHierarchies` gives it the function of
`CloudOrder`. `ForestAssumption` is what `CHA` establishes before
the layout runs (`ClassForest!IsForest`, theorem `AnalysisImplementsForest`).

### RangeCheck and UpdateIndices

`UpdateIndices` extends `Layout`, takes its steps (`LayoutStep`) and then runs the
loops over the uses of the intrinsics: `"indices"` and `"checks"` are
`SDUpdateIndices`, `"subst indices"` and `"subst checks"` are `SDSubstModule`. What
`Layout` has under the same name is called `Link...` here (`LinkSpec`, `LinkTypeOK`,
`LinkTerminates`). `Layout` counts in entries, the checks in bytes (`WORD_WIDTH`), and
`AddressSpaceAssumption` says that the alignments divide the address space and that
there is room in it for as many aligned vptrs as a program has vtables.
The calls of a program are part of its input: the class that declares the method
and the static class of the object, as the front end puts them into the two
intrinsics, the index, and what the optimizer knows about the vptr when
`SDSubstModule` runs. `index[c]` and `check[c]` are the state of the intrinsics
of call `c`; within a loop the uses come in any order. `CheckedVTable` is the
choice made from `getSubVTableIndex` in `handleSDGetCheckedVtbl`: the sub-vtable
of the precise class if there is exactly one, else the classes swapped, else the
primary vtable of the class. A class without metadata gets no range and its call
a trap.

Pointers are bytes from the start of the table they point into, next to the root
of that table; the check only ever looks at the difference to a constant in its
own table. So the models say nothing of pointers from outside every table,
except through the theorems about `RangeCheck`, which hold for every word. The
layouts for which `LegalCallsDispatch` and `PreciseNarrows` hold are those that
are free of the two divergences found in `Layout` (`EvenlySpaced`: interleaved
without pads, or ordered without an unused slot).

### Policies

The phases are the functions `runOnModule` calls, in their order, and a phase
has an action per element of the loop it models. The maps carry the names of the
members; `Data` has, per call site, the sets of which the code stores the sizes.
`topoSort` is depth first: `frames` is the stack of `topoSortHelper`, a class and
the children left to it per activation, with an action per root (`VisitRoot`),
per child (`VisitChild`) and per class that is left and put in front of
`ordered` (`LeaveClass`); a class that comes up while it is visited aborts the
pass, as does a child that `buildSubHierarchies` does not find. Functions are sequences of strings (class, name), since `vTrust` compares
demangled names without the class; types are sequences such as
`<<"ptr", "struct">>`, and `encodeFunction` computes the code's numbers of base
32. A call site that the search from the intrinsic does not reach has `site = 0`.
The directory is a map from `<<name, number>>` to content, and `StoreData`
chooses which of the two files can be opened.

Of the C++ program behind it, `IsProgram` says that a class that extends any
vtable of a base extends its primary one (`ExtendsPrimaries`), that only a primary
vtable can be one without a parent (`RootsArePrimary`), and that where a table below
has a function at the place of another, the two have one name and equal types
(`OverridesKeepTypes`; classes are one type, so covariant returns are too). Of the
function of a call it says that the class of the call declares it (both come from
one method declaration), and that every class below has one overrider of it, in all
places where the class of the call has the function (`OneOverrider`): a function has
several of them if it overrides one of another base, and the analysis keeps only the
last. Metadata and entries name the method of a slot, also where the slot holds a
thunk. `PreorderAssumption` is that a preorder lists what derives from its root, once.

The policies that count places need tables that can be compared:
`AlignedBelow` says that what derives from a class has as many entries in front
of its address points, because offsets are counted from the beginning of a
sub-vtable. Islands are merged with the first old one only, hence `TidyIslands`
(at most two roots, and no class met twice from one). The instances have both
sides.

### Link and Pipeline

A unit is a hierarchy with its internal names. `ReferenceVTable` and
`DefineVTable` come in any order; `info` is what matters of an entry: the symbols
that existed when it was written, since an entry names every class by a string
and, if there is one, by its symbol. `LinkUnit` renames colliding internal
symbols, and `extractMetadata` reads the result as the code does: by symbol if
there is one, by string if not, first copy first. `SDBuildCHA` of `Pipeline` is
one step whose outcome is `ClassForest!IsForest`, which `CHA` is shown to
implement.

`schedulePass` follows the pass manager: a required analysis that is not
available is created with its default constructor and put in front.

The state of the code is one word per kind of intrinsic (`code`): what its users
get. That is the call itself (`"get"`), the substitute (`"subst"`), or a number that
counts in the new tables, in the old ones, or in those of another vtable
(`"other"`). The calls of `sd_get_vcall_index` are never erased, here or in
`SDUpdateIndices`; they stay without users, and the model has no state for them.
Which kinds there are follows from the flags of the front end (`emits`). Units of
a link with new layouts are compiled with `-femit-ivtbl`; the script that sets
both couples them (`scripts/config.py`), and `IsBuild` says so.

There are three kinds of offsets that thunks read (`Offsets`). That of `this` is
in the thunks `SDLayoutBuilder` recognizes by their names (`_ZTv`, `_ZTcv`) and
clones. That of a covariant result is in thunks it does not recognize (`_ZTch`) and
leaves alone, until `handleRemainingSDGetVcallIndex` makes the old operand final
(`"resultOffset"`), or in clones, where it is translated for the vtable that holds
the thunk and not for one of the result (`"clonedResultOffset"`).

`SDFix` is one step over the destructors in the vtables that are left. A
destructor is one of `Forms`: a function with or without a body, one that has the
VTT parameter, or an alias, which counts as defined if its function is. The link
ends for an alias of anything but a function (`Inspectable`), and if a complete
destructor without a body is itself an alias or has no base variant with a body
and of its type (`Replaceable`). Aliases of declarations are part of the model
and of the proofs, but LLVM's verifier does not let them in, so no instance has one.

The asserts of passes that other modules have in detail appear as the condition under
which the step may end the build: for `SDLayoutBuilder` vtables that lack entries of a
parent (`Misfit`, an input here; `OnlyMisfitsAbort` of `Layout` says that without them
no assert fails) or a covariant result's offset in a clone, which need not be an
index of the vtable that holds it; for `SDUpdateIndices` a call through a class without
a vtable where there are misfits (`Untranslatable`) and vtables that are gone or
still in use (`Removable`); for both and for `SDAnalysis` confused internal names
(`NamesKnown`), with which the hierarchy need not be one of C++. Whether such a
build is stopped is left open; both outcomes are checked.

## Runs

| Run | Instance | Shows |
|---|---|---|
| `cha` | all hierarchies of 3 classes in declaration orders `a b c` and `c b a`, at most two sub-vtables each, bases defined, undefined, or outside the metadata, and three diamonds of 4 classes | the bookkeeping invariants, that a count is exact unless something below is shared, `Terminates`, and that `CHA` implements `ClassForest` |
| `layout` | chains, forks, two bases, diamonds with 2-3 entries in front of the address point and 1-3 behind, classes with and without vtable, ordered and interleaved; concrete programs, some of them with thunks, and three in which a pad or a table in between moves an entry although the layout verifies (`BetweenProgram`, `PaddedBaseProgram`, `PaddedRangeProgram`) | the layout invariants, thunks, and `Terminates` |
| `layout_gap`, `layout_dispatch`, `layout_misfit`, `layout_pad`, `layout_thunk` | one C++ program each, written in front of its definition in `SmallHierarchies` | *violated*: one comment or assert of the code each |
| `update` | the hierarchies of `layout` with equal and with growing vtables and three of its C++ programs; every entry called, through every class, more precise ones and one without metadata; one or two known vptrs | legal calls pass their check and reach their entry, link-time decisions agree with run time, a more precise class narrows, a check admits the slots of its ranges and one behind, `LinkTerminates` |
| `update_slot` | a call through the middle of a fork | *violated*: the ranges in the checks are not exact |
| `update_declared` | a call through a class without a vtable in a virtual diamond | *violated*: the assert of `translateVtblInd` |
| `policies` | chains, forks, several bases and three kinds of diamonds, with functions overridden or not, equal and unequal tables; links with plain functions, thunks, calls through pointers, blacklisted functions and ten states of the output directory, among them files without their partner | every policy allows legal calls (`TypesAllowLegalTargets` and `LegalTargetsAllowed`), `PoliciesNested`, types told apart, results kept but for the exposed file, exact sub-hierarchies and the asserts about them, `Terminates` |
| `pipeline` | one to three units, all orders of mentioning, defining and linking, bases defined somewhere or nowhere, internal names used twice, vtables removed before the passes, all options, offsets of covariant results, vtables that lack entries of a parent, destructors with a body or none, with the VTT parameter, and as aliases | the hierarchy that is read, the reasons of an abort, current results, agreement of code and tables, repaired destructors, `Terminates` |

Why the bounds are enough for what they are used for: three classes are the
fewest with a vtable that has two parents, a grandparent, and a parent named
before it is read; name order against declaration order in both directions
decides which root claims first and what a preorder meets first. The diamonds
add the shared bottom. In the layout, two different depths and two lengths are
what makes alignment, pads and rows differ; three lengths on a chain separate
"longer than the parent" from "longer than the child". Words of 9 bits
(`WordSize = 512`) hold the largest of these tables with room behind it, so the
rotation of every unaligned distance is larger than any width, as it is on 64
bits; two calls per program are enough because calls only share the layout.

For `policies`, a diamond with a class below it and a second root is the least
hierarchy in which a class is met twice and two islands meet; nine parameters are
beyond both limits of the encodings (seven and eight). For `pipeline`, two units
with two classes are the fewest that can name each other's classes in opposite
order, and the third brings a class that is described after two others refer to it.

`DescendantsAdmitted`, `SameOffsetsEverywhere`, `LayoutsVerify`, `VptrCorresponds`,
`ClonesSuitAll`, `OnlyDescendantsPass` and `IndicesTranslate` state what comments and
asserts of the code say; they fail, and `PROJECT.json` lists each with the line. The
passing properties therefore have the preconditions that separate the two: no pad in the
vtable (`VptrOnAddressPoint`) or below the class (`OnlyDescendantsAdmitted`),
interleaved clouds without pads (`InterleavedRangesExact`), and `Receivers`, the
vtables in which a call through a class finds its entries (`DispatchFindsEntry`,
`ThunksFindOffset`): neither vtable is padded, and either the verification has
compared every step from the class to the vtable (`VerifiedBelow`), or every table
laid out between the two has the rows of the class. Each has instances on both
sides in `MCPrograms`.
`DeclaredHierarchyLinked` and `AbortsExplained` have one for internal names that
two units share (`NamesKnown`): an entry written before the symbol exists names
the class by its string, which after the link is the symbol of the other unit's.
Two more places where the code is not what its comments say are seen in passing
properties that state what it does. `CodeMatchesTables` says of the offsets of
covariant results only that they fit old tables: in an interleaved link a `_ZTch` thunk
keeps the old offset, although `createThunkFunctions` is there to replace offsets
(`SafeDispatchLayoutBuilder.cpp:290-291`). `CloudSizeExact` says that a count is the
number of vtables, which `SafeDispatchCHA.h:412-416` promises, exactly where nothing
defined below has two parents, and larger elsewhere. `OutputsKept` makes no assumption on the output directory; it
excepts the one file that `findOutputFileName` does not ask for, since it tests the
name of the `Virtual` file twice (`Exposed`).

Fairness is `WF_vars(Next)`: a pass is called by the pass manager and runs on one
thread until it returns or an assert ends the process; nothing can keep it from
taking its next step. In `Pipeline` it is `WF_vars(Build)`, of the steps of the
compiler and the linker without `Finished`. Only the four `Terminates` and
`LinkTerminates` depend on it.

Every property of a passing run has a mutant: an operator `Mutant...` in front of
the definition it alters (a dropped erase, a wrong comparison, a loop that does
not advance) under which TLC finds the property violated.

## Proofs

The theorems about `CHA` hold for every set of classes, every metadata with
`IsMetadata` and every injective name order (`NameRankAssumption`,
`NoClassAssumption`, `MetadataAssumption`; TLC evaluates them in every run).

- `CHA_proofs`. `ReadInv` relates the maps to the classes read so far:
  the domain of `cloudMap` is what was described or mentioned, its values are
  the children among what was read, `build_undefinedVtables` is the difference.
  It is inductive by itself, because a node is read once and a vtable has the
  name of its class; `UndefinedTracking` and `CloudInverse` follow.
- `CHA_proofs`, the walks. `FirstRootClaims` is not inductive: during a walk nothing
  it says constrains `visited`. `WalkInv` adds the classical invariant of
  depth-first search: what is visited derives from the root, and every child of
  a visited vtable is visited or waits in some frame. With an empty stack the
  visited set is closed under children, hence the least such set, `Derived`.
  The order of roots enters as: every root not in `todo` precedes the roots in
  `todo`.
- `CHAForest_proofs`. Type correctness, that the layout class of a vtable is its
  ancestor (the assert makes the `CHOOSE` over the parents' ancestors a choice
  from one), and the refinement: every step maps to `Build` or leaves `forest`
  unchanged. The mapping shows the maps only when `pc = "done"`; the proof that
  an assert fails exactly for metadata that is no forest rests on the two
  invariants above.
- `RangeCheck_proofs`, for every word size and every alignment that divides it.
  With `d = a * q + r`, the left shift of the rotation leaves `r * (W / a)`
  (`ShlIsRemainder`, by uniqueness of division with remainder), so the rotated
  distance is `q` for an aligned pointer and at least the number of slots of the
  whole address space for any other. Hence one comparison tests alignment and
  distance at once (`RotationTestsBoth`) as long as the width is smaller than
  that number, and a check admits exactly the slots up to the one behind its
  last (`InRangeExact`).

- `Hierarchy_proofs` and `CloudSizesExact` (`CHAForest_proofs`), about the numbers
  `calculateChildrenCounts` finds. No table is sized by them: the emission takes the
  interleaving map, and the one caller of `getCloudSize` is dead code. The theorem
  says how far they are what the header documents. `ChildrenCounts` is a function
  whose recursion ends because every vtable has a height above those of its children
  (`HeightExists`, `CountExists`). A union has as many elements as its parts have
  together exactly if they do not overlap (`UnionFits`, `UnionShort`), and the
  defined vtables below two children overlap, at this vtable or below, exactly if
  one of them has two parents (`SharedMeansOverlap`); a least height at which the
  count is not as stated then leads to a contradiction (`CountsExact`).
- `Layout_proofs`, for every set of programs with `IsProgram`, from
  `NameRankAssumption`, `NoCloudAssumption`, `ProgramsAssumption`,
  `ForestAssumption` and `PreorderAssumption`. The last is evaluated by TLC on every
  hierarchy of the runs, not proved of the walk of `CHA`. No property of
  `Layout` is inductive, they all speak of the end. `IInv` says what is true in
  between:
  `CursorInv` (the queue is what is left of the preorder; alignments are set for the
  clouds begun), `PlacedInv` (exactly the vtables passed have entries), `OrderedInv`
  (a table of an ordered cloud is moved in one piece, with its address point on a
  multiple of the alignment, behind the one before it and within one alignment of
  it), `RankedInv` (an interleaved entry is at its rank in the row order),
  `EmitInv` (a vptr is the entry as far behind the first placed one as the address
  point was; a thunk is translated for one of the vtables that hold it), `RangeInv`
  (ranges are the coalesced preorder indices of what derives from a vtable),
  `VerifiedInv` (at the end the asserts have held), with `InputInv` and `TypeOK`.
  It is inductive (`NextInvariant`), and the properties follow from it:
  `EntriesKept`, because tables of one cloud do not overlap and ranks of different
  entries differ; the dispatch and the thunks, because along verified pairs
  distances are equal by `SameOffsets`, and where every table in between has a row
  the ranks in it are equally far apart; the ranges, because their width counts the
  defined vtables from the first, and vptrs follow each other in preorder one
  (interleaved) or at least one (ordered) alignment apart.
- `AbortsOnlyMisfits` needs `FitInv` in addition: if every vtable extends its parents
  then no pad is ever needed and no assert fails. That the ranges always verify
  (`RangesVerify`) uses that a coalesced set is the disjoint union of its runs.
- `UpdateIndices_proofs`, from the same assumptions with `CallsAssumption`,
  `AddressSpaceAssumption` and `WordSizeAssumption`. `LinkInv` adds to `IInv`
  how far the loops are (`PassInv`), that an index is the old or the new one
  accordingly (`IndexInv`), and that the ranges of a check that are to be done,
  decided and tested are together those of its sub-vtable (`CheckInv`), each decided
  one with `validConstVptr`. That the sub-vtable of a check derives from the class of
  the call needs that `getSubVTableIndex` with the classes swapped never finds one,
  which is the acyclicity of inheritance (`PreciseIsBelow`). For the properties, a vptr of an evenly spaced
  cloud is a range's start and a number of alignments less than its width
  (`DefinedInRange`), ranges of a derived vtable lie in ranges of its base
  (`RangeNests`), and the arithmetic of the check is `SlotPasses`, `InnerRange` and
  `InRangeExact` of `RangeCheck_proofs`, modulo the word size: a table may begin
  anywhere, only widths are bounded.
- `Pipeline_proofs`, for every set of programs that `Pipeline` accepts: any number of
  units, any hierarchies and destructors, all options. `BuildInv` has three parts.
  `CompileInv` is what the entries written so far name, unit by unit. `SymbolsInv` says
  what symbol a class has: its own name or, if units share the name and it is internal
  there, a fresh one; of two units with an internal name only one keeps it. `StageInv` is what holds between
  any two passes. That needs the lists of passes: for each set of options the list
  is in a fixed order with everything an analysis needs in front of it
  (`ListIsSchedule`), so the pass manager adds nothing (`ScheduledAsGiven`), and what is
  left of it says which results are valid, what the users of each kind of intrinsic
  get, and which tables and repaired destructors there are (`ResultsAt`, `CodeAt`,
  `VTablesAt`). `ResultsCurrent`,
  `CodeMatchesTables` and `DestructorsCallable` follow. `TypeOK`, `LinkedIsMetadata`
  and `DeclaredHierarchyLinked` follow from the other two parts: an entry names its
  class by one name (`EntryFacts`), the parents it names are deeper by a depth of all
  units together (`LinkedMetadata`), and references find the symbols of their own
  unit (`LinkedAs`).
- `AbortsAreExplained` goes through the passes that may stop the build: each does so
  with a reason in the inputs (`StopHasReason`). Two conditions in their guards need
  an argument. The vtables to be removed are always there: the layout was made of
  what the analysis found, and nothing was removed since (`AlwaysRemovable`). And the
  linked module is no forest only if a unit is none. The root of a linked vtable is the symbol of the root it has in its unit; units agree on the
  roots of the classes they share (`RootsAgree`, by depth), and a hierarchy whose
  vtables can be named roots that way is a forest (`RootsMakeForest`, `LinkedForest`).
- `Policies_proofs`, the files: in a finite directory there is a number that no
  `Virtual` file has (`FreeNumber`), so the `CHOOSE` of `OutputNumber` finds the first.
  Of earlier results only the `Indirect` file of that number can be in the way of what
  is written, and it is not if the results came in pairs (`StoreKeeps`, `FilesInv`).
- `Policies_proofs`, the encodings. Two types with one number have the same last
  digit of base 32 and the same rest, so one length and the same digits
  (`DigitsDetermined`); digits are never zero and never 32, hence no short type has the
  number of the long ones (`SameNumber`). `FiledInv` says that a function is
  filed under its own number and nowhere else.
- `Policies_proofs`, the topological order. `SortState` is the invariant of the search:
  the calls go down the hierarchy (`Deepens`, so a class never comes up while it is
  visited), a child is left, being visited, or still to come (`Followed`), and in the
  order children of primary vtables come later (`Topological`). At its end
  everything that derives from a class comes later (`ChildrenLater`, from
  `ExtendsPrimaries`, which covers the secondary vtables) and no class is missing
  (`AllSorted`). `HierarchiesInv` adds that what is filed is exact (`Exact`) and what
  is not yet filed comes after its children (`Remaining`).
- `Policies_proofs`, `TypeOK` and legal calls. `WorkInv` relates what a loop has left
  to its kind, the keys of the maps to the program, and the islands to each other.
  `FoundInv` says that a function that was analysed is in all four maps under
  its types, a virtual one also in the maps of the virtual ones, and that the data of
  a call were read from the maps when they were complete. A legal target
  has the types of the call (`LegalTarget`, from `OverridesKeepTypes`), so it was filed
  where the call looks (`LegalByType`).
- `Policies_proofs`, the policies of the hierarchy. `PlacesInv` says what is filed for a
  function: under a class, the functions at its last offset in one sub-vtable that has
  it (`VTableTargetsInv`; which of several depends on their order), in all sub-vtables
  of the classes below (`ClassTargetsInv`), and in those of its island
  (`CollectedInv`). By `OneOverrider` and `AlignedBelow`, what a class below has at one
  place of the function it has at every other (`SamePlace`), so it does not matter
  which place was the last: the sets of ShrinkWrap lie in those of VTV, and a legal
  target, found at the place of the call, in those of ShrinkWrap. For Marx, everything
  is met on the way from a root (`RootsReach`, from `RootsArePrimary`), and what is met
  from one root has one island (`IslandsInv`): a second root joins the island of the
  first old class it meets, and with two roots there is only one. With a class met
  twice or a third root it need not be so, hence `TidyIslands`.

Attempts at these proofs corrected the properties: a table that lacks a row between
two that have it, or a pad in either of them, moves what a call finds although the
layout verifies, and a pad below a class moves the first vptr of its ranges. Three
programs of `layout` are those cases.

Only model-checked:

- termination and the absence of deadlock (liveness, `ENABLED`);
- that the preorder of `CHA` satisfies the `PreorderAssumption` of `Layout` and of `Policies`, which
  TLC evaluates on every hierarchy of the runs.

`OneOverrider` and `OverridesKeepTypes` are rules of C++ and not of the code under
test: TLC evaluates them on the programs of the run, which are laid out as clang would.

## Plan

1. Done: `CHA` and `RangeCheck` with their proofs; `Layout` with thunks,
   `UpdateIndices`, `Policies`, `Link` and `Pipeline` with their runs.
2. Done: the proofs about `Layout` and `UpdateIndices`.
3. Done: the proofs about `Pipeline` and `Policies`.
4. Done in `Pipeline`, as a kind of offset: covariant return adjustments. Left: which
   entry of which vtable such an offset reads, in `Layout`, where its thunks have the
   adjustment of `this` only.

## Not modelled

Dead code: the function IDs and ranges of the analysis (`buildFunctionInfo` has
no caller), `interleaveCloud`, `handleSDCheckVtbl` (its intrinsic is no longer
emitted), and `libdlcfi` (its call is commented out in
`handleSDGetCheckedVtbl`). Without state of their own: `SDMoveBasicBlocks`, which
only reorders blocks, `libdyncast`, which prints, and logging. Of the policy
analysis, the text of the result files and the metrics that sort it; that the list
of TypeArmor targets is written past the end of an array for a call of more than
seven parameters is a hazard without a property.

Outside of the project's own code: how clang lays out a vtable and where it puts
intrinsics (the inputs of the models satisfy what `IsMetadata`, `IsProgram`,
`IsSource` and `IsCall` say of it), the optimizer between the passes (`constants`
in `UpdateIndices` stands for what it may know of a vptr), `LowerBitSets`, and all
of vendored LLVM and clang, which make up nearly all of the lines under
`src/source_code/`: the fork's own passes and hooks are a few thousand of them,
and the map covers most of those passes. The benchmark scripts only compile.

`PROJECT.json` lists all components with their status and every hazard met so
far, with the properties that cover it.
