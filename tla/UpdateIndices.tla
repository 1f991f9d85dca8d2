---------------------------- MODULE UpdateIndices ----------------------------
(****************************************************************************)
(* SDUpdateIndices and SDSubstModule (SafeDispatchUpdateIndices.cpp) behind *)
(* the layout builder: every index into a vtable is translated to the new   *)
(* layout, every checked vptr gets the ranges of the class the call goes    *)
(* through, and the checks are lowered to instructions, or decided at link  *)
(* time if the vptr is known.                                               *)
(*                                                                          *)
(* The front end has left two intrinsics per virtual call (ItaniumCXXABI,   *)
(* getVirtualFunctionPointer): sd_get_vtbl_index with the class that        *)
(* declares the method, and sd_get_checked_vptr with that class and the     *)
(* static class of the object.  Pointers are counted in bytes from the      *)
(* start of the table they point into.                                      *)
(****************************************************************************)
EXTENDS Layout, RangeCheck

VARIABLES
  pass,                          \* the pass, or the loop of it, that runs
  uses,                          \* the uses its loop has not reached
  index,                         \* call -> what has become of its index
  check                          \* call -> what has become of its check

linkVars == <<vars, pass, uses, index, check>>

------------------------------------------------------------------------------
(* Calls                                                                     *)

\* A method that `class' declares, `index' entries from its address point, is
\* called on an object of the static class `precise', which is or derives from
\* `class'; the metadata of either may be missing.  The optimizer knows the
\* vptr to be the one of a vtable in `constants', or nothing if that is empty.
IsCall(p, call) ==
  LET md == p.metadata  v == <<call.class, 0>> IN
  /\ {call.class, call.precise} \subseteq Class
  /\ call.index \in Int
  /\ call.class \in DOMAIN md =>
       p.region[v].addrPt + call.index \in p.region[v].first .. p.region[v].last
  /\ call.precise # call.class /\ {call.class, call.precise} \subseteq DOMAIN md =>
       OwnVTables(md, call.precise) \cap Derived(md, v) # {}
  /\ call.constants \subseteq {w \in Described(md) : md[w[1]].defined}

ASSUME CallsAssumption ==
  \A p \in Programs : \A c \in DOMAIN p.calls : IsCall(p, p.calls[c])

\* Bytes of an entry.
WORD_WIDTH == 8

\* What the alignment of a table can be, in words: 1, or the size of a vtable
\* rounded up.
Alignments(p) ==
  {1} \cup {RoundedUp(p.region[v].last - p.region[v].first + 1) :
              v \in Described(p.metadata)}

\* Powers of two are divisors of the address space, and it has room for the
\* vptrs of all vtables of a program, aligned.
ASSUME AddressSpaceAssumption ==
  \A p \in Programs : \A a \in Alignments(p) :
    /\ a * WORD_WIDTH \in Alignment
    /\ Cardinality(Described(p.metadata)) * a * WORD_WIDTH < WordSize

Calls        == DOMAIN program.calls
class(c)     == program.calls[c].class
precise(c)   == program.calls[c].precise
oldIndex(c)  == program.calls[c].index
constants(c) == program.calls[c].constants

knowsAbout(v) == v \in VTables
Ancestor(v)   == CHOOSE r \in roots : v \in CloudOf(r)

\* Where a vtable's objects point, in bytes from the start of its table.
Address(v) == vptr[v] * WORD_WIDTH

LinkInit ==
  /\ Init
  /\ pass = "layout"
  /\ uses = {}
  /\ index = [c \in Calls |-> [op |-> "sd_get_vtbl_index", value |-> oldIndex(c)]]
  /\ check = [c \in Calls |-> [op |-> "sd_get_checked_vptr"]]

------------------------------------------------------------------------------
(* P3 and the loops of P4 (SDUpdateIndices)                                  *)

LayoutStep ==
  /\ pass = "layout"
  /\ pc \notin {"done", "aborted"}
  /\ Next
  /\ UNCHANGED <<pass, uses, index, check>>

StartIndices ==
  /\ pass = "layout"
  /\ pc \in {"done", "aborted"}
  /\ IF pc = "done" THEN pass' = "indices" /\ uses' = Calls
                    ELSE pass' = "aborted" /\ UNCHANGED uses
  /\ UNCHANGED <<vars, index, check>>

\* An index of a class that nothing defined derives from is left as it is.
HasNewLayout(v) ==
  /\ knowsAbout(v)
  /\ \E w \in Descendants(v) : isDefined(w)

\* Operators named Mutant... are plausible slips in the definition of that name,
\* each the test of one property; no specification here uses them.
\* Here: the index of a class without a vtable is not translated.
MutantHandleSDGetVtblIndex(c) ==
  /\ pass = "indices"
  /\ uses' = uses \ {c}
  /\ LET v == <<class(c), 0>> IN
     index' = [index EXCEPT ![c] =
                 [op    |-> "sd_subst_vtbl_index",
                  value |-> IF HasNewLayout(v) /\ isDefined(v)
                            THEN translateVtblInd(v, oldIndex(c))
                            ELSE oldIndex(c)]]
  /\ UNCHANGED <<vars, pass, check>>

HandleSDGetVtblIndex(c) ==
  /\ pass = "indices"
  /\ uses' = uses \ {c}
  /\ LET v == <<class(c), 0>> IN
       IF HasNewLayout(v) /\ ~ IsTranslatable(v, oldIndex(c))
       THEN pass' = "aborted" /\ UNCHANGED index
       ELSE /\ index' =
                 [index EXCEPT ![c] =
                    [op    |-> "sd_subst_vtbl_index",
                     value |-> IF HasNewLayout(v)
                               THEN translateVtblInd(v, oldIndex(c))
                               ELSE oldIndex(c)]]
            /\ UNCHANGED pass
  /\ UNCHANGED <<vars, check>>

\* getSubVTableIndex: the sub-vtables of `derived' that extend the primary one
\* of `base'; it gives up (-1) unless there is exactly one.
SubVTables(derived, base) ==
  {v \in VTables : v[1] = derived /\ v \in Descendants(<<base, 0>>)}

\* The primary vtable of the precise class is taken for the one of the class.
MutantCheckedVTable(c) ==
  IF knowsAbout(<<precise(c), 0>>) THEN <<precise(c), 0>> ELSE <<class(c), 0>>

\* The -1 of getSubVTableIndex is not looked at.
MutantCheckedVTableIndex(c) ==
  LET up == SubVTables(precise(c), class(c)) IN
  IF ~ knowsAbout(<<class(c), 0>>) \/ precise(c) = class(c) THEN <<class(c), 0>>
  ELSE IF Cardinality(up) = 1 THEN CHOOSE w \in up : TRUE
  ELSE <<class(c), -1>>

\* The sub-vtable whose ranges the check gets.
CheckedVTable(c) ==
  LET v    == <<class(c), 0>>
      up   == SubVTables(precise(c), class(c))
      down == SubVTables(class(c), precise(c))
  IN  IF ~ knowsAbout(v) \/ precise(c) = class(c)          THEN v
      ELSE IF Cardinality(up) = 1                          THEN CHOOSE w \in up : TRUE
      ELSE IF knowsAbout(<<precise(c), 0>>) /\ Cardinality(down) = 1
                                                           THEN CHOOSE w \in down : TRUE
      ELSE v

\* The start of a range is relative to the table of a root, like its global.
CheckRanges(v) ==
  IF ~ knowsAbout(v) THEN {}
  ELSE {[root      |-> Ancestor(v),
         start     |-> m.start * WORD_WIDTH,
         width     |-> m.width,
         alignment |-> alignmentMap[Ancestor(v)] * WORD_WIDTH] : m \in memRangeMap[v]}

\* One test per range, the largest first, each with a branch to the call, and a
\* trap behind the last: a vptr has to be in one of the ranges.
HandleSDGetCheckedVtbl(c) ==
  /\ pass = "checks"
  /\ uses' = uses \ {c}
  /\ check' = [check EXCEPT ![c] =
                 [op     |-> "sd_subst_check_range",
                  vtbl   |-> CheckedVTable(c),
                  ranges |-> CheckRanges(CheckedVTable(c)),
                  folded |-> {}, tests |-> {}]]
  /\ UNCHANGED <<vars, pass, index>>

------------------------------------------------------------------------------
(* P5 (SDSubstModule)                                                        *)

SubstVtblIndex(c) ==
  /\ pass = "subst indices"
  /\ uses' = uses \ {c}
  /\ index' = [index EXCEPT ![c].op = "constant"]
  /\ UNCHANGED <<vars, pass, check>>

\* The end of the range is taken for a part of it.
MutantvalidConstVptr(c, r) ==
  /\ constants(c) # {}
  /\ \A w \in constants(c) :
       /\ Ancestor(w) = r.root
       /\ Address(w) % 8 = 0
       /\ r.start <= Address(w) /\ Address(w) <= r.start + r.width * 8

\* validConstVptr: constant offsets and casts lead to the table the range is
\* in, both ways of a select.
validConstVptr(c, r) ==
  /\ constants(c) # {}
  /\ \A w \in constants(c) :
       /\ Ancestor(w) = r.root
       /\ Address(w) % 8 = 0
       /\ r.start <= Address(w) /\ Address(w) < r.start + r.width * 8

\* The loop does not advance.
MutantSubstCheckRange(c, r) ==
  /\ pass = "subst checks"
  /\ check' = [check EXCEPT ![c] =
                 [op     |-> @.op, vtbl |-> @.vtbl,
                  ranges |-> @.ranges \ {r},
                  folded |-> @.folded \cup IF validConstVptr(c, r) THEN {r} ELSE {},
                  tests  |-> @.tests \cup IF validConstVptr(c, r) THEN {} ELSE {r}]]
  /\ UNCHANGED <<vars, pass, uses, index>>

SubstCheckRange(c, r) ==
  /\ pass = "subst checks"
  /\ uses' = uses \ {<<c, r>>}
  /\ check' = [check EXCEPT ![c] =
                 [op     |-> @.op, vtbl |-> @.vtbl,
                  ranges |-> @.ranges \ {r},
                  folded |-> @.folded \cup IF validConstVptr(c, r) THEN {r} ELSE {},
                  tests  |-> @.tests \cup IF validConstVptr(c, r) THEN {} ELSE {r}]]
  /\ UNCHANGED <<vars, pass, index>>

\* The next loop, over the uses of the next intrinsic.  Between the passes the
\* old layouts are removed and the maps cleared (removeOldLayouts,
\* clearAnalysisResults): from there on they stand for the emitted tables.
NextUses ==
  /\ pass \in {"indices", "checks", "subst indices", "subst checks"}
  /\ uses = {}
  /\ CASE pass = "indices"       -> pass' = "checks" /\ uses' = Calls
       [] pass = "checks"        -> pass' = "subst indices" /\ uses' = Calls
       [] pass = "subst indices" ->
            /\ pass' = "subst checks"
            /\ uses' = UNION {{c} \X check[c].ranges : c \in Calls}
       [] pass = "subst checks"  -> pass' = "linked" /\ UNCHANGED uses
  /\ UNCHANGED <<vars, index, check>>

LinkFinished ==
  /\ pass \in {"linked", "aborted"}
  /\ UNCHANGED linkVars

------------------------------------------------------------------------------
Use ==
  \/ /\ pass # "subst checks"
     /\ \E c \in uses : \/ HandleSDGetVtblIndex(c)
                        \/ HandleSDGetCheckedVtbl(c)
                        \/ SubstVtblIndex(c)
  \/ /\ pass = "subst checks"
     /\ \E u \in uses : SubstCheckRange(u[1], u[2])

LinkNext == LayoutStep \/ StartIndices \/ Use \/ NextUses \/ LinkFinished

\* The passes run one after the other in one thread, each to its end.
LinkSpec == LinkInit /\ [][LinkNext]_linkVars /\ WF_linkVars(LinkNext)

------------------------------------------------------------------------------
(* What the calls do when the program runs                                   *)

Pointer == roots \X Word

\* The check of call c lets a pointer into the table of a root through.
Passes(c, pointer) ==
  \/ check[c].folded # {}
  \/ \E r \in check[c].tests :
       r.root = pointer[1] /\ InRange(pointer[2], r.start, r.width, r.alignment)

PointerOf(w) == <<Ancestor(w), Address(w)>>

\* The defined vtables a call may legally find in its object: they derive from
\* the class through a sub-vtable of the precise class, if that is known.
LegalReceivers(c) ==
  LET v    == <<class(c), 0>>
      subs == SubVTables(precise(c), class(c))
  IN  {w \in UNION {Descendants(u) : u \in IF subs = {} THEN {v} ELSE subs} :
         /\ isDefined(w)
         /\ constants(c) # {} => w \in constants(c)}

\* The layouts whose ranges leave no vtable out: interleaved without pads, or
\* ordered with any two vtables close enough to have neighbouring vptrs.
EvenlySpaced(r) ==
  IF program.interleave
  THEN \A v \in CloudOf(r) : prePadMap[v] = 0
  ELSE \A v, w \in CloudOf(r) :
         last(v) - addrPt(v) + 1 + addrPt(w) - first(w)
           <= alignmentMap[r]

------------------------------------------------------------------------------
(* Properties                                                                *)

IndexOps == {"sd_get_vtbl_index", "sd_subst_vtbl_index", "constant"}
Ranges   == [root : roots, start : Nat, width : Nat \ {0},
             alignment : Alignment]

\* The type invariant; the variables of the layout have theirs.
LinkTypeOK ==
  /\ pass \in {"layout", "indices", "checks", "subst indices", "subst checks",
               "linked", "aborted"}
  /\ uses \subseteq IF pass = "subst checks" THEN Calls \X Ranges ELSE Calls
  /\ index \in [Calls -> [op : IndexOps, value : Int]]
  /\ DOMAIN check = Calls
  /\ \A c \in Calls :
       \/ check[c] = [op |-> "sd_get_checked_vptr"]
       \/ /\ check[c].op = "sd_subst_check_range"
          /\ check[c].vtbl \in Class \X Nat
          /\ check[c].ranges \cup check[c].folded \cup check[c].tests \subseteq Ranges

\* No intrinsic survives the link, and a legal call does what it did before:
\* its vptr passes the check and the new index finds the entry that the old one
\* named, in every vtable whose entries the layout and its verification cover.
LegalCallsDispatch ==
  pass = "linked" =>
    \A c \in Calls :
      /\ index[c].op = "constant" /\ check[c].ranges = {}
      /\ knowsAbout(<<class(c), 0>>) /\ EvenlySpaced(Ancestor(<<class(c), 0>>)) =>
           \A w \in LegalReceivers(c) :
             /\ Passes(c, PointerOf(w))
             /\ w \in Receivers(Ancestor(w), <<class(c), 0>>) =>
                  vptr[w] + index[c].value =
                    newIndex[<<w, addrPt(w) + oldIndex(c)>>]

\* A check decided at link time would have passed at run time for every vptr
\* the call can have: the byte-wise test of validConstVptr and the rotation
\* agree, whatever the alignment.
LinkTimeAgrees ==
  pass = "linked" =>
    \A c \in Calls : \A r \in check[c].folded : \A w \in constants(c) :
      InRange(Address(w), r.start, r.width, r.alignment)

\* Knowing the class of the object more precisely never admits a pointer that
\* the class of the method would not, though the two come from different ranges.
PreciseNarrows ==
  pass = "linked" =>
    \A c, d \in Calls :
      /\ class(c) = class(d) /\ precise(d) = class(d)
      /\ constants(c) = {} /\ constants(d) = {}
      /\ knowsAbout(<<class(c), 0>>) /\ EvenlySpaced(Ancestor(<<class(c), 0>>))
      => \A x \in Pointer : Passes(c, x) => Passes(d, x)

\* The rotation tests distance and alignment at once: a check lets exactly the
\* aligned slots of its ranges through, up to the one behind the last.
CheckAdmitsSlots ==
  pass = "linked" =>
    \A c \in Calls :
      check[c].folded = {} =>
        {x \in Pointer : Passes(c, x)} =
          UNION {{r.root} \X (IF r.width > 1 THEN Slots(r.start, r.width, r.alignment)
                                             ELSE {r.start} \cap Word) :
                   r \in check[c].tests}

\* Every loop over the uses comes to an end, or an assert ends the link.
LinkTerminates == <>(pass \in {"linked", "aborted"})

------------------------------------------------------------------------------
(* What comments in the code say of it                                       *)

\* translateVtblInd asserts that the index is in the vtable it looks up.
IndicesTranslate == pc = "done" => pass # "aborted"

\* buildNewLayouts, of the ranges the checks get: "this ranges have to be the
\* most restrictive as posible and precise".
OnlyDescendantsPass ==
  pass = "linked" =>
    \A c \in Calls : \A w \in DOMAIN vptr :
      check[c].folded = {} /\ Passes(c, PointerOf(w)) =>
        w \in Descendants(check[c].vtbl)

==============================================================================
