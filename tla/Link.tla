-------------------------------- MODULE Link ---------------------------------
(****************************************************************************)
(* How the class metadata gets into one module.  Every translation unit     *)
(* writes a named node per class when it emits the vtable of the class or   *)
(* of a class derived from it (SafeDispatchVtblMD.h); the linker appends    *)
(* the operands of nodes of one name and renames internal symbols that      *)
(* collide; the analysis reads the nodes back (extractMetadata).            *)
(*                                                                          *)
(* An entry names its class and its parents twice: by a string, and by a    *)
(* reference to the global variable of the vtable, which follows the symbol *)
(* when it is renamed.  The reference exists only if the variable did when  *)
(* the entry was written (`seen'), and is null after the vtable is removed. *)
(****************************************************************************)
EXTENDS Hierarchy, FiniteSetsExt, SequencesExt

CONSTANTS
  Programs,                      \* what may be built, see IsSource
  Renamed(_, _)                  \* symbol of an internal name that collides

VARIABLES
  program,                       \* the input, fixed in Init
  pc,                            \* what the build does
  unit,                          \* the translation unit being compiled
  declared,                      \* unit -> classes whose vtable has a symbol
  emitted,                       \* unit -> classes whose vtable is defined
  info,                          \* unit -> class -> symbols seen by its entry
  linked,                        \* units in the order they were linked
  symbol,                        \* unit -> class -> symbol in the module
  removed                        \* symbols whose vtable was erased again

compiled == <<unit, declared, emitted, info>>
link  == <<linked, symbol>>

------------------------------------------------------------------------------
(* The sources                                                               *)

Units  == DOMAIN program.units
MD(t)  == program.units[t].metadata

\* sd_isVtableName: not a name of std or of the C++ run time.
isVtableName(c)    == c \notin program.std
isInternal(t, c)   == c \in program.units[t].internal
ParentNames(t, c)  == {p[1] : p \in UNION {Parents(MD(t), v) : v \in OwnVTables(MD(t), c)}}
NamesIn(t, c)      == {c} \cup ParentNames(t, c)

\* The proper bases of a class: what its vtable has address points for.
BasesOf(t, c) ==
  {b \in DOMAIN MD(t) : \A S \in SUBSET DOMAIN MD(t) :
     ParentNames(t, c) \subseteq S /\ (\A d \in S : ParentNames(t, d) \subseteq S)
       => b \in S}

\* Units that see complete classes; they agree on a class unless it is internal,
\* also about what its bases are, and an internal class is internal wherever its
\* name is used.
IsSource(p) ==
  LET U == DOMAIN p.units
      md(t) == p.units[t].metadata IN
  /\ Len(p.units) \in Nat \ {0} /\ U = 1 .. Len(p.units)
  /\ \A t \in U :
       /\ IsMetadata(md(t))
       /\ NamedParents(md(t)) \subseteq Described(md(t))
       /\ p.units[t].internal \subseteq DOMAIN md(t)
  /\ \A t, u \in U : \A c \in DOMAIN md(t) \cap DOMAIN md(u) :
       /\ c \in p.units[t].internal <=> c \in p.units[u].internal
       /\ c \notin p.units[t].internal /\ t # u =>
            /\ md(t)[c].subVTables = md(u)[c].subVTables
            /\ \A v \in OwnVTables(md(t), c) : \A b \in Parents(md(t), v) :
                 b[1] \notin p.units[t].internal

ASSUME SourcesAssumption == \A p \in Programs : IsSource(p)

\* The symbol table gives a colliding name a suffix that is not in use.
ASSUME RenamedAssumption ==
  \A p \in Programs : \A t \in DOMAIN p.units :
    \A c \in DOMAIN p.units[t].metadata :
      /\ Renamed(c, t) \in Class
      /\ \A u \in DOMAIN p.units : Renamed(c, t) \notin DOMAIN p.units[u].metadata
      /\ \A u \in DOMAIN p.units : \A d \in DOMAIN p.units[u].metadata :
           Renamed(c, t) = Renamed(d, u) => c = d /\ t = u

LinkInit ==
  /\ program \in Programs
  /\ pc = "compile"
  /\ unit = 1
  /\ declared = [t \in Units |-> {}]
  /\ emitted = [t \in Units |-> {}]
  /\ info = [t \in Units |-> <<>>]
  /\ linked = <<>>
  /\ symbol = [t \in Units |-> <<>>]
  /\ removed = {}

------------------------------------------------------------------------------
(* A translation unit                                                        *)

\* getAddrOfVTable: a constructor or a call mentions the vtable.
ReferenceVTable(c) ==
  /\ pc = "compile"
  /\ c \in DOMAIN MD(unit) \ declared[unit]
  /\ isInternal(unit, c) => MD(unit)[c].defined
  /\ declared' = [declared EXCEPT ![unit] = @ \cup {c}]
  /\ UNCHANGED <<program, pc, unit, emitted, info, link, removed>>

\* A plausible slip: the bases are left to the units that emit their vtables.
MutantNewNodes(t, c) ==
  IF isVtableName(c) /\ c \notin DOMAIN info[t] THEN {c} ELSE {}

\* sd_insertVtableMD skips a class whose node has operands; the bases are
\* added in the same call, with the symbols there are by then.
NewNodes(t, c) ==
  IF isVtableName(c) /\ c \notin DOMAIN info[t]
  THEN {b \in {c} \cup BasesOf(t, c) : isVtableName(b) /\ b \notin DOMAIN info[t]}
  ELSE {}

Entries(t, c, symbols) ==
  [b \in NewNodes(t, c) \cup DOMAIN info[t] |->
     IF b \in DOMAIN info[t] THEN info[t][b] ELSE NamesIn(t, b) \cap symbols]

\* A plausible slip: a definition without an earlier mention has no symbol yet.
MutantDefineVTable(c) ==
  /\ pc = "compile"
  /\ c \in DOMAIN MD(unit) \ emitted[unit]
  /\ MD(unit)[c].defined
  /\ emitted' = [emitted EXCEPT ![unit] = @ \cup {c}]
  /\ info' = [info EXCEPT ![unit] = Entries(unit, c, declared[unit])]
  /\ UNCHANGED <<program, pc, unit, declared, link, removed>>

\* emitVTableDefinitions and GenerateConstructionVTable.
DefineVTable(c) ==
  /\ pc = "compile"
  /\ c \in DOMAIN MD(unit) \ emitted[unit]
  /\ MD(unit)[c].defined
  /\ declared' = [declared EXCEPT ![unit] = @ \cup {c}]
  /\ emitted' = [emitted EXCEPT ![unit] = @ \cup {c}]
  /\ info' = [info EXCEPT ![unit] = Entries(unit, c, declared'[unit])]
  /\ UNCHANGED <<program, pc, unit, link, removed>>

EndUnit ==
  /\ pc = "compile"
  /\ {c \in DOMAIN MD(unit) : MD(unit)[c].defined} \subseteq emitted[unit]
  /\ IF unit < Len(program.units)
     THEN unit' = unit + 1 /\ UNCHANGED pc
     ELSE pc' = "link" /\ UNCHANGED unit
  /\ UNCHANGED <<program, declared, emitted, info, link, removed>>

------------------------------------------------------------------------------
(* The linker, which is not the project's: it moves the symbols of a unit    *)
(* into the module and appends the operands of its named nodes               *)

Symbols == UNION {Range(symbol[t]) : t \in Units}

LinkUnit(t) ==
  /\ pc = "link"
  /\ t \notin ToSet(linked)
  /\ linked' = Append(linked, t)
  /\ symbol' = [symbol EXCEPT ![t] =
       [c \in declared[t] |->
          IF isInternal(t, c) /\ c \in Symbols THEN Renamed(c, t) ELSE c]]
  /\ pc' = IF Len(linked') = Len(program.units) THEN "passes" ELSE pc
  /\ UNCHANGED <<program, compiled, removed>>

\* The linked vtables, and those that are left.
Definitions == UNION {{symbol[t][c] : c \in emitted[t]} : t \in ToSet(linked)}
Alive == Definitions \ removed

------------------------------------------------------------------------------
(* Reading the nodes back                                                    *)

\* sd_mdnodeToGV: the name of the symbol, or the string where there is none.
NameOf(t, c, n) ==
  IF n \in info[t][c] /\ symbol[t][n] \notin removed THEN symbol[t][n] ELSE n

Nodes          == UNION {DOMAIN info[t] : t \in Units}
Copies(c)      == {t \in Units : c \in DOMAIN info[t] /\ t \in ToSet(linked)}
CopyNames(c)   == {NameOf(t, c, c) : t \in Copies(c)}

\* The operands of a node are in link order.
FirstCopy(c, n) ==
  LET named == {i \in DOMAIN linked :
                  c \in DOMAIN info[linked[i]] /\ NameOf(linked[i], c, c) = n}
  IN  linked[Min(named)]

\* A plausible slip: the references of the parents are not looked at.
MutantSubVTables(t, c) == MD(t)[c].subVTables

SubVTables(t, c) ==
  [i \in DOMAIN MD(t)[c].subVTables |->
     [MD(t)[c].subVTables[i] EXCEPT !.parents =
        {<<NameOf(t, c, p[1]), p[2]>> : p \in @}]]

\* A class is known by the name of its first copy's symbol; a node may
\* describe several, when internal classes share its name.
extractMetadata ==
  [n \in UNION {CopyNames(c) : c \in Nodes} |->
     LET c == CHOOSE c \in Nodes : n \in CopyNames(c)
         t == FirstCopy(c, n)
     IN  [subVTables |-> SubVTables(t, c), defined |-> n \in Alive]]

==============================================================================
