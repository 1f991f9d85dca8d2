------------------------------ MODULE Hierarchy ------------------------------
(****************************************************************************)
(* The class hierarchy as the SafeDispatch passes receive it: the linked    *)
(* "sd.class_info." metadata, one entry per class, one tuple per sub-vtable *)
(* of the class (SafeDispatchVtblMD.h writes it, extractMetadata in         *)
(* SafeDispatchCHA.cpp reads it back).                                      *)
(*                                                                          *)
(* A (primitive) vtable is a pair <<class, order>>.  Each sub-vtable names  *)
(* the vtables of the direct bases it extends; the pair ("", 0) that the    *)
(* front end writes for a class without a primary base is the flag `root'.  *)
(* Address points and ranges, which the analysis only copies, belong to     *)
(* the layout.                                                              *)
(****************************************************************************)
EXTENDS Integers, Sequences, FiniteSets

CONSTANTS
  Class,                         \* names of vtables, vtbl_name_t
  NameRank                       \* std::string's order on them

ASSUME NameRankAssumption ==
  /\ NameRank \in [Class -> Nat]
  /\ \A c, d \in Class : NameRank[c] = NameRank[d] => c = d

\* The order of a std::set of class names, and of one of vtables.
NameLeq(c, d)   == NameRank[c] <= NameRank[d]
VTableLeq(v, w) == IF v[1] = w[1] THEN v[2] <= w[2] ELSE NameLeq(v[1], w[1])

VTable    == Class \X Nat
SubVTable == [parents : SUBSET VTable, root : BOOLEAN]
ClassInfo == [subVTables : Seq(SubVTable), defined : BOOLEAN]

\* The sub-vtables that the entry of class c describes.
OwnVTables(md, c) == {<<c, i>> : i \in 0 .. Len(md[c].subVTables) - 1}

Described(md) == UNION {OwnVTables(md, c) : c \in DOMAIN md}

SubInfo(md, v) == md[v[1]].subVTables[v[2] + 1]
Parents(md, v) == SubInfo(md, v).parents
IsRoot(md, v)  == SubInfo(md, v).root

NamedParents(md) == UNION {Parents(md, v) : v \in Described(md)}
Children(md, v)  == {w \in Described(md) : v \in Parents(md, w)}
RootClasses(md)  == {c \in DOMAIN md : \E v \in OwnVTables(md, c) : IsRoot(md, v)}

\* What the front end guarantees of any metadata it writes: a class has its
\* primary vtable, a sub-vtable has parents unless it is flagged as a root,
\* no sub-vtable extends one of its own class, and inheritance is acyclic.
IsMetadata(md) ==
  /\ md \in [DOMAIN md -> ClassInfo]
  /\ DOMAIN md \subseteq Class
  /\ IsFiniteSet(DOMAIN md)
  /\ \A c \in DOMAIN md : Len(md[c].subVTables) > 0
  /\ \A v \in Described(md) :
       /\ IsRoot(md, v) <=> Parents(md, v) = {}
       /\ \A p \in Parents(md, v) : p[1] # v[1]
  /\ \E depth \in [DOMAIN md -> 1 .. Cardinality(DOMAIN md)] :
       \A v \in Described(md) : \A p \in Parents(md, v) \cap Described(md) :
         depth[p[1]] < depth[v[1]]

\* The vtables that derive from v: the least set that holds v and the
\* children of its members.
ClosedUnderChildren(md, S) == \A v \in S : Children(md, v) \subseteq S

Derived(md, v) ==
  {w \in Described(md) \cup {v} :
     \A S \in SUBSET (Described(md) \cup {v}) :
       v \in S /\ ClosedUnderChildren(md, S) => w \in S}

==============================================================================
