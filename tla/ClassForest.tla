----------------------------- MODULE ClassForest -----------------------------
(****************************************************************************)
(* What the class hierarchy analysis promises, without the order it reads   *)
(* or walks in: metadata is accepted exactly if it describes a forest of    *)
(* clouds, every vtable deriving from one root, and then the result is      *)
(* determined by the metadata alone.                                        *)
(****************************************************************************)
EXTENDS Hierarchy

VARIABLES metadata, forest

NotBuilt == [status |-> "not built"]
Rejected == [status |-> "rejected"]

RootsOf(md, v) == {r \in RootClasses(md) : v \in Derived(md, <<r, 0>>)}

IsForest(md) ==
  /\ \A v \in Described(md) : IsRoot(md, v) => v[2] = 0
  /\ NamedParents(md) \subseteq Described(md)
  /\ \A v \in Described(md) : \E r \in RootClasses(md) : RootsOf(md, v) = {r}

\* The root whose layout a vtable lives in.
CloudOf(md, v) == CHOOSE r \in RootClasses(md) : r \in RootsOf(md, v)

Forest(md) ==
  [status   |-> "built",
   children |-> [v \in Described(md) |-> Children(md, v)],
   roots    |-> RootClasses(md),
   cloud    |-> [v \in Described(md) |-> CloudOf(md, v)]]

Init ==
  /\ IsMetadata(metadata)
  /\ forest = NotBuilt

Build ==
  /\ forest = NotBuilt
  /\ forest' # NotBuilt
  /\ forest' = IF IsForest(metadata) THEN Forest(metadata) ELSE Rejected
  /\ UNCHANGED metadata

Spec == Init /\ [][Build]_<<metadata, forest>>

==============================================================================
