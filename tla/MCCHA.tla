-------------------------------- MODULE MCCHA --------------------------------
(****************************************************************************)
(* Class hierarchies for the model checker: a family enumerated over three  *)
(* classes and a base outside the metadata, and hierarchies of the programs *)
(* under benchmarks/ with the parents the front end writes for them.        *)
(****************************************************************************)
EXTENDS CHA, TLC

MCNameRank == ("a" :> 1) @@ ("b" :> 2) @@ ("c" :> 3) @@ ("d" :> 4) @@ ("x" :> 5)

Root       == [parents |-> {}, root |-> TRUE]
From(P)    == [parents |-> P, root |-> FALSE]
Defined(s) == [subVTables |-> s, defined |-> TRUE]
Declared(s) == [subVTables |-> s, defined |-> FALSE]

\* Nonempty sets of parents for a sub-vtable, out of the vtables in P.
SomeOf(P) == {From(S) : S \in SUBSET P \ {{}}}

\* What a class may look like whose bases have the vtables in P: a primary
\* vtable, perhaps a secondary one.
Shapes(P) ==
  {<<p>> : p \in SomeOf(P) \cup {Root}}
    \cup {<<p, q>> : p \in SomeOf(P) \cup {Root}, q \in SomeOf(P)}

\* Hierarchies of three classes declared in the order c1, c2, c3, with the base
\* of c2 maybe left out of the metadata.
Family(c1, c2, c3) ==
  {(c1 :> base) @@ (c2 :> Defined(s2)) @@ (c3 :> Defined(s3)) :
     base \in {Defined(<<Root>>), Declared(<<Root>>), Defined(<<Root, Root>>)},
     s2 \in Shapes({<<c1, 0>>}) \cup {<<From({<<"x", 0>>})>>},
     s3 \in Shapes({<<c1, 0>>, <<c2, 0>>, <<c2, 1>>})}

Acceptable(md) == \A v \in Described(md) : \A p \in Parents(md, v) :
                    p[1] \in DOMAIN md => p \in Described(md)

VirtualDiamond ==
  ("a" :> Declared(<<Root>>)) @@
  ("b" :> Defined(<<Root, From({<<"a", 0>>})>>)) @@
  ("c" :> Defined(<<Root, From({<<"a", 0>>})>>)) @@
  ("d" :> Defined(<<From({<<"b", 0>>}), From({<<"c", 0>>}),
                    From({<<"b", 1>>, <<"c", 1>>})>>))

\* A virtual primary base shared by b and c.
VirtualPrimaryDiamond ==
  ("a" :> Defined(<<Root>>)) @@
  ("b" :> Defined(<<From({<<"a", 0>>})>>)) @@
  ("c" :> Defined(<<From({<<"a", 0>>})>>)) @@
  ("d" :> Defined(<<From({<<"b", 0>>, <<"c", 0>>}), From({<<"c", 0>>})>>))

OnlyMult ==
  ("a" :> Defined(<<Root>>)) @@
  ("b" :> Defined(<<Root>>)) @@
  ("c" :> Defined(<<From({<<"b", 0>>}), From({<<"a", 0>>})>>)) @@
  ("d" :> Defined(<<From({<<"c", 0>>}), From({<<"c", 1>>})>>))

MCPrograms == {VirtualDiamond, VirtualPrimaryDiamond, OnlyMult}

MCMetadata ==
  MCPrograms
    \cup {md \in Family("a", "b", "c") \cup Family("c", "b", "a") : Acceptable(md)}

==============================================================================
