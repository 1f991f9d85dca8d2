--------------------------- MODULE MCUpdateIndices ---------------------------
(****************************************************************************)
(* Programs with virtual calls: small hierarchies, both ways to lay them    *)
(* out, and calls through their classes.                                    *)
(****************************************************************************)
EXTENDS UpdateIndices, SmallHierarchies

\* Every vtable two entries in front of the address point; behind it the
\* entries of its own class after the ones it inherits.
Grown(md, interleave) ==
  LET size[v \in Described(md)] ==
        1 + Max({0} \cup {size[p] : p \in Parents(md, v)})
  IN  Linked(md, [v \in Described(md) |-> 2], size, interleave)

\* All vtables alike.
Even(md, interleave) ==
  Linked(md, [v \in Described(md) |-> 2], [v \in Described(md) |-> 2], interleave)

Hierarchies ==
  {Chain, TwoBases, VirtualPrimaryDiamond, DeclaredDiamond}
    \cup {Fork(base, middle) :
            base   \in {Defined(<<Root>>), Declared(<<Root>>)},
            middle \in {Defined(<<From({<<"a", 0>>})>>),
                        Declared(<<From({<<"a", 0>>})>>)}}

Call(c, p, i, K) == [class |-> c, precise |-> p, index |-> i, constants |-> K]

\* Calls of every entry of a class; calls through a more precise class, with and
\* without it; calls with what the optimizer found out about the vptr.  "y" has
\* no metadata in most hierarchies.
CallLists(md) ==
  LET known == {K \in SUBSET {w \in Described(md) : md[w[1]].defined} :
                  Cardinality(K) \in {1, 2}}
  IN  {<<Call(c, c, i, {})>> : c \in DOMAIN md, i \in -4 .. 3}
        \cup {<<Call(c, c, 0, {}), Call(c, p, 0, {})>> :
                c \in DOMAIN md, p \in DOMAIN md \cup {"y"}}
        \cup {<<Call(c, p, 0, K)>> : c, p \in DOMAIN md, K \in known}
        \cup {<<Call("y", p, 1, {})>> : p \in {"a", "y"}}

Calling(p) ==
  {q \in {[metadata |-> p.metadata, region |-> p.region,
           interleave |-> p.interleave, thunks |-> p.thunks,
           calls |-> calls] :
            calls \in CallLists(p.metadata)} :
     \A c \in DOMAIN q.calls : IsCall(q, q.calls[c])}

MCPrograms ==
  UNION {Calling(Even(md, i)) \cup Calling(Grown(md, i)) :
           md \in Hierarchies, i \in BOOLEAN}
    \cup Calling(GapProgram) \cup Calling(DispatchProgram) \cup Calling(MisfitProgram)

\* A call through b, whose two vtables are followed by the one of c.
MCNeighbour ==
  LET md == Fork(Defined(<<Root>>),
                       Defined(<<From({<<"a", 0>>})>>))
  IN  {q \in Calling(Even(md, TRUE)) : q.calls = <<Call("b", "b", 0, {})>>}

\* A call of the second function of c, where
\* struct a; struct b : virtual a {}; struct c : virtual a; struct d : b, c {};
\* and the vtable of c is in no linked module.
MCDeclared ==
  LET md   == DeclaredDiamond
      post == [v \in Described(md) |-> IF v \in {<<"c", 0>>, <<"d", 1>>} THEN 2 ELSE 1]
      pre  == [v \in Described(md) |-> IF v = <<"a", 0>> THEN 2 ELSE 4]
  IN  {q \in Calling(Linked(md, pre, post, FALSE)) : q.calls = <<Call("c", "c", 1, {})>>}

==============================================================================
