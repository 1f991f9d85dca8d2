-------------------------- MODULE SmallHierarchies --------------------------
(****************************************************************************)
(* Small hierarchies and programs, for the model checker: MCLayout lays     *)
(* them out, MCUpdateIndices calls through them.                            *)
(****************************************************************************)
EXTENDS Hierarchy, TLC

CloudWalk == INSTANCE CloudOrder

MCPreorder(md, v) == CloudWalk!DepthFirst(md, v)

MCNameRank == ("a" :> 1) @@ ("b" :> 2) @@ ("c" :> 3) @@ ("d" :> 4) @@
              ("p" :> 5) @@ ("q" :> 6) @@ ("e" :> 7) @@ ("y" :> 8)

Root        == [parents |-> {}, root |-> TRUE]
From(P)     == [parents |-> P, root |-> FALSE]
Defined(s)  == [subVTables |-> s, defined |-> TRUE]
Declared(s) == [subVTables |-> s, defined |-> FALSE]

\* The regions of vtables with pre[v] entries in front of the address point and
\* post[v] from there on.
Regions(md, pre, post) ==
  LET start[v \in Described(md)] ==
        IF v[2] = 0 THEN 0
        ELSE LET u == <<v[1], v[2] - 1>> IN start[u] + pre[u] + post[u]
  IN  [v \in Described(md) |->
         [first |-> start[v], addrPt |-> start[v] + pre[v],
          last |-> start[v] + pre[v] + post[v] - 1]]

Linked(md, pre, post, interleave) ==
  [metadata |-> md, region |-> Regions(md, pre, post), interleave |-> interleave,
   thunks |-> {}]

Chain ==
  ("a" :> Defined(<<Root>>)) @@
  ("b" :> Defined(<<From({<<"a", 0>>})>>)) @@
  ("c" :> Defined(<<From({<<"b", 0>>})>>))

Fork(base, middle) ==
  ("a" :> base) @@
  ("b" :> middle) @@
  ("c" :> Defined(<<From({<<"a", 0>>})>>)) @@
  ("d" :> Defined(<<From({<<"b", 0>>})>>))

\* Two bases: c extends one and has a second vtable in the cloud of the other.
TwoBases ==
  ("a" :> Defined(<<Root>>)) @@
  ("b" :> Defined(<<Root>>)) @@
  ("c" :> Defined(<<From({<<"b", 0>>}), From({<<"a", 0>>})>>))

\* class b : virtual a; class c : virtual a; class d : b, c.
VirtualPrimaryDiamond ==
  ("a" :> Defined(<<Root>>)) @@
  ("b" :> Defined(<<From({<<"a", 0>>})>>)) @@
  ("c" :> Defined(<<From({<<"a", 0>>})>>)) @@
  ("d" :> Defined(<<From({<<"b", 0>>, <<"c", 0>>}), From({<<"c", 0>>})>>))

\* The same with a c whose vtable is in no linked module.
DeclaredDiamond == [VirtualPrimaryDiamond EXCEPT !["c"].defined = FALSE]

\* Hierarchies in which an interleaved layout passes the verification and still moves
\* what calls and checks rely on.

\* b has no vtable here; d, between two vtables that extend it, extends its other
\* parent instead.
BetweenProgram ==
  LET md == [Fork(Defined(<<Root>>), Declared(<<From({<<"a", 0>>})>>)) EXCEPT
               !["c"].subVTables = <<From({<<"b", 0>>})>>,
               !["d"].subVTables = <<From({<<"b", 0>>, <<"q", 0>>})>>]
            @@ ("p" :> Defined(<<From({<<"b", 0>>})>>))
            @@ ("q" :> Defined(<<From({<<"a", 0>>})>>))
  IN  Linked(md, [v \in Described(md) |-> 2],
             [v \in Described(md) |-> IF v[1] \in {"b", "c", "p"} THEN 2 ELSE 1], TRUE)

\* The second vtable of c is padded to the depth of b, and d derives from it.
PaddedBaseProgram ==
  LET md == ("a" :> Defined(<<Root>>)) @@
            ("b" :> Defined(<<From({<<"a", 0>>})>>)) @@
            ("c" :> Defined(<<Root, From({<<"a", 0>>, <<"b", 0>>})>>)) @@
            ("d" :> Defined(<<From({<<"c", 0>>}), From({<<"c", 1>>})>>)) @@
            ("q" :> Defined(<<From({<<"a", 0>>})>>))
  IN  Linked(md,
             [v \in Described(md) |-> IF v[1] \in {"a", "q"} \/ v = <<"c", 1>> THEN 2 ELSE 4],
             [v \in Described(md) |-> IF v[1] \in {"a", "q"} THEN 1 ELSE 2], TRUE)

\* The second vtables of c and y are padded to the depths of b and e; the ranges of d,
\* which has no vtable, begin with the former.
PaddedRangeProgram ==
  LET md == ("a" :> Defined(<<Root>>)) @@
            ("b" :> Defined(<<From({<<"a", 0>>})>>)) @@
            ("c" :> Defined(<<Root, From({<<"b", 0>>, <<"d", 0>>})>>)) @@
            ("d" :> Declared(<<From({<<"a", 0>>})>>)) @@
            ("p" :> Defined(<<From({<<"d", 0>>})>>)) @@
            ("q" :> Defined(<<From({<<"d", 0>>})>>)) @@
            ("e" :> Defined(<<From({<<"a", 0>>})>>)) @@
            ("y" :> Defined(<<Root, From({<<"a", 0>>, <<"e", 0>>})>>))
  IN  Linked(md,
             [v \in Described(md) |->
                IF v[1] \in {"b", "e"} \/ v \in {<<"c", 0>>, <<"y", 0>>} THEN 5 ELSE 2],
             [v \in Described(md) |-> 1], TRUE)

\* The hierarchies below are those of the C++ declarations in front of them
\* (every class has one virtual function of its own unless stated), with the
\* parents and the regions the front end gives their vtables.

\* struct a; struct V { int x; }; struct b : a; struct c : a, virtual V;
\* struct d : a; struct e : a, virtual V; where c and e add no function.
GapProgram ==
  LET md == [x \in {"a", "b", "c", "d", "e"} |->
               Defined(<<IF x = "a" THEN Root ELSE From({<<"a", 0>>})>>)]
      pre  == [v \in Described(md) |-> IF v[1] \in {"c", "e"} THEN 3 ELSE 2]
      post == [v \in Described(md) |-> IF v[1] \in {"b", "d"} THEN 2 ELSE 1]
  IN  Linked(md, pre, post, FALSE)

VirtualDiamondOf(base1, base2) ==
  ("a" :> Defined(<<Root>>)) @@
  (base1 :> Defined(<<From({<<"a", 0>>})>>)) @@
  (base2 :> Defined(<<From({<<"a", 0>>})>>)) @@
  ("d" :> Defined(<<From({<<base1, 0>>, <<base2, 0>>}), From({<<base2, 0>>})>>))

\* struct a; struct p : virtual a {}; struct q : virtual a with two functions;
\* struct d : q, p {};
DispatchProgram ==
  LET md == VirtualDiamondOf("q", "p")
      pre  == [v \in Described(md) |-> IF v = <<"a", 0>> THEN 2 ELSE 4]
      post == [v \in Described(md) |-> IF v \in {<<"q", 0>>, <<"d", 0>>} THEN 3 ELSE 1]
  IN  Linked(md, pre, post, TRUE)

\* The same with the three functions in p instead.
MisfitProgram ==
  LET md == VirtualDiamondOf("q", "p")
      pre  == [v \in Described(md) |-> IF v = <<"a", 0>> THEN 2 ELSE 4]
      post == [v \in Described(md) |-> IF v \in {<<"p", 0>>, <<"d", 1>>} THEN 4 ELSE 1]
  IN  Linked(md, pre, post, TRUE)

\* struct a; struct e; struct y; struct q : virtual a {};
\* struct p : virtual a, virtual e {}; struct d : y, q, p {};
PadProgram ==
  LET md == ("a" :> Defined(<<Root>>)) @@
            ("e" :> Defined(<<Root>>)) @@
            ("y" :> Defined(<<Root>>)) @@
            ("q" :> Defined(<<From({<<"a", 0>>})>>)) @@
            ("p" :> Defined(<<From({<<"a", 0>>}), From({<<"e", 0>>})>>)) @@
            ("d" :> Defined(<<From({<<"y", 0>>}), From({<<"q", 0>>, <<"p", 0>>}),
                              From({<<"p", 0>>}), From({<<"p", 1>>})>>))
      pre == [v \in Described(md) |->
                CASE v[1] \in {"a", "e", "y"} -> 2
                  [] v \in {<<"q", 0>>, <<"d", 0>>, <<"d", 1>>} -> 4
                  [] v \in {<<"p", 0>>, <<"d", 2>>} -> 5
                  [] OTHER -> 3]
  IN  Linked(md, pre, [v \in Described(md) |-> 1], TRUE)

\* struct a { int x; }; struct b : a {}; struct c : a {};
\* struct d : virtual b, virtual c that overrides the function of a, and
\* struct e : d, if it is there: one thunk for all the vtables of b and c in d
\* and e reads the third entry in front of the address point.
TwoVirtualBases(classes) ==
  [x \in classes |->
     CASE x = "a" -> Defined(<<Root>>)
       [] x = "d" -> Defined(<<Root, From({<<"b", 0>>}), From({<<"c", 0>>})>>)
       [] x = "e" -> Defined(<<From({<<"d", 0>>}), From({<<"d", 1>>}), From({<<"d", 2>>})>>)
       [] OTHER   -> Defined(<<From({<<"a", 0>>})>>)]

\* The vtables of d and e but the primary ones hold the thunk.
Thunked(md, pre, post, interleave) ==
  [Linked(md, pre, post, interleave) EXCEPT !.thunks =
     {[offset |-> -3, in |-> {v \in Described(md) : v[1] \in {"d", "e"} /\ v[2] > 0}]}]

ThunkProgram(classes, interleave) ==
  LET md  == TwoVirtualBases(classes)
      pre == [v \in Described(md) |->
                CASE v[1] \notin {"d", "e"} -> 2 [] v[2] = 0 -> 4 [] OTHER -> 3]
  IN  Thunked(md, pre, [v \in Described(md) |-> 1], interleave)

\* struct a { int x; }; struct d : virtual a; struct e : d.
OneVirtualBase ==
  ("a" :> Defined(<<Root>>)) @@
  ("d" :> Defined(<<Root, From({<<"a", 0>>})>>)) @@
  ("e" :> Defined(<<From({<<"d", 0>>}), From({<<"d", 1>>})>>))

\* The same with a second virtual base, which has the same function and another
\* class derived from it.
TwoVirtualRoots ==
  ("a" :> Defined(<<Root>>)) @@
  ("b" :> Defined(<<Root>>)) @@
  ("c" :> Defined(<<From({<<"b", 0>>})>>)) @@
  ("d" :> Defined(<<Root, From({<<"a", 0>>}), From({<<"b", 0>>})>>))

==============================================================================
