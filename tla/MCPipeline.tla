----------------------------- MODULE MCPipeline ------------------------------
(****************************************************************************)
(* Builds of one to three small translation units.                          *)
(****************************************************************************)
EXTENDS Pipeline

SourceClass == <<"a", "b", "c", "s">>

MCRenamed(c, t) == c \o "." \o ToString(t)

MCClass == ToSet(SourceClass) \cup {MCRenamed(c, t) : c \in ToSet(SourceClass), t \in 1 .. 3}
MCNameRank ==
  LET place(c) == CHOOSE i \in DOMAIN SourceClass : SourceClass[i] = c IN
  [n \in MCClass |->
     CHOOSE r \in 0 .. 15 : \E c \in ToSet(SourceClass) :
       \/ n = c /\ r = 4 * (place(c) - 1)
       \/ \E t \in 1 .. 3 : n = MCRenamed(c, t) /\ r = 4 * (place(c) - 1) + t]

Root        == [parents |-> {}, root |-> TRUE]
From(P)     == [parents |-> P, root |-> FALSE]
Defined(s)  == [subVTables |-> s, defined |-> TRUE]
Declared(s) == [subVTables |-> s, defined |-> FALSE]

External(md)    == [metadata |-> md, internal |-> {}]
Internal(md, I) == [metadata |-> md, internal |-> I]

\* b derives from a.
Pair(a, b) == ("a" :> a) @@ ("b" :> b)
Derived1   == <<From({<<"a", 0>>})>>
Base1      == <<Root>>

\* The base is defined by one unit, by all or by none; the derived class by all.
External2 ==
  {<<External(Pair(Declared(Base1), Defined(Derived1))),
     External(Pair(Defined(Base1), Defined(Derived1)))>>,
   <<External(Pair(Declared(Base1), Defined(Derived1))),
     External("a" :> Defined(Base1))>>}

\* Three units with a class each.
External3 ==
  {<<External("a" :> Defined(Base1)),
     External(Pair(Declared(Base1), Defined(Derived1))),
     External(("a" :> Declared(Base1)) @@ ("c" :> Defined(Derived1)))>>}

\* Two units with classes of the same internal names: the same hierarchy, one of
\* two bases beside one of one, the reverse one, and one over an external base.
Internal2 ==
  LET both == Internal(Pair(Defined(Base1), Defined(Derived1)), {"a", "b"})
      over == Internal(Pair(Declared(Base1), Defined(Derived1)), {"b"})
  IN  {<<both, both>>,
       <<over, over>>,
       <<Internal(Pair(Declared(Base1), Defined(Derived1)), {"a", "b"}),
         Internal(("b" :> Declared(Base1)) @@ ("a" :> Defined(<<From({<<"b", 0>>})>>)),
                  {"a", "b"})>>}

\* A second vtable for a second base; vtables of two clouds merged; a base of std.
TwoBases ==
  <<External(("a" :> Defined(Base1)) @@ ("b" :> Defined(Base1)) @@
             ("c" :> Defined(<<From({<<"a", 0>>}), From({<<"b", 0>>})>>)))>>
TwoClouds ==
  <<External(("a" :> Declared(Base1)) @@ ("b" :> Declared(Base1)) @@
             ("c" :> Defined(<<From({<<"a", 0>>, <<"b", 0>>})>>)))>>
FromStd ==
  <<External(("s" :> Declared(Base1)) @@ ("a" :> Defined(Base1)) @@
             ("b" :> Defined(<<From({<<"s", 0>>})>>)))>>

OneUnit == <<External(Pair(Defined(Base1), Defined(Derived1)))>>

\* A build with the given features, of the one unit and with a new layout unless
\* they say otherwise.
BuildOf(features) ==
  features @@
  [units |-> OneUnit, std |-> {"s"}, options |-> {"order"}, checks |-> TRUE, emit |-> TRUE,
   offsets |-> {"thisOffset"}, misfits |-> {}, called |-> {"a", "b"}, unused |-> {},
   slots |-> <<>>, destructors |-> <<>>]

\* Linked in any order, vtables unused or not.
MCLinked ==
  {BuildOf([units |-> units, unused |-> {"a", "a.1", "a.2"},
            options |-> {"order", "returnChecks"}]) : units \in External2 \cup Internal2}
  \cup {BuildOf([units |-> units]) : units \in External3 \cup {TwoBases, TwoClouds, FromStd}}

\* All options, and units compiled with more than the link makes use of.
MCOptions ==
  {p \in {BuildOf([options |-> options, checks |-> checks, emit |-> emit]) :
            options \in SUBSET Options, checks, emit \in BOOLEAN} :
     lays(p.options) => p.emit}

\* Covariant results, in thunks that are cloned and in others.
MCOffsets ==
  {BuildOf([options |-> {"interleave"}, offsets |-> {"thisOffset", "resultOffset"}])}
  \cup {BuildOf([options |-> options, offsets |-> Offsets]) :
          options \in {{}, {"order"}, {"interleave"}}}

\* b lacks an entry of a, which has a vtable or not.
MCMisfits ==
  {BuildOf([units |-> units, misfits |-> {"b"}]) :
     units \in {OneUnit, <<External(Pair(Declared(Base1), Defined(Derived1)))>>}}

\* The destructors in the vtables of a and b, some of a class with virtual bases,
\* some aliases.
DtorSlots == ("a" :> {<<"a", 0>>, <<"a", 1>>}) @@ ("b" :> {<<"b", 0>>, <<"b", 1>>, <<"a", 1>>})
MCDestructors ==
  {BuildOf([options |-> {"interleave"}, unused |-> {"b"}, slots |-> DtorSlots,
            destructors |-> (<<"a", 0>> :> "defined") @@ (<<"a", 1>> :> a1) @@ (<<"a", 2>> :> a2)
                         @@ (<<"b", 0>> :> b0) @@ (<<"b", 1>> :> b1) @@ (<<"b", 2>> :> b2)]) :
     a1, b1 \in {"defined", "declared", "alias"},
     a2, b2 \in {"defined", "takes VTT", "declared", "alias"},
     b0 \in {"declared", "alias of other"}}

MCPrograms == MCLinked \cup MCOptions \cup MCOffsets \cup MCMisfits \cup MCDestructors

==============================================================================
