----------------------------- MODULE MCPolicies ------------------------------
(****************************************************************************)
(* Programs for the policy analysis: small hierarchies, with the functions  *)
(* that the classes declare put into their vtables the way C++ does, and    *)
(* calls of every virtual function.                                         *)
(****************************************************************************)
EXTENDS Policies, SmallHierarchies

\* The names in the slots of a vtable: those of a parent, and behind them, in the
\* primary vtable, what the class declares and its primary base does not have.
Slots(md, declares) ==
  LET slots[v \in Described(md)] ==
        LET inherited == IF Parents(md, v) = {} THEN <<>>
                         ELSE CHOOSE s \in {slots[p] : p \in Parents(md, v)} :
                                \A p \in Parents(md, v) : Len(slots[p]) <= Len(s)
            new == IF v[2] # 0 THEN <<>>
                   ELSE SelectSeq(declares[v[1]], LAMBDA m : m \notin ToSet(inherited))
        IN  inherited \o new
  IN  slots

\* The function in every slot: the one of the class, or else the one that a parent
\* has there; of two parents, that of the class more derived, which comes later in
\* name order in the hierarchies below.
Entries(md, declares) ==
  LET slots == Slots(md, declares)
      entry[v \in Described(md)] ==
        [k \in DOMAIN slots[v] |->
           IF slots[v][k] = "~" THEN NoName
           ELSE IF slots[v][k] \in ToSet(declares[v[1]]) THEN <<v[1], slots[v][k]>>
           ELSE LET above == {entry[p][k] : p \in {p \in Parents(md, v) :
                                                     k \in DOMAIN slots[p]}}
                IN  CHOOSE f \in above : \A g \in above : NameLeq(g[1], f[1])]
  IN  entry

\* The types by the names of the functions; "~" is the destructor.
this == <<"ptr", "struct">>
Type(ret, params) == [ret |-> ret, params |-> params]
TypeOf ==
  [f |-> Type(<<"void">>, <<this>>),
   g |-> Type(<<"i32">>,  <<this, <<"i32">>>>),
   h |-> Type(<<"ptr", "i8">>, <<this, <<"i32">>>>),
   k |-> Type(<<"void">>, <<this, <<"i8">>, <<"i8">>, <<"i8">>, <<"i8">>, <<"i8">>,
                            <<"i8">>, <<"i8">>>>),
   main |-> Type(<<"i32">>, <<>>),
   less |-> Type(<<"i32">>, <<<<"ptr", "ptr", "i8">>, <<"ptr", "float">>>>),
   more |-> Type(<<"i32">>, <<<<"ptr", "float">>, <<"ptr", "ptr", "i8">>>>),
   wide |-> Type(<<"i8">>,  [i \in 1 .. 9 |-> <<"i64">>]),
   new  |-> Type(<<"ptr", "i8">>, <<<<"i64">>>>)]

Free == {<<"", m>> : m \in {"main", "less", "more", "wide", "new"}}

\* A call per class and function declared there, and a call site for each; before
\* them the sites of calls that are not virtual.
WithCalls(md, declares, pre, free, thunks, pointers, dir) ==
  LET entry  == Entries(md, declares)
      post   == [v \in Described(md) |-> Len(entry[v])]
      own    == {x \in Described(md) \X (1 .. 4) :
                   /\ x[1][2] = 0 /\ x[2] \in DOMAIN entry[x[1]]
                   /\ entry[x[1]][x[2]][1] = x[1][1]}
      order  == FoldSet(LAMBDA x, s : Append(s, x), <<>>, own)
      bodies == UNION {ToSet(entry[v]) : v \in Described(md)} \ {NoName}
  IN  [metadata    |-> md,
       region      |-> Regions(md, pre, post),
       entry       |-> entry,
       functions   |-> [x \in bodies \cup free \cup thunks |-> TypeOf[x[2]]],
       blacklisted |-> {<<"", "new">>} \cap free,
       sites       |-> pointers \o [i \in DOMAIN order |->
                                      TypeOf[entry[order[i][1]][order[i][2]][2]]],
       calls       |-> [i \in DOMAIN order |->
                          [function |-> entry[order[i][1]][order[i][2]],
                           class    |-> order[i][1][1],
                           index    |-> order[i][2] - 1,
                           site     |-> Len(pointers) + i]],
       dir         |-> dir]

Program(md, declares, pre) ==
  WithCalls(md, declares, pre, {}, {}, <<>>, EmptyMap)

Two(md) == [v \in Described(md) |-> 2]

\* Every class declares what its base declares, and one function of its own, or
\* none.
Declares(md, base, rest) == [c \in DOMAIN md |-> IF c = "a" THEN base ELSE rest]

SingleBase ==
  {Program(md, Declares(md, <<"f", "~", "g">>, rest), Two(md)) :
     md   \in {Chain} \cup {Fork(base, middle) :
               base   \in {Defined(<<Root>>), Declared(<<Root>>)},
               middle \in {Defined(<<From({<<"a", 0>>})>>),
                           Declared(<<From({<<"a", 0>>})>>)}},
     rest \in {<<>>, <<"f">>, <<"g", "h">>}}

\* struct a { f, g }; struct b { h }; struct c : b, a, which overrides functions of
\* both, so that f has a slot in each of its vtables; perhaps struct d : c.
TwoBasesBelow ==
  TwoBases @@ ("d" :> Defined(<<From({<<"c", 0>>}), From({<<"c", 1>>})>>))

SeveralBases ==
  {Program(md, [x \in DOMAIN md |-> CASE x = "a" -> <<"f", "g">>
                                      [] x = "b" -> <<"h">>
                                      [] x = "c" -> overriding
                                      [] OTHER   -> <<"f">>], Two(md)) :
     md \in {TwoBases, TwoBasesBelow}, overriding \in {<<>>, <<"f">>, <<"h", "f">>}}

\* struct a; struct b : a; struct c : a; struct d : b, c.
Diamond ==
  ("a" :> Defined(<<Root>>)) @@
  ("b" :> Defined(<<From({<<"a", 0>>})>>)) @@
  ("c" :> Defined(<<From({<<"a", 0>>})>>)) @@
  ("d" :> Defined(<<From({<<"b", 0>>}), From({<<"c", 0>>})>>))

\* The same, and a class p that has d and another root y for bases.
DiamondBelow ==
  Diamond @@ ("y" :> Defined(<<Root>>)) @@
  ("p" :> Defined(<<From({<<"d", 0>>}), From({<<"d", 1>>}), From({<<"y", 0>>})>>))

Diamonds ==
  {Program(md, Declares(md, <<"f">>, rest), pre) :
     md \in {Diamond}, rest \in {<<>>, <<"f">>, <<"g">>}, pre \in {Two(Diamond)}}
    \cup {Program(DiamondBelow, Declares(DiamondBelow, <<"f">>, <<"f">>), Two(DiamondBelow))}
    \cup {Program(md, Declares(md, <<"f">>, rest),
                  [v \in Described(md) |-> IF v = <<"a", 0>> THEN 2 ELSE n]) :
            md \in {VirtualPrimaryDiamond, DeclaredDiamond},
            rest \in {<<>>, <<"f">>}, n \in {2, 4}}

\* The functions that are no methods, calls through pointers, what earlier links
\* left (in pairs, or one file of a pair removed), and two virtual calls that are found at one site or at none.
Earlier(numbers) ==
  [x \in {"Virtual", "Indirect"} \X numbers |-> IF x[2] = 0 THEN "first" ELSE "later"]

Directories ==
  {EmptyMap, Earlier({0}), Earlier({0, 1}), Earlier({0, 2}),
   <<"Virtual", 0>> :> "empty", <<"Indirect", 0>> :> "empty",
   Earlier({0}) @@ (<<"Virtual", 1>> :> "empty"),
   Earlier({0}) @@ (<<"Indirect", 1>> :> "empty"),
   Earlier({0}) @@ (<<"Indirect", 1>> :> "later"),
   Earlier({0, 1}) @@ (<<"Indirect", 3>> :> "later"),
   (<<"Indirect", 0>> :> "first") @@ (<<"Virtual", 2>> :> "later")}

Linking(dir) ==
  WithCalls(Chain, Declares(Chain, <<"f", "k">>, <<"f">>), Two(Chain), Free,
            {<<"b", "f", "thunk">>}, <<TypeOf.less, TypeOf.wide>>, dir)

Linkings ==
  {Linking(dir) : dir \in Directories}
    \cup {[Linking(EmptyMap) EXCEPT !.calls[1].site = 0]}
    \cup {WithCalls(EmptyMap, EmptyMap, EmptyMap, Free, {}, <<>>, Earlier({0}))}

MCPrograms == SingleBase \cup SeveralBases \cup Diamonds \cup Linkings

==============================================================================
