------------------------------ MODULE MCLayout -------------------------------
(****************************************************************************)
(* Programs for the model checker: small hierarchies with every region the  *)
(* front end may give their vtables, both ways to lay them out.             *)
(****************************************************************************)
EXTENDS Layout, SmallHierarchies

\* Every region in these bounds.
LaidOut(md, pres, posts) ==
  {p \in {Linked(md, pre, post, i) :
            pre \in [Described(md) -> pres], post \in [Described(md) -> posts],
            i \in BOOLEAN} :
     IsProgram(p)}

MCGap      == {GapProgram}
MCDispatch == {DispatchProgram}
MCMisfit   == {MisfitProgram}
MCPad      == {PadProgram}

MCThunk    == {ThunkProgram({"a", "b", "c", "d"}, TRUE)}

\* Thunks in up to two clouds, with every size of the vtables behind the address
\* points.
WithThunks(md, posts) ==
  LET pre == [v \in Described(md) |->
                CASE v[1] \notin {"d", "e"} -> 2
                  [] v[2] = 0 -> 2 + Len(md["d"].subVTables) - 1
                  [] OTHER -> 3]
  IN  {p \in {Thunked(md, pre, post, i) : post \in [Described(md) -> posts], i \in BOOLEAN} :
         IsProgram(p)}

MCPrograms ==
  LaidOut(Chain, {2, 3}, {1, 2, 3})
    \cup UNION {LaidOut(Fork(base, middle), {2, 3}, {1, 2}) :
                  base   \in {Defined(<<Root>>), Declared(<<Root>>)},
                  middle \in {Defined(<<From({<<"a", 0>>})>>),
                              Declared(<<From({<<"a", 0>>})>>)}}
    \cup LaidOut(TwoBases, {2, 3}, {1, 2})
    \cup LaidOut(VirtualPrimaryDiamond, {2, 3}, {1, 2})
    \cup LaidOut(DeclaredDiamond, {2}, {1, 2, 3})
    \cup WithThunks(OneVirtualBase, {1, 2}) \cup WithThunks(TwoVirtualRoots, {1, 2})
    \cup {ThunkProgram({"a", "b", "c", "d", "e"}, i) : i \in BOOLEAN}
    \cup {BetweenProgram, PaddedBaseProgram, PaddedRangeProgram}
    \cup MCThunk \cup MCGap \cup MCDispatch \cup MCMisfit \cup MCPad

==============================================================================
