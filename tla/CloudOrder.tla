----------------------------- MODULE CloudOrder ------------------------------
(****************************************************************************)
(* SDBuildCHA::preorder: the order in which every pass goes through a cloud *)
(* (SafeDispatchCHA.cpp).  CHA.tla walks in the same order one call at a    *)
(* time; here the walk is a function, for the passes that use its result.   *)
(****************************************************************************)
EXTENDS Hierarchy, SequencesExt

\* The vtables of S as a std::set iterates over them.
InOrder(S) == SetToSortSeq(S, VTableLeq)

\* The depth-first walk from v: the calls still to make, and the nodes so far.
DepthFirst(md, v) ==
  LET from[agenda \in Seq(VTable), nodes \in Seq(VTable)] ==
        IF agenda = <<>> THEN nodes
        ELSE IF Contains(nodes, Head(agenda))
        THEN from[Tail(agenda), nodes]
        ELSE from[InOrder(Children(md, Head(agenda))) \o Tail(agenda),
                  Append(nodes, Head(agenda))]
  IN  from[<<v>>, <<>>]

==============================================================================
