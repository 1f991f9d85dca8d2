CONSTANTS
  Class = {"a", "b", "c", "d", "e", "p", "q", "y"}
  NoCloud = "none"
  NameRank <- MCNameRank
  Preorder <- MCPreorder
  Programs <- MCDispatch
SPECIFICATION Spec
INVARIANT SameOffsetsEverywhere
