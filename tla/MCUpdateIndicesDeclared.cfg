CONSTANTS
  Class = {"a", "b", "c", "d", "e", "p", "q", "y"}
  NoCloud = "none"
  NameRank <- MCNameRank
  Preorder <- MCPreorder
  Programs <- MCDeclared
  WordSize = 512
SPECIFICATION LinkSpec
INVARIANT IndicesTranslate
