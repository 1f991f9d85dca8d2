CONSTANTS
  Class = {"a", "b", "c", "d", "x"}
  NoClass = "none"
  NameRank <- MCNameRank
  Metadata <- MCMetadata
SPECIFICATION Spec
INVARIANTS
  TypeOK
  UndefinedTracked
  CloudMirrorsParents
  FirstRootClaims
  LayoutClassIsAncestor
  CloudSizeExact
PROPERTIES
  Terminates
  ImplementsForest
