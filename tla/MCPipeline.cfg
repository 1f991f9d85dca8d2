CONSTANTS
  Class <- MCClass
  NameRank <- MCNameRank
  Renamed <- MCRenamed
  Programs <- MCPrograms
SPECIFICATION Spec
INVARIANTS
  TypeOK
  LinkedIsMetadata
  DeclaredHierarchyLinked
  AbortsExplained
  ResultsCurrent
  CodeMatchesTables
  DestructorsCallable
PROPERTIES
  Terminates
