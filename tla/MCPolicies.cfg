CONSTANTS
  Class = {"a", "b", "c", "d", "e", "p", "q", "y"}
  NameRank <- MCNameRank
  Preorder <- MCPreorder
  Programs <- MCPrograms
SPECIFICATION Spec
INVARIANTS
  TypeOK
  SubHierarchiesExact
  ChildrenComeFirst
  TypesAllowLegalTargets
  LegalTargetsAllowed
  PoliciesNested
  SignaturesSeparate
  OutputsKept
PROPERTY Terminates
