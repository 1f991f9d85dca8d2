CONSTANTS
  Class = {"a", "b", "c", "d", "e", "p", "q", "y"}
  NoCloud = "none"
  NameRank <- MCNameRank
  Preorder <- MCPreorder
  Programs <- MCPrograms
SPECIFICATION Spec
INVARIANTS
  TypeOK
  EntriesKept
  VptrOnAddressPoint
  DispatchFindsEntry
  ThunksFindOffset
  OnlyDescendantsAdmitted
  InterleavedRangesExact
  OnlyMisfitsAbort
PROPERTY Terminates
