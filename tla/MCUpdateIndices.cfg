CONSTANTS
  Class = {"a", "b", "c", "d", "e", "p", "q", "y"}
  NoCloud = "none"
  NameRank <- MCNameRank
  Preorder <- MCPreorder
  Programs <- MCPrograms
  WordSize = 512
SPECIFICATION LinkSpec
INVARIANTS
  LinkTypeOK
  LegalCallsDispatch
  LinkTimeAgrees
  PreciseNarrows
  CheckAdmitsSlots
PROPERTY LinkTerminates
