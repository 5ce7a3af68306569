SPECIFICATION Spec
CONSTANTS
  Null = Null
  Elements = {e1, e2, e3, e4}
INVARIANTS
  CycleTypeOK
  NoDuplicates
  HistoryIsLive
PROPERTIES
  MovesAreRecorded
  FocusHistorySpec
