CONSTANTS
  Sessions = {r1, r2}
  Files = {f1, f2}
  MaxOffer = 2
SPECIFICATION Spec
SYMMETRY Symmetry
CHECK_DEADLOCK FALSE
INVARIANTS
  NothingWrittenUnasked
  DecisionIsReachable
  ReceivedIsSaved
  UploadIsAnswered
  EndIsShown
PROPERTIES
  SlotSpec
