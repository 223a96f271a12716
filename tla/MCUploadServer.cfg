CONSTANTS
  Requests = {r1, r2}
  Uploads = {u1, u2}
  Cancels = {c1}
  Files = {f1, f2}
  EventCap = 2
SPECIFICATION Spec
SYMMETRY Symmetry
CHECK_DEADLOCK FALSE
INVARIANTS
  OneWriterPerFile
  
  ToldOnce
  ReplacedIsToldFirst
PROPERTIES
  NoTakeoverMidTransfer
  SlotSpec
