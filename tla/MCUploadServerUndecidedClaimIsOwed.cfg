CONSTANTS
  Requests = {r1, r2}
  Uploads = {u1}
  Cancels = {c1}
  Files = {f1, f2}
  EventCap = 1
SPECIFICATION Spec
CHECK_DEADLOCK FALSE
INVARIANT UndecidedClaimIsOwed
