CONSTANTS
  Requests = {r1, r2}
  Uploads = {u1, u2}
  Cancels = {c1}
  Files = {f1}
  EventCap = 1
SPECIFICATION FairSpec
CHECK_DEADLOCK FALSE
PROPERTIES
  AcceptedIsSettled
  AbortIsTold
  EndIsTold
