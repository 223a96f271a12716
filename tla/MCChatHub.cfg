SPECIFICATION FairSpec
CONSTANTS
  Conns = {c1}
  Peers = {p1}
  Sends = {s1, s2}
  MaxPerPeer = 1
  MaxTotal = 1
  OutCap = 1
  EventCap = 1
INVARIANTS EventOrder CloseFlushes
PROPERTIES EndIsTold IdleIsNoticed SendReturns
CHECK_DEADLOCK FALSE
