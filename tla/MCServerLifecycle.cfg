SPECIFICATION FairSpec
CONSTANTS
  Users = {u1, u2}
  Watchdog = w
  Servers = {s1, s2, s3}
  Conns = {k1}
  None = None
INVARIANTS NoServerIsLost ShownIsServed
PROPERTY ReceptionIsRepaired
