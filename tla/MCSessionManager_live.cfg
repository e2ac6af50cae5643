\* Fairness, so no symmetry; one incarnation of the daemon.
CONSTANTS
  a = a
  Main = Main
  None = None
  Uids = {a}
  Conns = {c1, c2, c3}
  UidOf <- OneUser
  Workers = {w1, w2}
  QueueCap = 1
  PerUid = 2
  MaxRestarts = 0
SPECIFICATION FairSpec
PROPERTIES
  EveryClientAnswered
  ShutdownEnds
CHECK_DEADLOCK FALSE
