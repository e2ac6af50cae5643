\* One user three times, more than the queue or the cap takes; the daemon restarts once.
CONSTANTS
  a = a
  Main = Main
  None = None
  Uids = {a}
  Conns = {c1, c2, c3}
  UidOf <- OneUser
  Workers = {w1, w2}
  QueueCap = 1
  PerUid = 2
  MaxRestarts = 1
SPECIFICATION Spec
INVARIANTS
  TypeOK
  LatchExclusion
  NothingLeaked
  NoStrandedDesktop
  OwnSessionsRecorded
  ServedSessionsRecorded
PROPERTIES
  AdoptedLeftAlone
  StopAllStops
  ImplementsUserDesktop
SYMMETRY Symmetry
\* A daemon that has been told to stop is down for good after its restarts.
CHECK_DEADLOCK FALSE
