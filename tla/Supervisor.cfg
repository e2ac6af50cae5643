\* The margin between the graces is one tick, so a late kill would show.
CONSTANTS
  StopGrace = 3
  ExitGrace = 4
SPECIFICATION FairSpec
INVARIANTS
  StopForwarded
  NoOrphan
  LeakExplained
PROPERTIES
  StopEnds
\* A supervisor that has gone, and its session, are done.
CHECK_DEADLOCK FALSE
