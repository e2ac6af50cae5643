\* Two launchers, one after the other or at once, on every kind of installation.
CONSTANTS
  Launchers = {1, 2}
  Shapes = {"binary", "bundle", "volume", "exe", "installer"}
  Listings <- OneRelease
  MaxSessions = 1
  MaxFaults = 1
SPECIFICATION FairSpec
INVARIANTS
  AloneKeepsABuild
  SweptIsInPlace
PROPERTIES
  OutcomeTrue
  BusyEnds
CHECK_DEADLOCK FALSE
