\* Clients that replace one another, leave, are too old or do not read.
CONSTANTS
  Clients = {1, 2}
  Old = {2}
  MaxRows = 2
  CaptureRows = 2
  Black = Black
  White = White
  Colours <- TwoColours
  DefaultRows = 1
  Floor = 1
  Cap = 2
  FrameIds = 4
  WriteQueue = 2
  StaleLimit = 1
  LeaveWithClient = FALSE
  MaxChanges = 1
  MaxResizes = 1
  MaxRequests = 0
  MaxFaults = 1
  MaxEvents = 3
SPECIFICATION Spec
INVARIANTS
  FlightAccounted
  NeverBroken
  RacesSurvived
  NobodyForgotten
CHECK_DEADLOCK FALSE
