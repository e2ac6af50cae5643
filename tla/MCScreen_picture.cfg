\* One client, a screen of three rows and a session that resizes it, under a fair core.
CONSTANTS
  Clients = {1}
  Old = {}
  MaxRows = 3
  CaptureRows = 3
  Black = Black
  White = White
  Colours <- TwoColours
  DefaultRows = 2
  Floor = 1
  Cap = 2
  FrameIds = 4
  WriteQueue = 2
  StaleLimit = 0
  LeaveWithClient = TRUE
  MaxChanges = 2
  MaxResizes = 1
  MaxRequests = 1
  MaxFaults = 0
  MaxEvents = 3
SPECIFICATION FairSpec
INVARIANTS
  ReferenceIsShown
  NothingMissed
PROPERTIES
  Converges
CHECK_DEADLOCK FALSE
