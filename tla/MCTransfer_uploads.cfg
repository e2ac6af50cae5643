\* Three uploads with a global window that two of them fill.
CONSTANTS
  Transfers = {1, 2, 3}
  Sender <- UploadSender
  Asked = {}
  InMemory = {}
  Size <- UploadSize
  Window = 1
  Budget = 2
  MaxIncoming = 3
  MaxActive = 3
  MaxMemory = 1
  MaxFaults = 2
SPECIFICATION FairSpec
PROPERTIES
  EveryTransferEnds
CHECK_DEADLOCK FALSE
