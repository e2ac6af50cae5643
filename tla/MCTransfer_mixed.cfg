\* A budget of one chunk that a download and an image contend for, and one
\* thing that goes wrong anywhere.
CONSTANTS
  Transfers = {1, 2, 3}
  Sender <- MixedSender
  Asked = {1, 2}
  InMemory = {3}
  Size <- MixedSize
  Window = 1
  Budget = 1
  MaxIncoming = 2
  MaxActive = 2
  MaxMemory = 1
  MaxFaults = 1
SPECIFICATION FairSpec
INVARIANTS
  WindowsKept
  ChunksInOrder
  EndsAgree
  NobodyWaitsAlone
PROPERTIES
  ToldOnce
  EveryTransferEnds
CHECK_DEADLOCK FALSE
