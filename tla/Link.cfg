\* Two attempts and one the user asks for; a backlog of two messages; a text,
\* a frame larger than the backlog, and a desktop that ends.
CONSTANTS
  Kinds = {"text", "frame", "ended"}
  MaxBacklog = 2
  MaxOut = 1
  MaxSent = 3
  Routes = {"ssh", "direct"}
  RetryBudget = 2
  MaxAsks = 1
SPECIFICATION FairSpec
INVARIANTS
  SshOwned
  NoSleepOnMessages
PROPERTIES
  NobodyWaitsForever
CHECK_DEADLOCK FALSE
