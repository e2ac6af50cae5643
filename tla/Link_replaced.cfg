\* Another device takes the session over.
CONSTANTS
  Kinds = {"text", "evict"}
  MaxBacklog = 2
  MaxOut = 1
  MaxSent = 2
  Routes = {"ssh", "direct"}
  RetryBudget = 1
  MaxAsks = 0
SPECIFICATION Spec
PROPERTIES
  ReplacedStaysReplaced
CHECK_DEADLOCK FALSE
