SPECIFICATION Spec
CONSTANTS
  Machines <- OfMissingPart
  Bounds = {2}
  Budgets = {2}
INVARIANT ProvenIsReachable
CHECK_DEADLOCK FALSE
