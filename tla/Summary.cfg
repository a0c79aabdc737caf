SPECIFICATION Spec
CONSTANTS
  Machines <- Sample
  Bounds = {1, 3}
  Budgets = {0, 1, 2}
INVARIANTS
  DistanceIsAPath
  ViableCanEnd
  NeverTooFar
  PanicsIffDeeper
CHECK_DEADLOCK FALSE
