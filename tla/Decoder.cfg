SPECIFICATION Spec
CONSTANTS
  Grammars <- Productive
  MaxDraft = 5
INVARIANTS
  RunIsForced
  StacklessMasks
  MaskExact
  EndAnswer
PROPERTY StopsOutsideMask
CHECK_DEADLOCK FALSE
