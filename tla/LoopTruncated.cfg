SPECIFICATION Spec
CONSTANTS
  Grammars <- RightRecursiveOnly
  MaxDraft = 9
INVARIANT LoopPreserved
CHECK_DEADLOCK FALSE
