SPECIFICATION Spec
CONSTANTS
  Grammars <- Sample
  Words <- WordsUpTo3
INVARIANTS
  ItemsDerive
  MaskNamesNext
CHECK_DEADLOCK FALSE
