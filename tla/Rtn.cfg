SPECIFICATION Spec
CONSTANTS
  Grammars <- WellFormed
  MaxStack = 6
  MaxInput = 5
INVARIANTS
  TypeOK
  CallsMatch
  ReadsOfGrammar
PROPERTIES
  AcceptingIsFinal
  IsLeftmost
CHECK_DEADLOCK FALSE
