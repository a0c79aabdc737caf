SPECIFICATION Spec
CONSTANTS
  Grammars <- Sample
  Machines <- EndingMachines
  GrammarWords <- WordsUpTo3
  MachineWords <- WordsUpTo4
INVARIANTS
  PathDecides
  DecidesMembership
PROPERTY Returns
CHECK_DEADLOCK FALSE
