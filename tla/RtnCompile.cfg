SPECIFICATION Spec
CONSTANT Grammars <- AllGrammars
INVARIANTS
  TypeOK
  Numbering
  TableIsNetwork
  ReturnsCompiled
  PhaseHomology
  KindOfMachine

