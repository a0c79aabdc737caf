SPECIFICATION EpsSpec
CONSTANTS
  Machines <- SessionMachines
  Starts <- SessionStarts
  Further = 12
INVARIANTS
  ClosureComplete
  AcceptanceFound
  MaskIsAdvanceable
PROPERTY Terminates
CHECK_DEADLOCK FALSE
