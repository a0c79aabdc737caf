SPECIFICATION Spec
CONSTANTS
  Graphs <- GraphsHere
  MachinesFor <- MachinesHere
INVARIANTS
  Topological
  NoneIffCyclic
  ReplayFollowsMask
