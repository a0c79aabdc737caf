SPECIFICATION Spec
CONSTANTS
  Machines <- SampleOf
  Calls <- CallsOf
INVARIANTS
  ReachIsSessions
  RelationIsWalk
  ComposeExact
  PartitionExact
