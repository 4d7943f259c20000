SPECIFICATION FairDrainSpec
CONSTANTS
  Names = {"a", "b"}
  Clients = {"c1"}
  Workers = 2
  MaxTasks = 3
  MaxTime = 1
  MaxUnits = 2
  Work <- DrainWork
INVARIANTS
  UnitsBounded
  DrainLeavesNothing
PROPERTY
  DrainReturns
CHECK_DEADLOCK FALSE
