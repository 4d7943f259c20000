SPECIFICATION FairSpec
CONSTANTS
  Names = {"a", "b"}
  Clients = {"c1"}
  Workers = 2
  MaxTasks = 2
  MaxTime = 1
  Work <- TimedWork
INVARIANTS
  TypeOK
  OneCyclePerInstance
  ReservationsOwned
  ReturnedRunIsQuiet
  OneShotAccounted
  FifoPerInstance
  NeverAheadOfSchedule
  SleepsOnlyWhenIdle
PROPERTIES
  FleetPromise
  PromptTaskStarts
  CancelEndsRun
