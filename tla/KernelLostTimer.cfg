SPECIFICATION FairSpec
CONSTANTS
  Names = {"a"}
  Clients = {"c1"}
  Workers = 1
  MaxTasks = 1
  MaxTime = 2
  Work <- DeferredWork
PROPERTIES
  DueTaskStarts
