SPECIFICATION ServerSpec
CONSTANTS
  Client = {c1, c2}
  Name = {n1}
  Intent = {i1}
  MaxLoads = 2
  MaxRequests = 3
INVARIANT OneCyclePerRuntime
SYMMETRY Interchangeable
CHECK_DEADLOCK FALSE
