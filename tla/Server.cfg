SPECIFICATION FairServerSpec
CONSTANTS
  Client = {c1, c2}
  Name = {n1, n2}
  Intent = {i1, i2}
  MaxLoads = 2
  MaxRequests = 4
INVARIANT ParkedStaysApprovable
PROPERTIES StoppedServerReturns
CHECK_DEADLOCK FALSE
