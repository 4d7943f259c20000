SPECIFICATION FairMcpSpec
CONSTANTS
  Opener = opener
  Caller = {c1, c2}
  MaxRequests = 4
  MaxFrames = 3
INVARIANTS AnswerIsOwn EndReleasesWaiters FailedConnectLeavesNothing
PROPERTIES EveryWaitEnds
CHECK_DEADLOCK FALSE
