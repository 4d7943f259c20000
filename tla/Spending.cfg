SPECIFICATION SpendingSpec
CONSTANTS
  Limit = 1
  Thresholds <- Progressive
  MaxCycles = 3
  MaxCalls = 3
  MaxDenials = 1
INVARIANTS UsageCoversCycle BudgetTellsSpend SpawnsWithinLimit
CHECK_DEADLOCK FALSE
