SPECIFICATION DeliberationSpec
CONSTANTS
  Call = {c1, c2}
  Persona = {"ann", "bob", "eve"}
  Plans <- SmallPlans
  ToolPolicies <- TwoToolPolicies
  MaxIterations = 4
  MaxToolRecoveries = 2
  TurnToolBudget = 1
  Backoffs = 1
  Rounds = 2
  MaxTurns = 3
  MaxRankings = 1
  MaxFaults = 2
SYMMETRY CallSymmetry
INVARIANTS FailedCallNotRepeated FactsOnTrail WorkBounded TableIsHeard
