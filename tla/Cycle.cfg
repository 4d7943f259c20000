SPECIFICATION CycleSpec
CONSTANTS
  Policy <- AllPolicies
  Process <- AllProcesses
  Workflow <- AllWorkflows
  Person <- AnnOrBob
  RuntimePolicies <- OneRuntimePolicy
  WorkflowsOf <- OneWorkflowEach
  PoliciesOf <- AssessGoverned
  ApprovalRequired <- LimitWaivable
  Approvers <- AnnMayWaiveLimit
  Capacity = 1
  AdaptEvery = 2
  RetentionDays = 1
  MaxCycles = 2
  MaxDays = 2
  MaxCrashes = 1
  MaxSaveFaults = 1
INVARIANTS GovernedDeliberation AccountedOnce TrailTellsOutcome
  WindowIsWhole MemoryFaithful RestartResumesWarm MonitorMissesNothing
CHECK_DEADLOCK FALSE
