SPECIFICATION TrailSpec
CONSTANTS
  Session = {s1, s2}
  FaultKind <- AnyFault
  MaxFaults = 2
  MaxRecords = 4
  MaxOpens = 3
SYMMETRY Interchangeable
INVARIANTS ChainContinues EditsShow CyclesNeverRepeat ReadsBackExactly
CHECK_DEADLOCK FALSE
