SPECIFICATION Spec
CONSTANTS
  M = 31
  A = 17
  Limits = {1, 7, 10}
  MaxLogs = {0, 3, 4}
INVARIANTS
  SeedInRange
  CyclesThroughAll
  DrawsInRange
PROPERTY ComputesModulo
CHECK_DEADLOCK FALSE
