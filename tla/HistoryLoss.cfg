SPECIFICATION Spec
CONSTANTS
  Sources = {a, b}
  StateOf <- OneState
  Values = {on, off}
  Retention = 5
  MaxRecords = 3
  Batch = 1
  NoValue = NoValue
  MaxTime = 6
  MaxFaults = 1
CHECK_DEADLOCK FALSE
INVARIANT
  CoverageIsCapture
