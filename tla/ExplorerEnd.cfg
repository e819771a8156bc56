SPECIFICATION Spec
CONSTANTS
  Families = {f1, f2}
  Bindings = {b}
  FamilyTTL = 3
  Keep = 1
  MaxClock = 5
  NoRecord = NoRecord
  NoFamily = NoFamily
CHECK_DEADLOCK FALSE
INVARIANTS
  UseKeepsApproval
