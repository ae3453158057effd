CONSTANTS
  Stores = {s1, s2}
  MaxAppends = 2
  s1 = s1
  s2 = s2
SPECIFICATION PatientSpec
INVARIANTS
  OneBackend
CHECK_DEADLOCK FALSE
