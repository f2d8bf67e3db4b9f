SPECIFICATION Spec
CONSTANTS
  p = 23
  b = 15
  gx = 1
  gy = 6
  n = 17
  Bits = 5
  Requests <- MCRequests
INVARIANTS
  SecpTypeOK
  AccumulatorIsPrefix
  VerifiesByTheBook
CHECK_DEADLOCK FALSE
