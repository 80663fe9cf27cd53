SPECIFICATION OverlapSpec
CONSTANTS
  a = a
  b = b
  w1 = w1
  w2 = w2
  NoInput = NoInput
  Nobody = Nobody
  Inputs = {a, b}
  Workers = {w1, w2}
  MaxAttempts = 2
  MaxScans = 2
INVARIANTS
  OneHeadClaimed
CHECK_DEADLOCK FALSE
