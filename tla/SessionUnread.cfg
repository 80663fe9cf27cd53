SPECIFICATION Spec
CONSTANTS
  a = a
  b = b
  c = c
  w1 = w1
  w2 = w2
  NoInput = NoInput
  Nobody = Nobody
  Inputs = {a, b, c}
  Workers = {w1}
  MaxAttempts = 1
  Mishaps = {}
  MaxMishaps = 0
  MaxClaims = 1
INVARIANTS
  SupplementedWasRead
CHECK_DEADLOCK FALSE
