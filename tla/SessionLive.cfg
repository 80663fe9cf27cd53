SPECIFICATION FairSpec
CONSTANTS
  a = a
  b = b
  c = c
  w1 = w1
  w2 = w2
  NoInput = NoInput
  Nobody = Nobody
  Inputs = {a, b}
  Workers = {w1}
  MaxAttempts = 2
  Mishaps = {"turn", "dead", "late", "timeout", "store", "stall", "crash", "reclassify", "close"}
  MaxMishaps = 1
  MaxClaims = 5
PROPERTIES
  InputsAreServed
  TerminalsAreDelivered
  HeldIsMaterialized
CHECK_DEADLOCK FALSE
