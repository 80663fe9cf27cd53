SPECIFICATION Spec
CONSTANTS
  a = a
  b = b
  c = c
  w1 = w1
  w2 = w2
  NoInput = NoInput
  Nobody = Nobody
  Inputs = {a, b}
  Workers = {w1, w2}
  MaxAttempts = 2
  Mishaps = {"turn", "dead", "corrupt", "late", "timeout", "store", "stall", "crash", "cancel", "retry", "reclassify", "redeliver", "advance", "close"}
  MaxMishaps = 1
  MaxClaims = 2
SYMMETRY Symmetry
INVARIANTS
  TypeOK
  OneClaim
  AnswerIsCompletion
  MaterializedIsHeld
  NoneLeftAttached
PROPERTIES
  KeepsPromise
  AdoptionNeverRegresses
  HeardIsSettled
CHECK_DEADLOCK FALSE
