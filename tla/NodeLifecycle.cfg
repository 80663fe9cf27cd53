SPECIFICATION Spec
CONSTANTS
  a = a
  b = b
  c = c
  d = d
  Nodes = {a, b, c, d}
  Preds <- MCPreds
  Policy <- MCPolicy
  Unverified <- MCUnverified
INVARIANTS
  DependenciesHold
PROPERTIES
  TerminalStable
\* A graph whose nodes are all over stays as it is.
CHECK_DEADLOCK FALSE
