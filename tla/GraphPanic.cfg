SPECIFICATION FairSpec
CONSTANTS
  a = a
  b = b
  c = c
  Nodes = {a, b, c}
  NoNode = NoNode
  Preds <- Nothing
  Policy <- AllOf
  Unverified <- Nothing
  Tail <- Nothing
  Keying <- ByNode
  Presenting = {}
  Conflicts <- ExcludeAB
  Outcomes <- Panics
  Resumable = {a, b, c}
  Deadlined = {}
  Faults = {}
  Commands = {}
  MaxActive = 3
  MaxCommands = 0
  MaxCrashes = 0
PROPERTIES
  ReadyIsServed
\* The graph comes to rest, and nobody is obliged to send a command.
CHECK_DEADLOCK FALSE
