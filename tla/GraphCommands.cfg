SPECIFICATION Spec
CONSTANTS
  a = a
  b = b
  c = c
  Nodes = {a, b}
  NoNode = NoNode
  Preds <- Chain
  Policy <- AnyForB
  Unverified <- Nothing
  Tail <- Nothing
  Keying <- AskA
  Presenting = {b}
  Conflicts <- Nothing
  Outcomes <- Asks
  Resumable = {a, b}
  Deadlined = {}
  Faults = {"resource", "hook"}
  Commands = {"Pause", "Cancel", "Resume", "Approve", "Deny", "ResolveExternal"}
  MaxActive = 2
  MaxCommands = 3
  MaxCrashes = 1
INVARIANTS
  EffectAtMostOnce
  ReceiptConfirms
PROPERTIES
  ImplementsLifecycle
\* The graph comes to rest, and nobody is obliged to send a command.
CHECK_DEADLOCK FALSE
