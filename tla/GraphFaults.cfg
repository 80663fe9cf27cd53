SPECIFICATION Spec
CONSTANTS
  a = a
  b = b
  c = c
  Nodes = {a, b, c}
  NoNode = NoNode
  Preds <- Join
  Policy <- OneOfTwo
  Unverified <- WeakB
  Tail <- OptionalB
  Keying <- LeafB
  Presenting = {a}
  Conflicts <- ExcludeAB
  Outcomes <- AnyAnswer
  Resumable = {a, b, c}
  Deadlined = {b}
  Faults = {"resource", "start", "hook", "unavailable", "cancel"}
  Commands = {"Pause"}
  MaxActive = 2
  MaxCommands = 1
  MaxCrashes = 1
INVARIANTS
  TypeOK
  EffectAtMostOnce
PROPERTIES
  ImplementsLifecycle
  TailAfterQuorum
\* The graph comes to rest, and nobody is obliged to send a command.
CHECK_DEADLOCK FALSE
