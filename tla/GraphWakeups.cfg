SPECIFICATION FairSpec
CONSTANTS
  a = a
  b = b
  c = c
  Nodes = {a, b, c}
  NoNode = NoNode
  Preds <- Join
  Policy <- Closing
  Unverified <- Nothing
  Tail <- Nothing
  Keying <- AskA
  Presenting = {}
  Conflicts <- ExcludeAB
  Outcomes <- AsksOrFails
  Resumable = {a, b, c}
  Deadlined = {}
  Faults = {}
  Commands = {"Approve", "ResolveExternal"}
  MaxActive = 3
  MaxCommands = 1
  MaxCrashes = 1
INVARIANTS
  ExclusiveExecution
  RunningIsOwned
  EntriesAreOwned
  DriverKeepsUp
PROPERTIES
  ReadyIsServed
  FinallyCloses
  Settles
\* The graph comes to rest, and nobody is obliged to send a command.
CHECK_DEADLOCK FALSE
