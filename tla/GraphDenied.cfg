SPECIFICATION FairSpec
CONSTANTS
  a = a
  b = b
  c = c
  Nodes = {a, b, c}
  NoNode = NoNode
  Preds <- Join
  Policy <- Closing
  Unverified <- Nothing
  Tail <- Nothing
  Keying <- AskA
  Presenting = {}
  Conflicts <- Nothing
  Outcomes <- Asks
  Resumable = {a, b, c}
  Deadlined = {}
  Faults = {}
  Commands = {"Deny"}
  MaxActive = 3
  MaxCommands = 1
  MaxCrashes = 0
PROPERTIES
  FinallyCloses
\* The graph comes to rest, and nobody is obliged to send a command.
CHECK_DEADLOCK FALSE
