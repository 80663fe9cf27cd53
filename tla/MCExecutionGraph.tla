-------------------------- MODULE MCExecutionGraph --------------------------
(***************************************************************************)
(* Small graphs for TLC.                                                   *)
(***************************************************************************)
EXTENDS ExecutionGraph

CONSTANTS a, b, c

Nothing == [n \in Nodes |-> {}]

\* c waits for a and b.
Join     == [n \in Nodes |-> IF n = c THEN {a, b} ELSE {}]
\* b waits for a, c for nobody.
Chain    == [n \in Nodes |-> IF n = b THEN {a} ELSE {}]

AllOf    == [n \in Nodes |-> [mode |-> "All"]]
AnyForB  == [n \in Nodes |-> [mode |-> IF n = b THEN "Any" ELSE "All"]]
Closing  == [n \in Nodes |-> [mode |-> IF n = c THEN "Finally" ELSE "All"]]
OneOfTwo == [n \in Nodes |-> IF n = c THEN [mode |-> "Quorum", minimum |-> 1] ELSE [mode |-> "All"]]

\* b is optional work of c's group.
OptionalB == [n \in Nodes |-> IF n = c THEN {b} ELSE {}]
\* a and b write the same scope.
ExcludeAB == [n \in Nodes |-> IF n = a THEN {b} ELSE IF n = b THEN {a} ELSE {}]
\* The result of b lacks evidence that c requires.
WeakB     == [n \in Nodes |-> IF n = c THEN {b} ELSE {}]

ByNode   == [n \in Nodes |-> "node"]
LeafB    == [n \in Nodes |-> IF n = b THEN "leaf" ELSE "node"]
AskA     == [n \in Nodes |-> IF n = a THEN "attempt" ELSE "node"]

Succeeds  == [n \in Nodes |-> {"Completed"}]
AnyAnswer == [n \in Nodes |-> IF n = a THEN {"Completed", "Failed", "error", "panic", "illegal"}
                              ELSE {"Completed", "error"}]
Asks      == [n \in Nodes |-> IF n = a THEN {"WaitingApproval", "Completed"}
                              ELSE IF n = b THEN {"WaitingExternal", "Completed"} ELSE {"Completed"}]
AsksOrFails == [n \in Nodes |-> IF n = a THEN {"WaitingApproval", "error"}
                                ELSE IF n = b THEN {"WaitingExternal"} ELSE {"Completed"}]
Panics    == [n \in Nodes |-> IF n = a THEN {"panic"} ELSE {"Completed"}]
=============================================================================
