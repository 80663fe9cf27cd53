-------------------------- MODULE MCNodeLifecycle --------------------------
EXTENDS NodeLifecycle

CONSTANTS a, b, c, d

\* b follows a but waits for none of its predecessors, c needs one of a and b and
\* d any of them; the result of b lacks the evidence that c and d require.
MCPreds      == [n \in Nodes |-> IF n \in {c, d} THEN {a, b} ELSE IF n = b THEN {a} ELSE {}]
MCPolicy     == [n \in Nodes |-> CASE n = a -> [mode |-> "All"]
                                   [] n = b -> [mode |-> "Quorum", minimum |-> 0]
                                   [] n = c -> [mode |-> "Quorum", minimum |-> 1]
                                   [] n = d -> [mode |-> "Any"]]
MCUnverified == [n \in Nodes |-> IF n \in {c, d} THEN {b} ELSE {}]
=============================================================================
