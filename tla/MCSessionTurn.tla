--------------------------- MODULE MCSessionTurn ---------------------------
(***************************************************************************)
(* Instances of SessionTurn: a session of two gateway processes, or of one *)
(* where the question is about a single process.                           *)
(***************************************************************************)
EXTENDS SessionTurn, TLC

CONSTANTS a, b, c, w1, w2

\* No input and no process is special.
Symmetry == Permutations(Inputs) \cup Permutations(Workers)
=============================================================================
