------------------------- MODULE SessionTranscript -------------------------
(***************************************************************************)
(* What a session promises of its inputs, whoever executes them: an input  *)
(* is accepted into the current generation, and leaves it in one of three  *)
(* ways, for good.  It is answered by a turn of its own, it is applied to  *)
(* the turn of another input, or it is closed without an answer.  The      *)
(* transcript is the sequence of the answers.                              *)
(*                                                                         *)
(* The promise is the one the doc comments of                              *)
(* crates/session-postgres/src/terminal.rs and                             *)
(* crates/gateway/src/runtime/session_runtime_bridge.rs make.              *)
(***************************************************************************)
EXTENDS Integers, Sequences

CONSTANT Inputs

VARIABLES
    generation,   \* the generation inputs are admitted to
    open,         \* whether it admits any
    born,         \* the generation an input was accepted into, 0 before
    fate,         \* what became of it
    transcript    \* the inputs answered, in the order of the answers

vars == <<generation, open, born, fate, transcript>>

Fates == {"absent", "pending", "answered", "applied", "closed"}

Init ==
    /\ generation = 1 /\ open = TRUE
    /\ born = [i \in Inputs |-> 0]
    /\ fate = [i \in Inputs |-> "absent"]
    /\ transcript = <<>>

Accept(i) ==
    /\ open /\ fate[i] = "absent"
    /\ fate' = [fate EXCEPT ![i] = "pending"]
    /\ born' = [born EXCEPT ![i] = generation]
    /\ UNCHANGED <<generation, open, transcript>>

\* The answer to i, and the end of the inputs that its turn has taken in.
Answer(i, taken) ==
    /\ transcript' = Append(transcript, i)
    /\ open /\ fate[i] = "pending" /\ i \notin taken
    /\ \A j \in taken \cup {i} : fate[j] = "pending" /\ born[j] = generation
    /\ fate' = [j \in Inputs |-> IF j = i THEN "answered"
                                 ELSE IF j \in taken THEN "applied" ELSE fate[j]]
    /\ UNCHANGED <<generation, open, born>>

\* An input ends without an answer of its own.
Close(i, f) ==
    /\ fate[i] = "pending" /\ f \in {"applied", "closed"}
    /\ fate' = [fate EXCEPT ![i] = f]
    /\ UNCHANGED <<generation, open, born, transcript>>

\* A new generation closes inputs of the old one.
Renew(dropped) ==
    /\ generation' = generation + 1 /\ open' \in BOOLEAN
    /\ \A i \in dropped : fate[i] = "pending" /\ born[i] = generation
    /\ fate' = [i \in Inputs |-> IF i \in dropped THEN "closed" ELSE fate[i]]
    /\ UNCHANGED <<born, transcript>>

Next ==
    \/ \E i \in Inputs : Accept(i) \/ \E f \in {"applied", "closed"} : Close(i, f)
    \/ \E i \in Inputs, taken \in SUBSET Inputs : Answer(i, taken)
    \/ \E dropped \in SUBSET Inputs : Renew(dropped)

Spec == Init /\ [][Next]_vars

-----------------------------------------------------------------------------
TypeOK ==
    /\ generation \in Nat \ {0} /\ open \in BOOLEAN
    /\ born \in [Inputs -> Nat] /\ fate \in [Inputs -> Fates]
    /\ transcript \in Seq(Inputs)

\* The transcript holds the answer of every input that was answered, once,
\* and no other.
AnsweredOnce ==
    /\ \A i \in Inputs : fate[i] = "answered" <=> \E k \in 1..Len(transcript) : transcript[k] = i
    /\ \A k, l \in 1..Len(transcript) : transcript[k] = transcript[l] => k = l
=============================================================================
