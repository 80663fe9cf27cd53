----------------------- MODULE SessionTranscriptProofs -----------------------
(***************************************************************************)
(* What the promise of a session implies: its transcript has the answer of *)
(* every input that counts as answered, once, and no other.                *)
(***************************************************************************)
EXTENDS SessionTranscript, TLAPS

Inv == TypeOK /\ AnsweredOnce

\* A step that answers nothing and leaves alone what was answered.
LEMMA NothingAnswered ==
    ASSUME Inv, fate' \in [Inputs -> Fates], UNCHANGED transcript,
           \A i \in Inputs : fate'[i] = "answered" <=> fate[i] = "answered"
    PROVE  AnsweredOnce'
  BY DEF Inv, AnsweredOnce

\* The answer to an input that waits for one is new in the transcript.
LEMMA AnswerOnce ==
    ASSUME Inv, NEW i \in Inputs, NEW taken \in SUBSET Inputs, Answer(i, taken)
    PROVE  Inv'
<1>1. transcript \in Seq(Inputs) /\ transcript' = Append(transcript, i) /\ fate[i] = "pending"
      /\ \A j \in taken : fate[j] = "pending"
  BY DEF Inv, TypeOK, Answer
<1>2. Len(transcript) \in Nat /\ Len(transcript') = Len(transcript) + 1
      /\ transcript' \in Seq(Inputs)
      /\ transcript'[Len(transcript) + 1] = i
      /\ \A k \in 1..Len(transcript) : transcript'[k] = transcript[k]
  BY <1>1
<1>3. \A k \in 1..Len(transcript) : transcript[k] # i
  BY <1>1 DEF Inv, AnsweredOnce
<1>4. fate' = [j \in Inputs |-> IF j = i THEN "answered"
                                ELSE IF j \in taken THEN "applied" ELSE fate[j]]
  BY DEF Answer
<1>5. TypeOK'
  BY <1>2, <1>4 DEF Inv, TypeOK, Answer, Fates
<1>6. \A k, l \in 1..Len(transcript') : transcript'[k] = transcript'[l] => k = l
  <2> SUFFICES ASSUME NEW k \in 1..Len(transcript'), NEW l \in 1..Len(transcript'),
                      transcript'[k] = transcript'[l]
               PROVE  k = l
    OBVIOUS
  <2>1. (k \in 1..Len(transcript) \/ k = Len(transcript) + 1)
        /\ (l \in 1..Len(transcript) \/ l = Len(transcript) + 1)
    BY <1>2
  <2> QED BY <1>2, <1>3, <2>1 DEF Inv, AnsweredOnce
<1>7. ASSUME NEW j \in Inputs
      PROVE  fate'[j] = "answered" <=> \E k \in 1..Len(transcript') : transcript'[k] = j
  <2>1. CASE j = i BY <1>2, <1>4, <2>1
  <2>2. CASE j # i
    <3>1. fate'[j] = "answered" <=> fate[j] = "answered" BY <1>1, <1>4, <2>2
    <3>2. ASSUME NEW k \in 1..Len(transcript'), transcript'[k] = j
          PROVE  \E l \in 1..Len(transcript) : transcript[l] = j
      <4>1. k \in 1..Len(transcript) BY <1>2, <2>2, <3>2
      <4> QED BY <1>2, <3>2, <4>1
    <3>3. ASSUME NEW k \in 1..Len(transcript), transcript[k] = j
          PROVE  \E l \in 1..Len(transcript') : transcript'[l] = j
      BY <1>2, <3>3
    <3> QED BY <3>1, <3>2, <3>3 DEF Inv, AnsweredOnce
  <2> QED BY <2>1, <2>2
<1> QED BY <1>5, <1>6, <1>7 DEF Inv, AnsweredOnce

LEMMA TranscriptInductive == ASSUME Inv, [Next]_vars PROVE Inv'
<1>1. CASE UNCHANGED vars
  BY <1>1 DEF Inv, TypeOK, AnsweredOnce, vars
<1>2. ASSUME NEW i \in Inputs, Accept(i) PROVE Inv'
  <2>1. TypeOK' BY <1>2 DEF Inv, TypeOK, Accept, Fates
  <2>2. AnsweredOnce' BY <1>2, <2>1, NothingAnswered DEF Inv, TypeOK, Accept
  <2> QED BY <2>1, <2>2 DEF Inv
<1>3. ASSUME NEW i \in Inputs, NEW f \in {"applied", "closed"}, Close(i, f) PROVE Inv'
  <2>1. TypeOK' BY <1>3 DEF Inv, TypeOK, Close, Fates
  <2>2. AnsweredOnce' BY <1>3, <2>1, NothingAnswered DEF Inv, TypeOK, Close
  <2> QED BY <2>1, <2>2 DEF Inv
<1>4. ASSUME NEW dropped \in SUBSET Inputs, Renew(dropped) PROVE Inv'
  <2>1. TypeOK' BY <1>4 DEF Inv, TypeOK, Renew, Fates
  <2>2. AnsweredOnce' BY <1>4, <2>1, NothingAnswered DEF Inv, TypeOK, Renew
  <2> QED BY <2>1, <2>2 DEF Inv
<1> QED BY <1>1, <1>2, <1>3, <1>4, AnswerOnce DEF Next

\* In every session that keeps the promise, whatever implements it, an input
\* counts as answered if and only if its answer is in the transcript, and no
\* answer is there twice.
THEOREM TranscriptAnswersOnce == Spec => []AnsweredOnce
<1>1. Init => Inv
  BY DEF Init, Inv, TypeOK, AnsweredOnce, Fates
<1>2. Inv /\ [Next]_vars => Inv' BY TranscriptInductive
<1>3. Inv => AnsweredOnce BY DEF Inv
<1> QED BY <1>1, <1>2, <1>3, PTL DEF Spec
=============================================================================
