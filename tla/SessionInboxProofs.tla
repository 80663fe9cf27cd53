------------------------- MODULE SessionInboxProofs -------------------------
(***************************************************************************)
(* Theorems about the inbox of a session, for every set of inputs and      *)
(* workers: its types, that at most one input is in somebody's hands, that *)
(* its transactions keep the promise of SessionTranscript, and that claims *)
(* which overlap no other transaction are claims of this inbox.            *)
(*                                                                         *)
(* Every transaction but three moves one row that is neither new nor over. *)
(* The lemmas show this of each of them, and the theorems then look at     *)
(* four kinds of steps: a new row, a move, an answer, a new generation.    *)
(***************************************************************************)
EXTENDS SessionOverlap, FiniteSetTheorems, TLAPS

Unfinished == Statuses \ (Terminal \cup {"absent"})

\* A row i that is neither new nor over becomes r; when r is held, its
\* generation is the open one, and nobody holds another row with a live claim.
Move(i, r) ==
    /\ row[i].status \in Unfinished
    /\ r \in Rows /\ r.gen = row[i].gen /\ r.status # "absent"
    /\ r.status \in Holding =>
          /\ Admits(i)
          /\ r.live => \A j \in Inputs \ {i} : ~(row[j].status \in Holding /\ row[j].live)
    /\ row' = [row EXCEPT ![i] = r]
    /\ UNCHANGED <<generation, open, transcript>>

InboxInv == InboxTypeOK /\ OneClaim

\* The next sequence number of a finite inbox is a number.
LEMMA NextSeqIsNatural == ASSUME InboxTypeOK PROVE NextSeq \in Nat
<1>1. IsFiniteSet({i \in Inputs : row[i].status # "absent"})
  BY InboxAssumption, FS_Subset
<1> QED BY <1>1, FS_CardinalityType DEF NextSeq

\* What giving up a claim leaves of a row.
LEMMA UnclaimedRow ==
    ASSUME NEW r \in Rows, NEW s \in Statuses
    PROVE  /\ Unclaimed(r, s) \in Rows
           /\ Unclaimed(r, s).status = s /\ Unclaimed(r, s).live = FALSE
           /\ Unclaimed(r, s).gen = r.gen
  BY DEF Unclaimed, Rows

\* A row that gives up its claim has moved.
LEMMA UnclaimedMoves ==
    ASSUME InboxTypeOK, NEW i \in Inputs, NEW s \in Statuses \ ({"absent"} \cup Holding),
           row[i].status \in Unfinished,
           row' = [row EXCEPT ![i] = Unclaimed(row[i], s)],
           UNCHANGED <<generation, open, transcript>>
    PROVE  \E r : Move(i, r) /\ r.status = s
<1>1. row[i] \in Rows BY DEF InboxTypeOK
<1>2. Move(i, Unclaimed(row[i], s)) /\ Unclaimed(row[i], s).status = s
  BY <1>1, UnclaimedRow DEF Move
<1> QED BY <1>2

\* The same when its relation to a turn is set anew.
LEMMA RelatedMoves ==
    ASSUME InboxTypeOK, NEW i \in Inputs, NEW d \in Decisions, NEW t \in Inputs \cup {NoInput},
           row[i].status \in Unfinished,
           row' = [row EXCEPT ![i] = [Unclaimed(row[i], "reclassified") EXCEPT !.decision = d, !.target = t]],
           UNCHANGED <<generation, open, transcript>>
    PROVE  \E r : Move(i, r) /\ r.status = "reclassified"
<1> DEFINE u == Unclaimed(row[i], "reclassified")
           r == [u EXCEPT !.decision = d, !.target = t]
<1>1. u \in Rows /\ u.status = "reclassified" /\ u.gen = row[i].gen
  BY UnclaimedRow DEF InboxTypeOK, Statuses, Waiting
<1>2. r \in Rows /\ r.status = "reclassified" /\ r.gen = row[i].gen
  BY <1>1 DEF Rows
<1>3. Move(i, r)
  BY <1>2 DEF Move, Holding
<1> QED BY <1>2, <1>3

\* The transactions of clients move a row.
LEMMA ClientMoves ==
    ASSUME InboxTypeOK, NEW i \in Inputs, NEW d \in Decisions, NEW t \in Inputs \cup {NoInput},
           AttachInput(i) \/ RetryBlocked(i) \/ CancelInput(i) \/ ReclassifyInput(i, d, t)
    PROVE  \E r : Move(i, r) /\ r.status # "completed"
<1>0. row[i].status \in Statuses BY DEF InboxTypeOK, Rows
<1>1. {"attached", "queued", "cancelled"} \subseteq Statuses \ ({"absent"} \cup Holding)
  BY DEF Statuses, Waiting, Holding, Terminal
<1>2. row[i].status \in Unfinished
  BY <1>0 DEF AttachInput, Attachable, RetryBlocked, CancelInput, ReclassifyInput, Reclassifiable,
              Statuses, Unfinished, Waiting, Terminal
<1>3. CASE AttachInput(i)
  <2>1. \E r : Move(i, r) /\ r.status = "attached"
    BY <1>1, <1>2, <1>3, UnclaimedMoves DEF AttachInput
  <2> QED BY <2>1
<1>4. CASE RetryBlocked(i)
  <2>1. \E r : Move(i, r) /\ r.status = "queued"
    BY <1>1, <1>2, <1>4, UnclaimedMoves DEF RetryBlocked
  <2> QED BY <2>1
<1>5. CASE CancelInput(i)
  <2>1. \E r : Move(i, r) /\ r.status = "cancelled"
    BY <1>1, <1>2, <1>5, UnclaimedMoves DEF CancelInput
  <2> QED BY <2>1
<1>6. CASE ReclassifyInput(i, d, t)
  <2>1. \E r : Move(i, r) /\ r.status = "reclassified"
    BY <1>2, <1>6, RelatedMoves DEF ReclassifyInput
  <2> QED BY <2>1
<1> QED BY <1>3, <1>4, <1>5, <1>6

\* A row of the open generation that is claimed: nobody holds another one,
\* because a row that is held is of the open generation too.
LEMMA ClaimMoves ==
    ASSUME InboxInv, NEW i \in Inputs, NEW p \in Workers, Claim(p, i)
    PROVE  \E r : Move(i, r) /\ r.status # "completed"
<1> DEFINE r == [row[i] EXCEPT !.status = "claimed", !.attempts = row[i].attempts + 1,
                               !.owner = p, !.live = TRUE]
<1>0. row[i] \in Rows /\ row[i].attempts + 1 \in Nat
  BY DEF InboxInv, InboxTypeOK, Rows
<1>1. r \in Rows /\ r.gen = row[i].gen /\ r.status = "claimed"
  BY <1>0 DEF Rows, Statuses, Holding
<1>2. Admits(i) /\ row[i].status \in Waiting \cup Holding
  BY DEF Claim, Unheld, Claimable, Ranked
<1>3. ASSUME NEW j \in Inputs \ {i} PROVE ~(row[j].status \in Holding /\ row[j].live)
  BY <1>2 DEF InboxInv, OneClaim, Claim, Unheld, Admits
<1>4. row' = [row EXCEPT ![i] = r] /\ UNCHANGED <<generation, open, transcript>>
  BY DEF Claim
<1>5. Move(i, r)
  BY <1>1, <1>2, <1>3, <1>4 DEF Move, Unfinished, Statuses, Waiting, Holding, Terminal
<1> QED BY <1>1, <1>5

\* A claim that enters the running state, or whose deadline passes.
LEMMA HolderMoves ==
    ASSUME InboxInv, NEW i \in Inputs, NEW e, MarkRunning(i, e) \/ Expire(i)
    PROVE  \E r : Move(i, r) /\ r.status # "completed"
<1>0. row[i] \in Rows BY DEF InboxInv, InboxTypeOK
<1>1. CASE MarkRunning(i, e)
  <2> DEFINE r == [row[i] EXCEPT !.status = "running"]
  <2>1. r \in Rows /\ r.gen = row[i].gen /\ r.status = "running" /\ r.live = row[i].live
    BY <1>0 DEF Rows, Statuses, Holding
  <2>2. row[i].status = "claimed" /\ Admits(i) /\ row[i].live
    BY <1>1 DEF MarkRunning, Lease
  <2>3. ASSUME NEW j \in Inputs \ {i} PROVE ~(row[j].status \in Holding /\ row[j].live)
    BY <2>2 DEF InboxInv, OneClaim, Holding
  <2>4. Move(i, r)
    BY <1>1, <2>1, <2>2, <2>3 DEF MarkRunning, Move, Unfinished, Statuses, Holding, Terminal
  <2> QED BY <2>1, <2>4
<1>2. CASE Expire(i)
  <2> DEFINE r == [row[i] EXCEPT !.live = FALSE]
  <2>1. r \in Rows /\ r.gen = row[i].gen /\ r.status = row[i].status /\ r.live = FALSE
    BY <1>0 DEF Rows
  <2>2. row[i].status \in Holding /\ Admits(i)
    BY <1>2 DEF Expire, InboxInv, OneClaim
  <2>3. Move(i, r)
    BY <1>2, <2>1, <2>2 DEF Expire, Move, Unfinished, Statuses, Holding, Terminal
  <2> QED BY <2>1, <2>2, <2>3 DEF Holding
<1> QED BY <1>1, <1>2

\* An acknowledgement moves the row to what is acknowledged.
LEMMA AcknowledgeMoves ==
    ASSUME InboxInv, NEW i \in Inputs, NEW e,
           NEW s \in {"attached", "completed", "supplemented", "cancelled"}, Acknowledge(i, e, s)
    PROVE  \E r : Move(i, r) /\ r.status = s
<1> USE DEF Statuses, Unfinished, Holding, Terminal
<1>1. row[i].status \in Unfinished BY DEF Acknowledge, Acknowledgeable, Lease
<1>2. s \in Statuses \ ({"absent"} \cup Holding) OBVIOUS
<1> QED BY <1>1, <1>2, UnclaimedMoves DEF InboxInv, Acknowledge

\* Failures and returned claims.
LEMMA FailMoves ==
    ASSUME InboxInv, NEW i \in Inputs, NEW e, NEW class, Fail(i, e, class)
    PROVE  \E r : Move(i, r) /\ r.status # "completed"
<1> USE DEF Statuses, Unfinished, Waiting, Holding, Terminal
<1>1. row[i].status \in Unfinished BY DEF Fail, Lease
<1>2. FailureStatus(i, class) \in {"queued", "blocked", "failed"} BY DEF FailureStatus
<1>3. FailureStatus(i, class) \in Statuses \ ({"absent"} \cup Holding) BY <1>2
<1>4. \E r : Move(i, r) /\ r.status = FailureStatus(i, class)
  BY <1>1, <1>3, UnclaimedMoves DEF InboxInv, Fail
<1> QED BY <1>2, <1>4

LEMMA RequeueMoves ==
    ASSUME InboxInv, NEW i \in Inputs, NEW e, NEW d \in Decisions, NEW t \in Inputs \cup {NoInput},
           Requeue(i, e, d, t)
    PROVE  \E r : Move(i, r) /\ r.status # "completed"
<1>1. row[i].status \in Unfinished
  BY DEF Requeue, Lease, Statuses, Unfinished, Holding, Terminal
<1> QED BY <1>1, RelatedMoves DEF InboxInv, Requeue

\* The four kinds of steps.
LEMMA InboxSteps ==
    ASSUME InboxInv, InboxNext
    PROVE  \/ \E i \in Inputs, d \in Decisions, t \in Inputs \cup {NoInput} : AppendInput(i, generation, d, t)
           \/ \E i \in Inputs : \E r : Move(i, r)
           \/ \E i \in Inputs : \E c : CommitTranscript(i, row[i].attempts, c)
           \/ \E o \in BOOLEAN : AdvanceGeneration(o)
<1>1. CASE \E o \in BOOLEAN : AdvanceGeneration(o) BY <1>1
<1>2. CASE \E i \in Inputs : ClientStep(i)
  <2>1. PICK i \in Inputs : ClientStep(i) BY <1>2
  <2>2. CASE \E d \in Decisions, t \in Inputs \cup {NoInput} : ReclassifyInput(i, d, t)
    BY <2>2, ClientMoves DEF InboxInv
  <2>3. CASE AttachInput(i) \/ RetryBlocked(i) \/ CancelInput(i)
    <3>1. "StartNewTurn" \in Decisions BY DEF Decisions
    <3> QED BY <2>3, <3>1, ClientMoves DEF InboxInv
  <2> QED BY <2>1, <2>2, <2>3 DEF ClientStep
<1>3. CASE \E i \in Inputs : WorkerStep(i)
  <2>1. PICK i \in Inputs : WorkerStep(i) BY <1>3
  <2>2. CASE \E p \in Workers : Claim(p, i) BY <2>2, ClaimMoves
  <2>3. CASE Expire(i) \/ MarkRunning(i, row[i].attempts) BY <2>3, HolderMoves
  <2>4. CASE \E s \in {"attached", "completed", "supplemented", "cancelled"} :
                 Acknowledge(i, row[i].attempts, s)
    BY <2>4, AcknowledgeMoves
  <2>5. CASE \E class \in Classes : Fail(i, row[i].attempts, class) BY <2>5, FailMoves
  <2>6. CASE \E d \in Decisions, t \in Inputs \cup {NoInput} : Requeue(i, row[i].attempts, d, t)
    BY <2>6, RequeueMoves
  <2>7. CASE \E c : CommitTranscript(i, row[i].attempts, c) BY <2>7
  <2> QED BY <2>1, <2>2, <2>3, <2>4, <2>5, <2>6, <2>7 DEF WorkerStep
<1> QED BY <1>1, <1>2, <1>3 DEF InboxNext
-----------------------------------------------------------------------------
\* The types are kept by each kind.
LEMMA AppendType ==
    ASSUME InboxTypeOK, NEW i \in Inputs, NEW d \in Decisions, NEW t \in Inputs \cup {NoInput},
           AppendInput(i, generation, d, t)
    PROVE  /\ InboxTypeOK'
           /\ row' = [row EXCEPT ![i] = row'[i]]
           /\ row'[i].status = "queued" /\ row'[i].gen = generation
<1> DEFINE r == [status |-> "queued", seq |-> NextSeq, gen |-> generation, decision |-> d,
                 target |-> t, attempts |-> 0, owner |-> Nobody, live |-> FALSE]
<1>1. NextSeq \in Nat /\ generation \in Nat
  BY NextSeqIsNatural DEF InboxTypeOK
<1>2. r \in Rows /\ r.status = "queued" /\ r.gen = generation
  BY <1>1 DEF Rows, Statuses, Waiting
<1>3. row' = [row EXCEPT ![i] = r] /\ UNCHANGED <<generation, open, transcript>>
  BY DEF AppendInput
<1> HIDE DEF r
<1> QED BY <1>2, <1>3 DEF InboxTypeOK

LEMMA CommitType ==
    ASSUME InboxTypeOK, NEW i \in Inputs, NEW e, NEW c, CommitTranscript(i, e, c)
    PROVE  /\ InboxTypeOK'
           /\ \A j \in Inputs : row'[j].gen = row[j].gen
           /\ \A j \in Inputs \ ({i} \cup Covered(i, c)) : row'[j] = row[j]
           /\ \A j \in Covered(i, c) \ {i} : row'[j].status = "supplemented"
           /\ row'[i].status = "completed" /\ row'[i].attempts = row[i].attempts
<1> DEFINE r == [row[i] EXCEPT !.status = "completed", !.live = FALSE]
<1>1. row[i] \in Rows BY DEF InboxTypeOK
<1>2. r \in Rows /\ r.status = "completed" /\ r.gen = row[i].gen /\ r.attempts = row[i].attempts
  BY <1>1 DEF Rows, Statuses, Terminal
<1>3. ASSUME NEW j \in Inputs
      PROVE  /\ Unclaimed(row[j], "supplemented") \in Rows
             /\ Unclaimed(row[j], "supplemented").status = "supplemented"
             /\ Unclaimed(row[j], "supplemented").gen = row[j].gen
  BY UnclaimedRow DEF InboxTypeOK, Statuses, Terminal
<1>4. row' = [j \in Inputs |->
                 IF j = i THEN r
                 ELSE IF j \in Covered(i, c) THEN Unclaimed(row[j], "supplemented") ELSE row[j]]
  BY DEF CommitTranscript
<1>5. transcript' = Append(transcript, i) /\ UNCHANGED <<generation, open>>
  BY DEF CommitTranscript
<1>6. row' \in [Inputs -> Rows]
  BY <1>2, <1>3, <1>4 DEF InboxTypeOK
<1>7. transcript' \in Seq(Inputs)
  BY <1>5 DEF InboxTypeOK
<1>8. InboxTypeOK'
  BY <1>5, <1>6, <1>7 DEF InboxTypeOK
<1>9. Covered(i, c) \subseteq Inputs
  BY DEF Covered, Supplements
<1> QED BY <1>2, <1>3, <1>4, <1>8, <1>9

Expiring(i) == row[i].gen = generation /\ row[i].status \in Waiting \cup Holding \cup {"blocked"}

LEMMA AdvanceType ==
    ASSUME InboxTypeOK, NEW o \in BOOLEAN, AdvanceGeneration(o)
    PROVE  /\ InboxTypeOK' /\ generation' = generation + 1 /\ open' = o
           /\ \A i \in Inputs : row'[i].gen = row[i].gen
           /\ \A i \in Inputs : IF Expiring(i) THEN row'[i].status = "expired" ELSE row'[i] = row[i]
<1>1. ASSUME NEW i \in Inputs
      PROVE  /\ Unclaimed(row[i], "expired") \in Rows
             /\ Unclaimed(row[i], "expired").status = "expired"
             /\ Unclaimed(row[i], "expired").gen = row[i].gen
  BY UnclaimedRow DEF InboxTypeOK, Statuses, Terminal
<1>2. row' = [i \in Inputs |-> IF Expiring(i) THEN Unclaimed(row[i], "expired") ELSE row[i]]
  BY DEF AdvanceGeneration, Expiring
<1>3. row' \in [Inputs -> Rows]
  BY <1>1, <1>2 DEF InboxTypeOK
<1>4. generation' = generation + 1 /\ open' = o /\ transcript' = transcript
  BY DEF AdvanceGeneration
<1>5. InboxTypeOK'
  BY <1>3, <1>4 DEF InboxTypeOK
<1> QED BY <1>1, <1>2, <1>4, <1>5

LEMMA MoveType ==
    ASSUME InboxTypeOK, NEW i \in Inputs, NEW r, Move(i, r)
    PROVE  /\ InboxTypeOK' /\ row'[i] = r
           /\ \A j \in Inputs \ {i} : row'[j] = row[j]
  BY DEF InboxTypeOK, Move

-----------------------------------------------------------------------------
\* The inductive invariant, step by step.  A new generation expires every row
\* that is held, because all of them are of the old one.
LEMMA InboxInductive ==
    ASSUME InboxInv, [InboxNext]_inbox PROVE InboxInv'
<1>1. CASE UNCHANGED inbox
  BY <1>1 DEF InboxInv, inbox, InboxTypeOK, OneClaim, Admits
<1>2. CASE InboxNext
  <2>1. CASE \E i \in Inputs, d \in Decisions, t \in Inputs \cup {NoInput} : AppendInput(i, generation, d, t)
    <3>1. PICK i \in Inputs, d \in Decisions, t \in Inputs \cup {NoInput} : AppendInput(i, generation, d, t)
      BY <2>1
    <3>2. InboxTypeOK' /\ row' = [row EXCEPT ![i] = row'[i]] /\ row'[i].status = "queued"
      BY <3>1, AppendType DEF InboxInv
    <3>3. UNCHANGED <<generation, open>> BY <3>1 DEF AppendInput
    <3>4. \A j \in Inputs \ {i} : row'[j] = row[j] BY <3>2 DEF InboxInv, InboxTypeOK
    <3>5. OneClaim' BY <3>2, <3>3, <3>4 DEF InboxInv, OneClaim, Admits, Holding
    <3> QED BY <3>2, <3>5 DEF InboxInv
  <2>2. CASE \E i \in Inputs : \E r : Move(i, r)
    <3>1. PICK i \in Inputs : \E r : Move(i, r) BY <2>2
    <3>2. PICK r : Move(i, r) BY <3>1
    <3>3. InboxTypeOK' /\ row'[i] = r /\ \A j \in Inputs \ {i} : row'[j] = row[j]
      BY <3>2, MoveType DEF InboxInv
    <3>4. UNCHANGED <<generation, open>> BY <3>2 DEF Move
    <3>5. r.gen = row[i].gen
          /\ (r.status \in Holding =>
                /\ Admits(i)
                /\ r.live => \A j \in Inputs \ {i} : ~(row[j].status \in Holding /\ row[j].live))
      BY <3>2 DEF Move
    <3>6. OneClaim' BY <3>3, <3>4, <3>5 DEF InboxInv, OneClaim, Admits
    <3> QED BY <3>3, <3>6 DEF InboxInv
  <2>3. CASE \E i \in Inputs : \E c : CommitTranscript(i, row[i].attempts, c)
    <3>1. PICK i \in Inputs : \E c : CommitTranscript(i, row[i].attempts, c) BY <2>3
    <3>2. PICK c : CommitTranscript(i, row[i].attempts, c) BY <3>1
    <3>3. InboxTypeOK' BY <3>2, CommitType DEF InboxInv
    <3>4. \A j \in Inputs : row'[j].status \notin Holding \/ row'[j] = row[j]
      BY <3>2, CommitType DEF InboxInv, Holding
    <3>5. UNCHANGED <<generation, open>> BY <3>2 DEF CommitTranscript
    <3>6. OneClaim' BY <3>4, <3>5 DEF InboxInv, OneClaim, Admits
    <3> QED BY <3>3, <3>6 DEF InboxInv
  <2>4. CASE \E o \in BOOLEAN : AdvanceGeneration(o)
    <3>1. PICK o \in BOOLEAN : AdvanceGeneration(o) BY <2>4
    <3>2. InboxTypeOK' BY <3>1, AdvanceType DEF InboxInv
    <3>3. \A i \in Inputs : row'[i].status \notin Holding
      BY <3>1, AdvanceType DEF InboxInv, OneClaim, Admits, Expiring, Holding
    <3>4. OneClaim' BY <3>3 DEF OneClaim
    <3> QED BY <3>2, <3>4 DEF InboxInv
  <2> QED BY <1>2, <2>1, <2>2, <2>3, <2>4, InboxSteps
<1> QED BY <1>1, <1>2

LEMMA InboxStarts == InboxInit => InboxInv
<1> SUFFICES ASSUME InboxInit PROVE InboxInv OBVIOUS
<1>1. NoRow \in Rows
  BY DEF NoRow, Rows, Statuses, Decisions
<1>2. InboxTypeOK
  BY <1>1 DEF InboxInit, InboxTypeOK
<1>3. \A i \in Inputs : row[i].status = "absent"
  BY DEF InboxInit, NoRow
<1>4. OneClaim
  BY <1>3 DEF OneClaim, Holding
<1> QED BY <1>2, <1>4 DEF InboxInv

\* For any inputs and workers: the rows keep their shape, and at most one input
\* of the session is held with a live claim, one of the open generation, as long
\* as no claim overlaps another transaction.
THEOREM InboxHoldsOne == InboxSpec => [](InboxTypeOK /\ OneClaim)
<1>1. InboxInv /\ [InboxNext]_inbox => InboxInv' BY InboxInductive
<1>2. InboxInv <=> InboxTypeOK /\ OneClaim BY DEF InboxInv
<1> QED BY <1>1, <1>2, InboxStarts, PTL DEF InboxSpec
-----------------------------------------------------------------------------
(***************************************************************************)
(* The promise.  An answer in the transcript belongs to a completed row,   *)
(* so the rows that still move are pending, and no move answers.           *)
(***************************************************************************)
Held == \A i \in Inputs : Answered(i) => row[i].status = "completed"

born == [i \in Inputs |-> row[i].gen]
fate == [i \in Inputs |-> Fate(i)]

LEMMA FateFrame ==
    ASSUME NEW i \in Inputs, row'[i] = row[i], Answered(i)' <=> Answered(i)
    PROVE  Fate(i)' = Fate(i)
  BY DEF Fate

LEMMA FatePending ==
    ASSUME NEW i \in Inputs, row[i].status \in Unfinished
    PROVE  Fate(i) = "pending"
  BY DEF Fate, Unfinished

LEMMA AnsweredFrame ==
    ASSUME UNCHANGED transcript PROVE \A i : Answered(i)' <=> Answered(i)
  BY DEF Answered

LEMMA AnsweredCommit ==
    ASSUME transcript \in Seq(Inputs), NEW i \in Inputs, transcript' = Append(transcript, i)
    PROVE  \A j : Answered(j)' <=> Answered(j) \/ j = i
<1>1. Len(transcript) \in Nat /\ Len(transcript') = Len(transcript) + 1
      /\ transcript'[Len(transcript) + 1] = i
      /\ \A k \in 1..Len(transcript) : transcript'[k] = transcript[k]
  OBVIOUS
<1>2. ASSUME NEW j, Answered(j) \/ j = i PROVE Answered(j)'
  BY <1>1, <1>2 DEF Answered
<1>3. ASSUME NEW j, Answered(j)' PROVE Answered(j) \/ j = i
  <2>1. PICK k \in 1..Len(transcript') : transcript'[k] = j BY <1>3 DEF Answered
  <2>2. k \in 1..Len(transcript) \/ k = Len(transcript) + 1 BY <1>1
  <2> QED BY <1>1, <2>1, <2>2 DEF Answered
<1> QED BY <1>2, <1>3

LEMMA AppendPromise ==
    ASSUME InboxInv, Held, NEW i \in Inputs, NEW d \in Decisions, NEW t \in Inputs \cup {NoInput},
           AppendInput(i, generation, d, t)
    PROVE  Held' /\ Promise!Accept(i)
<1>1. row' = [row EXCEPT ![i] = row'[i]] /\ row'[i].status = "queued" /\ row'[i].gen = generation
  BY AppendType DEF InboxInv
<1>2. row[i].status = "absent" /\ open /\ UNCHANGED <<generation, open, transcript>>
  BY DEF AppendInput
<1>3. \A j \in Inputs \ {i} : row'[j] = row[j] BY <1>1 DEF InboxInv, InboxTypeOK
<1>4. \A j : Answered(j)' <=> Answered(j) BY <1>2, AnsweredFrame
<1>5. Held' BY <1>1, <1>2, <1>3, <1>4 DEF Held
<1>6. \A j \in Inputs \ {i} : Fate(j)' = Fate(j) BY <1>3, <1>4, FateFrame
<1>7. Fate(i) = "absent" /\ Fate(i)' = "pending"
  BY <1>1, <1>2 DEF Fate, Terminal
<1>8. fate' = [fate EXCEPT ![i] = "pending"] BY <1>6, <1>7 DEF fate
<1>9. born' = [born EXCEPT ![i] = generation] BY <1>1, <1>3 DEF born
<1> QED BY <1>2, <1>5, <1>7, <1>8, <1>9 DEF Promise!Accept, born, fate

LEMMA MovePromise ==
    ASSUME InboxInv, Held, NEW i \in Inputs, NEW r, Move(i, r)
    PROVE  Held' /\ (UNCHANGED <<generation, open, born, fate, transcript>>
                       \/ \E f \in {"applied", "closed"} : Promise!Close(i, f))
<1>1. row'[i] = r /\ \A j \in Inputs \ {i} : row'[j] = row[j]
  BY MoveType DEF InboxInv
<1>2. row[i].status \in Unfinished /\ r.gen = row[i].gen /\ r.status # "absent"
      /\ r.status \in Statuses /\ UNCHANGED <<generation, open, transcript>>
  BY DEF Move, Rows
<1>3. \A j : Answered(j)' <=> Answered(j) BY <1>2, AnsweredFrame
<1>4. ~Answered(i) BY <1>2 DEF Held, Unfinished, Terminal
<1>5. Held' BY <1>1, <1>3, <1>4 DEF Held
<1>6. \A j \in Inputs \ {i} : Fate(j)' = Fate(j) BY <1>1, <1>3, FateFrame
<1>7. Fate(i) = "pending" BY <1>2, FatePending
<1>8. born' = born BY <1>1, <1>2 DEF born
<1>9. CASE r.status \notin Terminal
  <2>1. Fate(i)' = "pending" BY <1>1, <1>2, <1>9 DEF Fate
  <2>2. fate' = fate BY <1>6, <1>7, <2>1 DEF fate
  <2> QED BY <1>2, <1>5, <1>8, <2>2
<1>10. CASE r.status \in Terminal
  <2>1. PICK f \in {"applied", "closed"} : Fate(i)' = f
    BY <1>1, <1>2, <1>3, <1>4, <1>10 DEF Fate
  <2>2. fate' = [fate EXCEPT ![i] = f] BY <1>6, <2>1 DEF fate
  <2>3. Promise!Close(i, f) BY <1>2, <1>7, <1>8, <2>2 DEF Promise!Close, born, fate
  <2> QED BY <1>5, <2>3
<1> QED BY <1>9, <1>10

LEMMA CommitPromise ==
    ASSUME InboxInv, Held, NEW i \in Inputs, NEW c, CommitTranscript(i, row[i].attempts, c)
    PROVE  Held' /\ Promise!Answer(i, Covered(i, c))
<1> DEFINE taken == Covered(i, c)
<1>1. /\ \A j \in Inputs : row'[j].gen = row[j].gen
      /\ \A j \in Inputs \ ({i} \cup taken) : row'[j] = row[j]
      /\ \A j \in taken \ {i} : row'[j].status = "supplemented"
      /\ row'[i].status = "completed"
  BY CommitType DEF InboxInv
<1>2. transcript' = Append(transcript, i) /\ UNCHANGED <<generation, open>>
  BY DEF CommitTranscript
<1>3. open /\ row[i].status = "running" /\ row[i].gen = generation
  BY DEF CommitTranscript, Committable, FenceValid, Lease, Admits
<1>4. \A j : Answered(j)' <=> Answered(j) \/ j = i
  BY <1>2, AnsweredCommit DEF InboxInv, InboxTypeOK
<1>5. taken \subseteq Inputs
      /\ \A j \in taken : row[j].gen = generation /\ row[j].seq > row[i].seq
                            /\ row[j].status \in Waiting \cup Holding \cup {"attached"}
  BY <1>3 DEF Covered, Supplements
<1>6. i \notin taken
  <2>1. row[i].seq \in Nat BY DEF InboxInv, InboxTypeOK, Rows
  <2> QED BY <1>5, <2>1
<1>7. \A j \in taken \cup {i} : row[j].status \in Unfinished
  BY <1>3, <1>5 DEF Unfinished, Statuses, Waiting, Holding, Terminal
<1>8. \A j \in taken \cup {i} : ~Answered(j)
  BY <1>5, <1>7 DEF Held, Unfinished, Terminal
<1>9. Held'
  BY <1>1, <1>4, <1>5, <1>8 DEF Held
<1>10. \A j \in taken \cup {i} : Fate(j) = "pending"
  BY <1>5, <1>7, FatePending
<1>11. Fate(i)' = "answered"
  BY <1>1, <1>4 DEF Fate, Terminal
<1>12. \A j \in taken : Fate(j)' = "applied"
  BY <1>1, <1>4, <1>6, <1>8 DEF Fate, Terminal
<1>13. \A j \in Inputs \ ({i} \cup taken) : Fate(j)' = Fate(j)
  BY <1>1, <1>4, FateFrame
<1> HIDE DEF taken
<1>14. fate' = [j \in Inputs |-> IF j = i THEN "answered"
                                 ELSE IF j \in taken THEN "applied" ELSE fate[j]]
  BY <1>6, <1>11, <1>12, <1>13 DEF fate
<1>15. born' = born BY <1>1 DEF born
<1>16. \A j \in taken \cup {i} : fate[j] = "pending" /\ born[j] = generation
  BY <1>3, <1>5, <1>10 DEF fate, born
<1>17. Promise!Answer(i, taken)
  BY <1>2, <1>3, <1>6, <1>14, <1>15, <1>16 DEF Promise!Answer, born, fate
<1> QED BY <1>9, <1>17 DEF taken

LEMMA AdvancePromise ==
    ASSUME InboxInv, Held, NEW o \in BOOLEAN, AdvanceGeneration(o)
    PROVE  Held' /\ \E dropped \in SUBSET Inputs : Promise!Renew(dropped)
<1> DEFINE dropped == {i \in Inputs : Expiring(i)}
<1>1. /\ generation' = generation + 1 /\ open' = o
      /\ \A i \in Inputs : row'[i].gen = row[i].gen
      /\ \A i \in Inputs : IF i \in dropped THEN row'[i].status = "expired" ELSE row'[i] = row[i]
  BY AdvanceType DEF InboxInv
<1>2. UNCHANGED transcript BY DEF AdvanceGeneration
<1>3. \A j : Answered(j)' <=> Answered(j) BY <1>2, AnsweredFrame
<1>4. \A i \in dropped : row[i].gen = generation /\ row[i].status \in Unfinished
  BY DEF Expiring, Unfinished, Statuses, Waiting, Holding, Terminal
<1> HIDE DEF dropped
<1>5. dropped \subseteq Inputs BY DEF dropped
<1>6. \A i \in dropped : ~Answered(i) BY <1>4, <1>5 DEF Held, Unfinished, Terminal
<1>7. Held' BY <1>1, <1>3, <1>5, <1>6 DEF Held
<1>8. \A i \in dropped : Fate(i) = "pending" /\ Fate(i)' = "closed"
  <2>1. \A i \in dropped : Fate(i) = "pending" BY <1>4, <1>5, FatePending
  <2>2. \A i \in dropped : Fate(i)' = "closed"
    BY <1>1, <1>3, <1>5, <1>6 DEF Fate, Terminal
  <2> QED BY <2>1, <2>2
<1>9. \A i \in Inputs \ dropped : Fate(i)' = Fate(i) BY <1>1, <1>3, FateFrame
<1>10. fate' = [i \in Inputs |-> IF i \in dropped THEN "closed" ELSE fate[i]]
  BY <1>8, <1>9 DEF fate
<1>11. born' = born BY <1>1 DEF born
<1>12. \A i \in dropped : fate[i] = "pending" /\ born[i] = generation
  BY <1>4, <1>5, <1>8 DEF fate, born
<1>13. Promise!Renew(dropped)
  BY <1>1, <1>2, <1>10, <1>11, <1>12 DEF Promise!Renew, born, fate
<1> QED BY <1>5, <1>7, <1>13

LEMMA PromiseStep ==
    ASSUME InboxInv, Held, [InboxNext]_inbox
    PROVE  Held' /\ [Promise!Next]_(Promise!vars)
<1>1. CASE UNCHANGED inbox
  <2>1. Held' BY <1>1 DEF Held, Answered, inbox
  <2>2. UNCHANGED <<generation, open, born, fate, transcript>>
    BY <1>1 DEF inbox, born, fate, Fate, Answered
  <2> QED BY <2>1, <2>2 DEF Promise!vars, born, fate
<1>2. CASE InboxNext
  <2>1. CASE \E i \in Inputs, d \in Decisions, t \in Inputs \cup {NoInput} : AppendInput(i, generation, d, t)
    BY <2>1, AppendPromise DEF Promise!Next
  <2>2. CASE \E i \in Inputs : \E r : Move(i, r)
    <3>1. PICK i \in Inputs : \E r : Move(i, r) BY <2>2
    <3>2. Held' /\ (UNCHANGED <<generation, open, born, fate, transcript>>
                      \/ \E f \in {"applied", "closed"} : Promise!Close(i, f))
      BY <3>1, MovePromise
    <3> QED BY <3>2 DEF Promise!Next, Promise!vars, born, fate
  <2>3. CASE \E i \in Inputs : \E c : CommitTranscript(i, row[i].attempts, c)
    <3>1. PICK i \in Inputs : \E c : CommitTranscript(i, row[i].attempts, c) BY <2>3
    <3>2. PICK c : CommitTranscript(i, row[i].attempts, c) BY <3>1
    <3>3. Covered(i, c) \in SUBSET Inputs BY DEF Covered, Supplements
    <3> QED BY <3>2, <3>3, CommitPromise DEF Promise!Next
  <2>4. CASE \E o \in BOOLEAN : AdvanceGeneration(o)
    BY <2>4, AdvancePromise DEF Promise!Next
  <2> QED BY <1>2, <2>1, <2>2, <2>3, <2>4, InboxSteps
<1> QED BY <1>1, <1>2

LEMMA PromiseStarts == InboxInit => Held /\ Promise!Init
<1> SUFFICES ASSUME InboxInit PROVE Held /\ Promise!Init OBVIOUS
<1>1. \A i \in Inputs : ~Answered(i) BY DEF InboxInit, Answered
<1>2. \A i \in Inputs : row[i].status = "absent" /\ row[i].gen = 0 BY DEF InboxInit, NoRow
<1>3. \A i \in Inputs : Fate(i) = "absent" BY <1>2 DEF Fate
<1> QED BY <1>1, <1>2, <1>3 DEF Held, Promise!Init, InboxInit

\* For any inputs, workers and steps: the transactions of the inbox keep the
\* promise of the session.  An input ends once, and its answer is entered once.
THEOREM InboxKeepsPromise == InboxSpec => KeepsPromise
<1>1. InboxInv /\ Held /\ [InboxNext]_inbox => InboxInv' /\ Held' /\ [Promise!Next]_(Promise!vars)
  BY InboxInductive, PromiseStep
<1>2. InboxInit => InboxInv /\ Held /\ Promise!Init BY InboxStarts, PromiseStarts
<1> QED BY <1>1, <1>2, PTL DEF InboxSpec, KeepsPromise, Promise!Spec

-----------------------------------------------------------------------------
(***************************************************************************)
(* Claims as the database executes them.  What a claim has found is still  *)
(* free when it takes it, if only time has passed in between.              *)
(***************************************************************************)
Found ==
    /\ scan \in [Workers -> Inputs \cup {NoInput}]
    /\ \A p \in Workers : scan[p] # NoInput => Unheld(scan[p])

LEMMA ExpireLeavesUnheld ==
    ASSUME InboxTypeOK, NEW i \in Inputs, Unheld(i), NEW j \in Inputs, Expire(j)
    PROVE  Unheld(i)'
<1>1. row' = [row EXCEPT ![j] = [row[j] EXCEPT !.live = FALSE]]
      /\ UNCHANGED <<generation, open, transcript>>
  BY DEF Expire
<1>2. \A k \in Inputs : /\ row'[k].status = row[k].status /\ row'[k].seq = row[k].seq
                         /\ row'[k].gen = row[k].gen /\ (row'[k].live => row[k].live)
  BY <1>1 DEF InboxTypeOK, Rows
<1>3. \A k \in Inputs : Ranked(k)' <=> Ranked(k)
  BY <1>1, <1>2 DEF Ranked, Admits
<1> QED BY <1>2, <1>3 DEF Unheld, Claimable

\* A step is one of the inbox: the update of a claim takes a row that is free.
LEMMA OverlapIsInbox ==
    ASSUME Found, [OverlapNext]_overlap PROVE [InboxNext]_inbox
<1>1. CASE UNCHANGED overlap BY <1>1 DEF overlap, inbox
<1>2. CASE \E p \in Workers, i \in Inputs : ClaimScan(p, i) BY <1>2 DEF ClaimScan
<1>3. ASSUME NEW p \in Workers, ClaimScanned(p) PROVE InboxNext
  <2>1. scan[p] \in Inputs /\ Unheld(scan[p]) BY <1>3 DEF ClaimScanned, Found
  <2>2. Claim(p, scan[p]) BY <1>3, <2>1 DEF ClaimScanned, Claim
  <2> QED BY <2>1, <2>2 DEF InboxNext, WorkerStep
<1>4. ASSUME NEW i \in Inputs, Transaction(i) PROVE InboxNext
  <2>1. \A x \in Relations : x[1] \in Decisions /\ x[2] \in Inputs \cup {NoInput}
    BY DEF Relations, Decisions
  <2> QED BY <1>4, <2>1 DEF Transaction, InboxNext, WorkerStep, ClientStep
<1>5. CASE \E o \in BOOLEAN : AdvanceGeneration(o) BY <1>5 DEF InboxNext
<1> QED BY <1>1, <1>2, <1>3, <1>4, <1>5 DEF OverlapNext

LEMMA FoundStays ==
    ASSUME InboxTypeOK, Found, [OverlapNext]_overlap, [Serial]_overlap PROVE Found'
<1>1. CASE UNCHANGED overlap
  BY <1>1 DEF overlap, inbox, Found, Unheld, Claimable, Ranked, Admits
<1>2. CASE OverlapNext /\ Serial
  <2>1. scan' \in [Workers -> Inputs \cup {NoInput}]
    BY <1>2 DEF OverlapNext, ClaimScan, ClaimScanned, Found
  <2>2. ASSUME NEW p \in Workers, scan'[p] # NoInput PROVE Unheld(scan[p])'
    <3>1. CASE \E i \in Inputs : ClaimScan(p, i)
      <4>1. PICK i \in Inputs : ClaimScan(p, i) BY <3>1
      <4>2. scan'[p] = i /\ Unheld(i) /\ UNCHANGED inbox BY <4>1 DEF ClaimScan, Found
      <4> QED BY <4>2 DEF inbox, Unheld, Claimable, Ranked, Admits
    <3>2. CASE scan'[p] = scan[p]
      <4>1. scan[p] \in Inputs /\ Unheld(scan[p]) BY <2>2, <3>2 DEF Found
      <4>2. UNCHANGED inbox \/ \E i \in Inputs : Expire(i) BY <1>2, <2>2, <3>2 DEF Serial
      <4>3. CASE UNCHANGED inbox BY <4>1, <4>3, <3>2 DEF inbox, Unheld, Claimable, Ranked, Admits
      <4>4. CASE \E i \in Inputs : Expire(i) BY <4>1, <4>4, <3>2, ExpireLeavesUnheld
      <4> QED BY <4>2, <4>3, <4>4
    <3>3. scan'[p] = scan[p] \/ \E i \in Inputs : ClaimScan(p, i)
      BY <1>2, <2>2 DEF OverlapNext, ClaimScan, ClaimScanned, Found
    <3> QED BY <3>1, <3>2, <3>3
  <2> QED BY <2>1, <2>2 DEF Found
<1> QED BY <1>1, <1>2

\* Claims that overlap no other transaction are those of SessionInbox: what is
\* proved of the inbox, where a claim is one step, holds of a statement that
\* reads a snapshot and locks one row, if nothing commits in between.
THEOREM SerialClaimsAreAtomic == OverlapSpec /\ [][Serial]_overlap => InboxSpec
<1> DEFINE Inv == InboxInv /\ Found
<1>1. OverlapInit => InboxInit /\ Inv BY InboxStarts DEF OverlapInit, Found
<1>2. Inv /\ [OverlapNext]_overlap /\ [Serial]_overlap => Inv' /\ [InboxNext]_inbox
  BY OverlapIsInbox, FoundStays, InboxInductive DEF InboxInv
<1> QED BY <1>1, <1>2, PTL DEF OverlapSpec, InboxSpec

\* In the database: at most one input of the session is in work, as long as no
\* transaction commits between the snapshot of a claim and its update.
THEOREM SerialClaimsHoldOne == OverlapSpec /\ [][Serial]_overlap => []OneClaim
  BY SerialClaimsAreAtomic, InboxHoldsOne, PTL

=============================================================================
