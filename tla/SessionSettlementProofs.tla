---------------------- MODULE SessionSettlementProofs ----------------------
(***************************************************************************)
(* What an answer does to the inputs that supplement its turn, for every   *)
(* set of inputs and processes and any number of mishaps: it leaves no     *)
(* later one attached, and it settles the later ones its turn has read.    *)
(*                                                                         *)
(* The commit finds the supplements of a turn by their generation and by   *)
(* their numbers, not by their targets, and a client may relate any row to *)
(* any turn.  The argument is that a row keeps its number and generation,  *)
(* that one with a target has the decision the commit looks for, and that  *)
(* whatever a turn has read had its number by then, so that the cursor of  *)
(* the answer is not below it.                                             *)
(***************************************************************************)
EXTENDS SessionTurnProofs

Present(i) == row[i].status # "absent"

(***************************************************************************)
(* What a step does to the rows: it enters the input of an admission, or   *)
(* every row keeps its number and its generation, and asks for a turn if   *)
(* and only if it names one.  A row is attached only to the turn it names, *)
(* when that is not over.                                                  *)
(***************************************************************************)
Follows(i, r) ==
    /\ r.seq = row[i].seq /\ r.gen = row[i].gen
    /\ r.status = "absent" <=> row[i].status = "absent"
    /\ \/ r.decision = row[i].decision /\ r.target = row[i].target
       \/ r.decision = DecisionFor(r.target)
    /\ r.status = "attached" =>
          /\ r.target = row[i].target
          /\ row[i].status = "attached" \/ (Admits(i) /\ ~TurnIsTerminal(row[i].target))

Kept == \A i \in Inputs : Follows(i, row'[i])

Enters(i) ==
    /\ admission[i].pc = "append"
    /\ AppendInput(i, generation, DecisionFor(admission[i].target), admission[i].target)
    /\ admission' = [admission EXCEPT ![i] = [@ EXCEPT !.pc = "project"]]

LEMMA SameFollows == ASSUME NEW i, row'[i] = row[i] PROVE Follows(i, row'[i])
  BY DEF Follows

LEMMA KeptFrame == ASSUME UNCHANGED inbox PROVE Kept
  BY SameFollows DEF inbox, Kept

LEMMA KeptOne ==
    ASSUME InboxTypeOK, NEW i \in Inputs, NEW r, Follows(i, r), row' = [row EXCEPT ![i] = r]
    PROVE  Kept
<1>1. row'[i] = r /\ \A j \in Inputs \ {i} : row'[j] = row[j] BY DEF InboxTypeOK
<1> QED BY <1>1, SameFollows DEF Kept

LEMMA UnclaimedFollows ==
    ASSUME InboxTypeOK, NEW i \in Inputs, NEW s, s # "absent", Present(i),
           s = "attached" => Admits(i) /\ ~TurnIsTerminal(row[i].target)
    PROVE  Follows(i, Unclaimed(row[i], s))
<1>1. row[i] \in Rows BY DEF InboxTypeOK
<1> QED BY <1>1 DEF Unclaimed, Follows, Rows, Present

\* A row that is told to wait for a turn of its own, or for that of t.
LEMMA RelatedFollows ==
    ASSUME InboxTypeOK, NEW i \in Inputs, Present(i), NEW t,
           row' = [row EXCEPT ![i] = [Unclaimed(@, "reclassified") EXCEPT !.decision = DecisionFor(t), !.target = t]]
    PROVE  Kept
<1> DEFINE r == [Unclaimed(row[i], "reclassified") EXCEPT !.decision = DecisionFor(t), !.target = t]
<1>1. row[i] \in Rows BY DEF InboxTypeOK
<1>2. r.seq = row[i].seq /\ r.gen = row[i].gen /\ r.status = "reclassified"
      /\ r.decision = DecisionFor(t) /\ r.target = t
  BY <1>1 DEF Unclaimed, Rows
<1>3. row' = [row EXCEPT ![i] = r] OBVIOUS
<1> HIDE DEF r
<1>4. Follows(i, r) BY <1>2 DEF Follows, Present
<1> QED BY <1>3, <1>4, KeptOne

LEMMA NoTarget == DecisionFor(NoInput) = "StartNewTurn"
  BY InboxAssumption DEF DecisionFor

LEMMA ClientKeeps ==
    ASSUME InboxTypeOK, NEW i \in Inputs,
           AttachInput(i) \/ RetryBlocked(i) \/ CancelInput(i)
    PROVE  Kept
<1>1. CASE AttachInput(i)
  <2>1. Present(i) /\ Admits(i) /\ ~TurnIsTerminal(row[i].target)
        /\ row' = [row EXCEPT ![i] = Unclaimed(row[i], "attached")]
    BY <1>1 DEF AttachInput, Attachable, Present, Waiting
  <2> QED BY <2>1, UnclaimedFollows, KeptOne
<1>2. CASE RetryBlocked(i)
  <2>1. Present(i) /\ row' = [row EXCEPT ![i] = Unclaimed(row[i], "queued")]
    BY <1>2 DEF RetryBlocked, Present
  <2> QED BY <2>1, UnclaimedFollows, KeptOne
<1>3. CASE CancelInput(i)
  <2>1. Present(i) /\ row' = [row EXCEPT ![i] = Unclaimed(row[i], "cancelled")]
    BY <1>3 DEF CancelInput, Present
  <2> QED BY <2>1, UnclaimedFollows, KeptOne
<1> QED BY <1>1, <1>2, <1>3

LEMMA ReclassifyKeeps ==
    ASSUME InboxTypeOK, NEW i \in Inputs, NEW d, NEW t, ReclassifyInput(i, d, t), d = DecisionFor(t)
    PROVE  Kept
<1>1. Present(i) BY DEF ReclassifyInput, Reclassifiable, Present, Waiting
<1>2. row' = [row EXCEPT ![i] = [Unclaimed(@, "reclassified") EXCEPT !.decision = DecisionFor(t), !.target = t]]
  BY DEF ReclassifyInput
<1> QED BY <1>1, <1>2, RelatedFollows

LEMMA ClaimKeeps ==
    ASSUME InboxTypeOK, NEW i \in Inputs, NEW p, NEW e,
           Claim(p, i) \/ Expire(i) \/ MarkRunning(i, e)
    PROVE  Kept
<1> USE DEF Waiting, Holding
<1>0. row[i] \in Rows BY DEF InboxTypeOK
<1>1. CASE Claim(p, i)
  <2> DEFINE r == [row[i] EXCEPT !.status = "claimed", !.attempts = row[i].attempts + 1,
                                 !.owner = p, !.live = TRUE]
  <2>1. Present(i) /\ row' = [row EXCEPT ![i] = r]
    BY <1>1 DEF Claim, Unheld, Claimable, Ranked, Present
  <2>2. Follows(i, r) BY <1>0, <2>1 DEF Follows, Rows, Present
  <2> QED BY <2>1, <2>2, KeptOne
<1>2. CASE Expire(i)
  <2> DEFINE r == [row[i] EXCEPT !.live = FALSE]
  <2>1. row' = [row EXCEPT ![i] = r] BY <1>2 DEF Expire
  <2>2. Follows(i, r) BY <1>0 DEF Follows, Rows
  <2> QED BY <2>1, <2>2, KeptOne
<1>3. CASE MarkRunning(i, e)
  <2> DEFINE r == [row[i] EXCEPT !.status = "running"]
  <2>1. Present(i) /\ row' = [row EXCEPT ![i] = r] BY <1>3 DEF MarkRunning, Lease, Present
  <2>2. Follows(i, r) BY <1>0, <2>1 DEF Follows, Rows, Present
  <2> QED BY <2>1, <2>2, KeptOne
<1> QED BY <1>1, <1>2, <1>3

LEMMA FencedKeeps ==
    ASSUME InboxTypeOK, NEW i \in Inputs, NEW e, NEW class,
           \/ Acknowledge(i, e, "attached") \/ Acknowledge(i, e, "completed") \/ Fail(i, e, class)
           \/ \E t : Requeue(i, e, DecisionFor(t), t)
    PROVE  Kept
<1>1. Present(i)
  BY DEF Acknowledge, Acknowledgeable, Fail, Requeue, Lease, Present, Holding
<1>2. CASE Acknowledge(i, e, "attached")
  <2>1. Admits(i) /\ ~TurnIsTerminal(row[i].target) /\ row' = [row EXCEPT ![i] = Unclaimed(row[i], "attached")]
    BY <1>2 DEF Acknowledge, Acknowledgeable, Lease
  <2> QED BY <1>1, <2>1, UnclaimedFollows, KeptOne
<1>3. CASE Acknowledge(i, e, "completed")
  <2>1. row' = [row EXCEPT ![i] = Unclaimed(row[i], "completed")] BY <1>3 DEF Acknowledge
  <2> QED BY <1>1, <2>1, UnclaimedFollows, KeptOne
<1>4. CASE Fail(i, e, class)
  <2>1. row' = [row EXCEPT ![i] = Unclaimed(row[i], FailureStatus(i, class))] BY <1>4 DEF Fail
  <2>2. FailureStatus(i, class) \in {"queued", "blocked", "failed"} BY DEF FailureStatus
  <2> QED BY <1>1, <2>1, <2>2, UnclaimedFollows, KeptOne
<1>5. ASSUME NEW t, Requeue(i, e, DecisionFor(t), t) PROVE Kept
  BY <1>1, <1>5, RelatedFollows DEF Requeue
<1> QED BY <1>2, <1>3, <1>4, <1>5

LEMMA CommitKeeps ==
    ASSUME InboxTypeOK, NEW i \in Inputs, NEW e, NEW c, CommitTranscript(i, e, c) PROVE Kept
<1> SUFFICES ASSUME NEW j \in Inputs PROVE Follows(j, row'[j]) BY DEF Kept
<1>1. row[j] \in Rows BY DEF InboxTypeOK
<1>2. CASE j = i
  <2>1. row'[j] = [row[j] EXCEPT !.status = "completed", !.live = FALSE] /\ row[j].status = "running"
    BY <1>2 DEF CommitTranscript, Committable, FenceValid, Lease
  <2> QED BY <1>1, <2>1 DEF Follows, Rows
<1>3. CASE j # i /\ j \in Covered(i, c)
  <2>1. row'[j] = Unclaimed(row[j], "supplemented") BY <1>3 DEF CommitTranscript
  <2>2. Present(j) BY <1>3 DEF Covered, Waiting, Holding, Present
  <2> QED BY <2>1, <2>2, UnclaimedFollows
<1>4. CASE j # i /\ j \notin Covered(i, c)
  <2>1. row'[j] = row[j] BY <1>4 DEF CommitTranscript
  <2> QED BY <2>1, SameFollows
<1> QED BY <1>2, <1>3, <1>4

LEMMA AdvanceKeeps ==
    ASSUME InboxTypeOK, NEW o, AdvanceGeneration(o) PROVE Kept
<1> SUFFICES ASSUME NEW j \in Inputs PROVE Follows(j, row'[j]) BY DEF Kept
<1>1. CASE row[j].gen = generation /\ row[j].status \in Waiting \cup Holding \cup {"blocked"}
  <2>1. row'[j] = Unclaimed(row[j], "expired") BY <1>1 DEF AdvanceGeneration
  <2>2. Present(j) BY <1>1 DEF Waiting, Holding, Present
  <2> QED BY <2>1, <2>2, UnclaimedFollows
<1>2. CASE ~(row[j].gen = generation /\ row[j].status \in Waiting \cup Holding \cup {"blocked"})
  <2>1. row'[j] = row[j] BY <1>2 DEF AdvanceGeneration
  <2> QED BY <2>1, SameFollows
<1> QED BY <1>1, <1>2

LEMMA TaskKeeps ==
    ASSUME TypeOK, NEW t \in tasks, TaskStep(t) PROVE Kept
<1>1. t.input \in Inputs /\ InboxTypeOK BY DEF TypeOK, Tasks
<1>2. CASE TaskRollForward(t)
  <2>1. (\E j \in Inputs : ReclassifyInput(j, "StartNewTurn", NoInput)) \/ UNCHANGED inbox
    BY <1>2 DEF TaskRollForward, Unapplied
  <2> QED BY <1>1, <2>1, NoTarget, ReclassifyKeeps, KeptFrame
<1>3. CASE TaskStart(t)
  <2>1. MarkRunning(t.input, t.epoch) \/ UNCHANGED inbox BY <1>3 DEF TaskStart
  <2> QED BY <1>1, <2>1, ClaimKeeps, KeptFrame
<1>4. CASE TaskReroute(t) \/ TaskAttach(t) \/ TaskExecute(t) \/ TaskSettle(t) \/ TaskFail(t)
  <2>1. \/ Acknowledge(t.input, t.epoch, "attached") \/ Acknowledge(t.input, t.epoch, "completed")
        \/ Fail(t.input, t.epoch, t.class) \/ Requeue(t.input, t.epoch, "StartNewTurn", NoInput)
        \/ Requeue(t.input, t.epoch, DecisionFor(t.target), t.target)
        \/ UNCHANGED inbox
    BY <1>4 DEF TaskReroute, TaskAttach, TaskExecute, TaskSettle, TaskFail
  <2> QED BY <1>1, <2>1, NoTarget, FencedKeeps, KeptFrame
<1>5. CASE TaskCorrupt(t) \/ TaskAdopt(t) \/ TaskGiveUp(t) \/ TaskRefused(t) \/ TaskLeaseLost(t)
  BY <1>5, KeptFrame DEF TaskCorrupt, TaskAdopt, TaskGiveUp, TaskRefused, TaskLeaseLost
<1> QED BY <1>2, <1>3, <1>4, <1>5 DEF TaskStep

\* A call of a client relates a row to a turn, or to none.
LEMMA CallKeeps ==
    ASSUME TypeOK, ClientMakes PROVE Kept
<1>0. InboxTypeOK BY DEF TypeOK
<1>1. CASE UNCHANGED inbox BY <1>1, KeptFrame
<1>2. CASE ClientWrite
  <2>1. client.input \in Inputs BY <1>2 DEF ClientWrite, TypeOK, Calls, NoCall
  <2>2. ReclassifyInput(client.input, "SupplementCurrentTurn", client.target) \/ UNCHANGED inbox
    BY <1>2 DEF ClientWrite
  <2>3. CASE ReclassifyInput(client.input, "SupplementCurrentTurn", client.target)
    <3>1. DecisionFor(client.target) = "SupplementCurrentTurn" BY <2>3 DEF ReclassifyInput, DecisionFor
    <3> QED BY <1>0, <2>1, <2>3, <3>1, ReclassifyKeeps
  <2> QED BY <1>1, <2>2, <2>3
<1>3. ASSUME NEW p \in Workers, NEW i \in Inputs, NEW op, ClientCall(p, i, op) PROVE Kept
  <2>1. CancelInput(i) \/ ReclassifyInput(i, "StartNewTurn", NoInput) \/ UNCHANGED inbox
    BY <1>3 DEF ClientCall
  <2> QED BY <1>0, <1>1, <2>1, NoTarget, ClientKeeps, ReclassifyKeeps
<1> QED BY <1>2, <1>3 DEF ClientMakes

LEMMA StepKeeps ==
    ASSUME TypeOK, [Next]_vars PROVE Kept \/ \E i \in Inputs : Enters(i)
<1>0. InboxTypeOK BY DEF TypeOK
<1>1. CASE UNCHANGED inbox BY <1>1, KeptFrame
<1>2. ASSUME NEW i \in Inputs, AdmissionStep(i) PROVE Kept \/ Enters(i)
  <2>1. UNCHANGED inbox \/ AttachInput(i) \/ Enters(i)
    BY <1>2 DEF AdmissionStep, AdmitAppend, AdmitProject, AdmitAttach, Enters
  <2> QED BY <1>0, <2>1, ClientKeeps, KeptFrame
<1>3. ASSUME NEW i \in Inputs, ClaimLapses(i) \/ OperatorRetry(i) PROVE Kept
  <2>1. Expire(i) \/ RetryBlocked(i) \/ UNCHANGED inbox BY <1>3 DEF ClaimLapses, OperatorRetry
  <2> QED BY <1>0, <2>1, ClaimKeeps, ClientKeeps, KeptFrame
<1>4. ASSUME NEW i \in Inputs, NEW p \in Workers, ClaimWork(p, i) PROVE Kept
  BY <1>0, <1>4, ClaimKeeps DEF ClaimWork
<1>5. CASE GenerationEnds BY <1>0, <1>5, AdvanceKeeps DEF GenerationEnds
<1>11. CASE ClientProject BY <1>1, <1>11 DEF ClientProject
<1>6. ASSUME NEW p \in Workers, DeliveryStep(p) PROVE Kept
  <2>1. UNCHANGED inbox \/ Answers(p)
    BY <1>6 DEF DeliveryStep, DeliveryClaim, DeliveryCommit, DeliveryRefused, DeliveryRetry,
                DeliveryAcknowledge, Answers
  <2>2. CASE Answers(p)
    <3>1. delivery[p].input \in Inputs
      BY <2>2 DEF Answers, DeliveryCommit, TypeOK, Deliveries, NoDelivery
    <3> QED BY <1>0, <2>2, <3>1, CommitKeeps DEF Answers
  <2> QED BY <2>1, <2>2, KeptFrame
<1>7. ASSUME NEW i \in Inputs, NEW p \in Workers, Classify(p, i) PROVE UNCHANGED inbox
  BY <1>7 DEF Classify
<1>8. ASSUME NEW i \in Inputs, DeliveryLapses(i) PROVE UNCHANGED inbox
  BY <1>8 DEF DeliveryLapses
<1>9. ASSUME NEW p \in Workers, TurnStep(p) \/ Crash(p) PROVE UNCHANGED inbox
  BY <1>9 DEF TurnStep, TurnCheckpoint, TurnSeal, TurnCommit, TurnFail, Crash
<1>10. UNCHANGED vars => UNCHANGED inbox BY DEF vars
<1> QED
  BY <1>1, <1>2, <1>3, <1>4, <1>5, <1>6, <1>7, <1>8, <1>9, <1>10, <1>11, TaskKeeps, CallKeeps
     DEF Next, ClientMakes
-----------------------------------------------------------------------------
\* An admission that goes on after the append has a row.
AdmissionMoves(i) ==
    admission'[i].pc \in {"project", "attach"} => admission[i].pc \in {"project", "attach"} \/ Enters(i)

LEMMA StepMovesAdmissions ==
    ASSUME TypeOK, [Next]_vars, NEW i \in Inputs PROVE AdmissionMoves(i)
<1>0. admission \in [Inputs -> Admissions] /\ admission[i] \in Admissions BY DEF TypeOK
<1>1. ASSUME admission'[i] = admission[i] PROVE AdmissionMoves(i)
  BY <1>1 DEF AdmissionMoves
<1>2. ASSUME NEW p \in Workers, NEW j \in Inputs, Classify(p, j) PROVE AdmissionMoves(i)
  <2>1. admission'[i] = admission[i] \/ admission'[i].pc = "append" BY <1>0, <1>2 DEF Classify
  <2> QED BY <2>1 DEF AdmissionMoves
<1>3. ASSUME NEW j \in Inputs, AdmissionStep(j) PROVE AdmissionMoves(i)
  <2>1. CASE i # j
    <3>1. admission'[i] = admission[i]
      BY <1>0, <1>3, <2>1 DEF AdmissionStep, AdmitAppend, AdmitProject, AdmitAttach
    <3> QED BY <1>1, <3>1
  <2>2. CASE i = j
    <3>1. CASE admission'[i] = Admitted(i)
      <4>1. admission'[i].pc = "done" BY <1>0, <3>1 DEF Admitted, Admissions
      <4> QED BY <4>1 DEF AdmissionMoves
    <3>2. CASE Enters(i) \/ admission[i].pc = "project" BY <3>2 DEF AdmissionMoves
    <3>3. CASE AdmitAppend(j) BY <1>0, <2>2, <3>1, <3>2, <3>3 DEF AdmitAppend, Enters
    <3>4. CASE AdmitProject(j) BY <2>2, <3>2, <3>4 DEF AdmitProject
    <3>5. CASE AdmitAttach(j) BY <1>0, <2>2, <3>1, <3>5 DEF AdmitAttach
    <3> QED BY <1>3, <3>3, <3>4, <3>5 DEF AdmissionStep
  <2> QED BY <2>1, <2>2
<1>4. ASSUME NEW p \in Workers, Crash(p) PROVE AdmissionMoves(i)
  <2>1. admission'[i] = admission[i] \/ admission'[i] = Admitted(i) BY <1>4 DEF Crash
  <2>2. CASE admission'[i] = Admitted(i)
    <3>1. admission'[i].pc = "done" BY <1>0, <2>2 DEF Admitted, Admissions
    <3> QED BY <3>1 DEF AdmissionMoves
  <2> QED BY <1>1, <2>1, <2>2
<1>5. ASSUME NEW t \in tasks, TaskStep(t) PROVE UNCHANGED admission
  BY <1>5 DEF TaskStep, TaskCorrupt, TaskReroute, TaskStart, TaskAttach, TaskExecute, TaskAdopt, TaskSettle,
              TaskGiveUp, TaskRefused, TaskFail, TaskRollForward, TaskLeaseLost
<1>6. ASSUME NEW j \in Inputs, NEW q \in Workers, ClaimWork(q, j) PROVE UNCHANGED admission
  BY <1>6 DEF ClaimWork
<1>7. ASSUME NEW j \in Inputs, ClaimLapses(j) \/ DeliveryLapses(j) \/ OperatorRetry(j)
      PROVE  UNCHANGED admission
  BY <1>7 DEF ClaimLapses, DeliveryLapses, OperatorRetry
<1>8. ASSUME NEW q \in Workers, TurnStep(q) PROVE UNCHANGED admission
  BY <1>8 DEF TurnStep, TurnCheckpoint, TurnSeal, TurnCommit, TurnFail
<1>9. ASSUME NEW q \in Workers, DeliveryStep(q) PROVE UNCHANGED admission
  BY <1>9 DEF DeliveryStep, DeliveryClaim, DeliveryCommit, DeliveryRefused, DeliveryRetry,
              DeliveryAcknowledge
<1>10. ASSUME ClientMakes \/ ClientProject \/ GenerationEnds \/ UNCHANGED vars PROVE UNCHANGED admission
  BY <1>10 DEF ClientMakes, ClientCall, ClientWrite, ClientProject, GenerationEnds, vars
<1> QED
  BY <1>1, <1>2, <1>3, <1>4, <1>5, <1>6, <1>7, <1>8, <1>9, <1>10 DEF Next, ClientMakes

\* What a step does to the tasks and the streams: whoever is at work on an
\* input, or has it in memory, found its row there.
Reached(i) == Present(i) \/ admission[i].pc \in {"project", "attach"}
                         \/ \E t \in tasks : t.input = i

LEMMA StepMovesTasks ==
    ASSUME TypeOK, [Next]_vars, NEW t \in tasks' PROVE Reached(t.input)
<1>1. ASSUME NEW u \in tasks, u.input = t.input PROVE Reached(t.input) BY <1>1 DEF Reached
<1>2. CASE t \in tasks BY <1>1, <1>2
<1>3. ASSUME NEW u \in tasks, TaskStep(u) PROVE Reached(t.input)
  <2> DEFINE turned == [u EXCEPT !.pc = "turn", !.control = TRUE]
             Same(x) == x \in tasks \/ x.input = u.input
  <2>1. u \in Tasks BY DEF TypeOK
  <2>2. ASSUME NEW pc, NEW x \in Moved(u, pc) PROVE Same(x) BY <2>1 DEF Moved, Tasks
  <2>3. ASSUME NEW class, NEW x \in Failing(u, class) PROVE Same(x) BY <2>1 DEF Failing, Tasks
  <2>4. ASSUME NEW x \in Ended(u) PROVE Same(x) BY DEF Ended
  <2>5. turned.input = u.input BY <2>1 DEF Tasks
  <2> HIDE DEF turned
  <2>6. \/ UNCHANGED tasks \/ (\E pc : tasks' = Moved(u, pc)) \/ (\E class : tasks' = Failing(u, class))
        \/ tasks' = Ended(u) \/ tasks' = (tasks \ {u}) \cup {turned}
    <3>1. CASE TaskExecute(u) BY <3>1 DEF TaskExecute, turned
    <3>2. CASE TaskStart(u) BY <3>2 DEF TaskStart
    <3>3. CASE TaskFail(u) BY <3>3 DEF TaskFail
    <3>4. CASE TaskCorrupt(u) \/ TaskReroute(u) \/ TaskAttach(u) \/ TaskAdopt(u)
      BY <3>4 DEF TaskCorrupt, TaskReroute, TaskAttach, TaskAdopt
    <3>5. CASE TaskSettle(u) \/ TaskGiveUp(u) \/ TaskRefused(u) \/ TaskRollForward(u) \/ TaskLeaseLost(u)
      BY <3>5 DEF TaskSettle, TaskGiveUp, TaskRefused, TaskRollForward, TaskLeaseLost
    <3> QED BY <1>3, <3>1, <3>2, <3>3, <3>4, <3>5 DEF TaskStep
  <2>7. Same(t) BY <2>2, <2>3, <2>4, <2>5, <2>6
  <2> QED BY <1>1, <1>2, <2>7
<1>4. ASSUME NEW i \in Inputs, NEW p \in Workers, ClaimWork(p, i) PROVE Reached(t.input)
  <2>1. Present(i) BY <1>4 DEF ClaimWork, Claim, Unheld, Claimable, Ranked, Present, Waiting, Holding
  <2>2. t \in tasks \/ t.input = i BY <1>4 DEF ClaimWork
  <2> QED BY <1>2, <2>1, <2>2 DEF Reached
<1>5. ASSUME NEW p \in Workers, NEW pc, TurnOver(p, pc) PROVE Reached(t.input)
  <2>1. t \in tasks \/ \E u \in tasks : t = [u EXCEPT !.pc = pc] BY <1>5 DEF TurnOver, TaskOf
  <2>2. ASSUME NEW u \in tasks, t = [u EXCEPT !.pc = pc] PROVE t.input = u.input
    <3>1. u \in Tasks BY DEF TypeOK
    <3> QED BY <2>2, <3>1 DEF Tasks
  <2> QED BY <1>1, <1>2, <2>1, <2>2
<1>6. ASSUME NEW p \in Workers, TurnStep(p) PROVE Reached(t.input)
  <2>1. UNCHANGED tasks \/ \E pc : TurnOver(p, pc)
    BY <1>6 DEF TurnStep, TurnCheckpoint, TurnSeal, TurnCommit, TurnFail
  <2> QED BY <1>2, <1>5, <2>1
<1>7. ASSUME NEW p \in Workers, Crash(p) PROVE t \in tasks BY <1>7 DEF Crash
<1>8. ASSUME NEW i \in Inputs, AdmissionStep(i) \/ ClaimLapses(i) \/ DeliveryLapses(i) \/ OperatorRetry(i)
      PROVE  UNCHANGED tasks
  BY <1>8 DEF AdmissionStep, AdmitAppend, AdmitProject, AdmitAttach, ClaimLapses, DeliveryLapses,
              OperatorRetry, local
<1>9. ASSUME NEW i \in Inputs, NEW p \in Workers, Classify(p, i) PROVE UNCHANGED tasks
  BY <1>9 DEF Classify, local
<1>10. ASSUME NEW p \in Workers, DeliveryStep(p) PROVE UNCHANGED tasks
  BY <1>10 DEF DeliveryStep, DeliveryClaim, DeliveryCommit, DeliveryRefused, DeliveryRetry,
               DeliveryAcknowledge
<1>11. ASSUME ClientMakes \/ ClientProject \/ GenerationEnds \/ UNCHANGED vars PROVE UNCHANGED tasks
  BY <1>11 DEF ClientMakes, ClientCall, ClientWrite, ClientProject, GenerationEnds, vars, local
<1> QED
  BY <1>2, <1>3, <1>4, <1>6, <1>7, <1>8, <1>9, <1>10, <1>11 DEF Next, ClientMakes

Known(s) == {j \in Inputs : s.rec[j].state # "none"}

LEMMA AppliedKnows ==
    ASSUME NEW rec, NEW x, Applied(rec, x).state # "none" PROVE rec.state # "none"
  BY DEF Applied, NoRecord

LEMMA ProjectedKnows ==
    ASSUME NEW s \in Streams, NEW js, NEW x, NEW j \in Known(Projected(s, js, x)) PROVE j \in Known(s) \cup js
<1> DEFINE new == {k \in js : s.rec[k].state = "none" /\ row[k].seq > s.admitted}
<1>1. Projected(s, js, x).rec[j] = IF j \in new THEN [state |-> "hot", target |-> x.target]
                                   ELSE IF j \in js THEN Applied(s.rec[j], x) ELSE s.rec[j]
  BY DEF Projected, Known
<1> QED BY <1>1 DEF Known

LEMMA NotifiedKnows ==
    ASSUME TypeOK, NEW q, NEW i \in Inputs, NEW x, stream' = Notified(q, i, x),
           NEW p \in Workers, NEW j \in Known(stream'[p])
    PROVE  j \in Known(stream[p])
<1>1. stream \in [Workers -> Streams] /\ stream[p].rec \in [Inputs -> Records \cup {NoRecord}]
  BY DEF TypeOK, Streams
<1>2. CASE p = q
  <2>1. stream'[p].rec = [stream[p].rec EXCEPT ![i] = Applied(@, x)]
    BY <1>1, <1>2 DEF Notified, Streams
  <2>2. stream'[p].rec[j] = IF j = i THEN Applied(stream[p].rec[j], x) ELSE stream[p].rec[j]
    BY <1>1, <2>1 DEF Known
  <2> QED BY <2>2, AppliedKnows DEF Known
<1>3. CASE p # q
  <2>1. stream'[p] = stream[p] BY <1>1, <1>3 DEF Notified
  <2> QED BY <2>1
<1> QED BY <1>2, <1>3

LEMMA StepMovesStreams ==
    ASSUME TypeOK, [Next]_vars, NEW p \in Workers, NEW j \in Known(stream'[p])
    PROVE  j \in Known(stream[p]) \/ Reached(j)
<1>0. stream \in [Workers -> Streams] /\ stream[p] \in Streams BY DEF TypeOK
<1>1. CASE UNCHANGED stream BY <1>1
<1>2. ASSUME NEW q \in Workers, NEW js, NEW x, stream' = [stream EXCEPT ![q] = Projected(stream[q], js, x)],
             \A k \in js : Reached(k)
      PROVE  j \in Known(stream[p]) \/ Reached(j)
  <2>1. CASE q = p
    <3>1. stream'[p] = Projected(stream[p], js, x) BY <1>0, <1>2, <2>1
    <3> QED BY <1>0, <1>2, <3>1, ProjectedKnows
  <2>2. CASE q # p BY <1>0, <1>2, <2>2
  <2> QED BY <2>1, <2>2
<1>3. ASSUME NEW i \in Inputs, AdmissionStep(i) PROVE j \in Known(stream[p]) \/ Reached(j)
  <2> DEFINE q == admission[i].proc
             js == {i}
             x == Receipt("queued", admission[i].target)
             y == Receipt(row'[i].status, row'[i].target)
  <2>1. CASE AdmitProject(i) /\ q \in loaded
    <3>1. q \in Workers BY <2>1 DEF TypeOK
    <3>2. stream' = [stream EXCEPT ![q] = Projected(stream[q], js, x)] BY <2>1 DEF AdmitProject
    <3>3. \A k \in js : Reached(k) BY <2>1 DEF AdmitProject, Reached
    <3> HIDE DEF q, js, x
    <3> QED BY <1>2, <3>1, <3>2, <3>3
  <2>2. CASE AdmitAttach(i)
    <3>1. stream' = Notified(q, i, y) BY <2>2 DEF AdmitAttach
    <3> HIDE DEF q, y
    <3> QED BY <3>1, NotifiedKnows
  <2>3. CASE UNCHANGED stream BY <1>1, <2>3
  <2> QED BY <1>3, <2>1, <2>2, <2>3 DEF AdmissionStep, AdmitAppend, AdmitProject, local
<1>4. ASSUME NEW t \in tasks, TaskStep(t) PROVE j \in Known(stream[p]) \/ Reached(j)
  <2>1. t.proc \in Workers BY DEF TypeOK, Tasks
  <2>2. CASE TaskAttach(t)
    <3> DEFINE js == {t.input}
    <3>1. \E x : stream' = [stream EXCEPT ![t.proc] = Projected(stream[t.proc], js, x)]
      BY <2>2 DEF TaskAttach
    <3>2. \A k \in js : Reached(k) BY DEF Reached
    <3> HIDE DEF js
    <3> QED BY <1>2, <2>1, <3>1, <3>2
  <2>3. CASE TaskExecute(t)
    <3>1. \E x : stream' = [stream EXCEPT ![t.proc] = Projected(stream[t.proc], AttachedTo(t.input), x)]
      BY <2>3 DEF TaskExecute
    <3>2. \A k \in AttachedTo(t.input) : Reached(k) BY DEF AttachedTo, Reached, Present
    <3> QED BY <1>2, <2>1, <3>1, <3>2
  <2>4. CASE TaskRollForward(t)
    <3>1. UNCHANGED stream \/ \E k \in Inputs : \E x : stream' = Notified(t.proc, k, x)
      BY <2>4 DEF TaskRollForward, Unapplied
    <3> QED BY <1>1, <3>1, NotifiedKnows
  <2>5. CASE ~TaskAttach(t) /\ ~TaskExecute(t) /\ ~TaskRollForward(t)
    <3>1. UNCHANGED stream
      BY <1>4, <2>5 DEF TaskStep, TaskCorrupt, TaskReroute, TaskStart, TaskAdopt, TaskSettle, TaskGiveUp,
                        TaskRefused, TaskFail, TaskLeaseLost
    <3> QED BY <1>1, <3>1
  <2> QED BY <2>2, <2>3, <2>4, <2>5
<1>5. ASSUME NEW q \in Workers, TurnCheckpoint(q) PROVE j \in Known(stream[p])
  <2> DEFINE new == Consumable(q, turn[q].input)
  <2>1. stream' = [stream EXCEPT ![q] = Consumed(stream[q], new)] BY <1>5 DEF TurnCheckpoint
  <2>2. \A k \in new : stream[q].rec[k].state # "none" BY DEF Consumable
  <2> HIDE DEF new
  <2>3. CASE q = p
    <3>1. stream'[p] = Consumed(stream[p], new) BY <1>0, <2>1, <2>3
    <3>2. j \in new \/ stream'[p].rec[j] = stream[p].rec[j] BY <1>0, <3>1 DEF Consumed, Known, Streams
    <3> QED BY <2>2, <2>3, <3>2 DEF Known
  <2>4. CASE q # p BY <1>0, <2>1, <2>4
  <2> QED BY <2>3, <2>4
<1>6. ASSUME NEW q \in Workers, Crash(q) PROVE j \in Known(stream[p])
  <2>1. stream'[p] = stream[p] \/ stream'[p] = EmptyStream BY <1>0, <1>6 DEF Crash
  <2> QED BY <2>1 DEF EmptyStream, Known, NoRecord
<1>7. ASSUME NEW q \in Workers, TurnSeal(q) \/ TurnCommit(q) \/ TurnFail(q) \/ DeliveryStep(q)
      PROVE  UNCHANGED stream
  BY <1>7 DEF TurnSeal, TurnCommit, TurnFail, DeliveryStep, DeliveryClaim, DeliveryCommit, DeliveryRefused,
              DeliveryRetry, DeliveryAcknowledge
<1>8. ASSUME NEW i \in Inputs, ClaimLapses(i) \/ DeliveryLapses(i) \/ OperatorRetry(i) PROVE UNCHANGED stream
  BY <1>8 DEF ClaimLapses, DeliveryLapses, OperatorRetry, local
<1>9. ASSUME NEW i \in Inputs, NEW q \in Workers, Classify(q, i) \/ ClaimWork(q, i) PROVE UNCHANGED stream
  BY <1>9 DEF Classify, ClaimWork, local
<1>10. ASSUME ClientMakes \/ GenerationEnds \/ UNCHANGED vars PROVE UNCHANGED stream
  BY <1>10 DEF ClientMakes, ClientCall, ClientWrite, GenerationEnds, vars, local
<1>11. CASE ClientProject
  <2>1. client.input \in Inputs /\ \E x : stream' = Notified(client.proc, client.input, x)
    BY <1>11 DEF ClientProject, TypeOK, Calls, NoCall
  <2> QED BY <2>1, NotifiedKnows
<1> QED
  BY <1>1, <1>3, <1>4, <1>5, <1>6, <1>7, <1>8, <1>9, <1>10, <1>11 DEF Next, TurnStep, ClientMakes
-----------------------------------------------------------------------------
(***************************************************************************)
(* The rows that are there, and the one that comes                         *)
(***************************************************************************)
LEMMA RowEntered ==
    ASSUME TypeOK, NEW i \in Inputs, Enters(i)
    PROVE  /\ ~Present(i) /\ Present(i)' /\ UNCHANGED generation
           /\ row'[i].decision = DecisionFor(row'[i].target) /\ row'[i].status = "queued"
           /\ \A j \in Inputs \ {i} : row'[j] = row[j]
<1> DEFINE r == [status |-> "queued", seq |-> NextSeq, gen |-> generation, decision |-> DecisionFor(admission[i].target),
                 target |-> admission[i].target, attempts |-> 0, owner |-> Nobody, live |-> FALSE]
<1>1. row' = [row EXCEPT ![i] = r] /\ row[i].status = "absent" /\ UNCHANGED generation
  BY DEF Enters, AppendInput
<1>2. row'[i] = r /\ \A j \in Inputs \ {i} : row'[j] = row[j] BY <1>1 DEF TypeOK, InboxTypeOK
<1> QED BY <1>1, <1>2 DEF Present

LEMMA RowStays ==
    ASSUME TypeOK, [Next]_vars, NEW i \in Inputs, Present(i) PROVE Follows(i, row'[i]) /\ Present(i)'
<1>1. ASSUME NEW j \in Inputs, Enters(j) PROVE Follows(i, row'[i])
  <2>1. row'[i] = row[i] BY <1>1, RowEntered
  <2> QED BY <2>1, SameFollows
<1>2. Follows(i, row'[i]) BY <1>1, StepKeeps DEF Kept
<1> QED BY <1>2 DEF Follows, Present

LEMMA RowComes ==
    ASSUME TypeOK, [Next]_vars, NEW i \in Inputs, ~Present(i), Present(i)' PROVE Enters(i)
<1>1. ASSUME NEW j \in Inputs, Enters(j) PROVE j = i BY <1>1, RowEntered DEF Present
<1> QED BY <1>1, StepKeeps DEF Kept, Follows, Present

-----------------------------------------------------------------------------
(***************************************************************************)
(* The bonds between rows and turns.  A row asks for a turn if and only if *)
(* it names one.  An admission past its append has a row, and so has what  *)
(* a task is at work on and what a process has in memory.  What a turn has *)
(* read when it is sealed, and when it is committed, has a row, numbered   *)
(* up to the cursor.                                                       *)
(***************************************************************************)
Asking == \A i \in Inputs : row[i].decision = DecisionFor(row[i].target)

Entered == \A i \in Inputs : admission[i].pc \in {"project", "attach"} => Present(i)

Working ==
    /\ \A t \in tasks : Present(t.input)
    /\ \A p \in Workers : \A j \in Known(stream[p]) : Present(j)

Read(js, c) == \A j \in js : Present(j) /\ row[j].seq <= c

Sealed == \A p \in Workers : turn[p].phase = "sealed" => Read(turn[p].heard, turn[p].cursor)

Committed == \A i \in Inputs : Read(outbox[i].heard, outbox[i].cursor)

Bonds == Asking /\ Entered /\ Working /\ Sealed /\ Committed

LEMMA BondsStart == Init => Bonds
<1> SUFFICES ASSUME Init PROVE Bonds OBVIOUS
<1>1. Asking BY NoTarget DEF Init, InboxInit, NoRow, Asking
<1>2. \A i \in Inputs : admission[i].pc = "none" BY DEF Init, NotAdmitted
<1>3. \A p \in Workers : Known(stream[p]) = {} /\ turn[p].phase = "none"
  BY DEF Init, EmptyStream, NoRecord, Known, NoTurn
<1>4. tasks = {} /\ \A i \in Inputs : outbox[i].heard = {} BY DEF Init, NoTerminal
<1> QED BY <1>1, <1>2, <1>3, <1>4 DEF Bonds, Entered, Working, Sealed, Committed, Read

LEMMA AskingKept ==
    ASSUME TurnInv, Bonds, [Next]_vars PROVE Asking'
<1> SUFFICES ASSUME NEW i \in Inputs PROVE row'[i].decision = DecisionFor(row'[i].target)
  BY DEF Asking, DecisionFor
<1>1. TypeOK BY DEF TurnInv
<1>2. row[i].decision = DecisionFor(row[i].target) BY DEF Bonds, Asking
<1>3. CASE Kept
  <2>1. Follows(i, row'[i]) BY <1>3 DEF Kept
  <2> QED BY <1>2, <2>1 DEF Follows
<1>4. ASSUME NEW j \in Inputs, Enters(j) PROVE row'[i].decision = DecisionFor(row'[i].target)
  <2>1. row'[j].decision = DecisionFor(row'[j].target) BY <1>1, <1>4, RowEntered
  <2>2. i # j => row'[i] = row[i] BY <1>1, <1>4, RowEntered
  <2> QED BY <1>2, <2>1, <2>2
<1> QED BY <1>1, <1>3, <1>4, StepKeeps

LEMMA EnteredKept ==
    ASSUME TurnInv, Bonds, [Next]_vars PROVE Entered'
<1> SUFFICES ASSUME NEW i \in Inputs, admission'[i].pc \in {"project", "attach"} PROVE Present(i)'
  BY DEF Entered
<1>1. TypeOK BY DEF TurnInv
<1>2. AdmissionMoves(i) BY <1>1, StepMovesAdmissions
<1>3. CASE Enters(i) BY <1>1, <1>3, RowEntered
<1>4. CASE admission[i].pc \in {"project", "attach"}
  <2>1. Present(i) BY <1>4 DEF Bonds, Entered
  <2> QED BY <1>1, <2>1, RowStays
<1> QED BY <1>2, <1>3, <1>4 DEF AdmissionMoves

LEMMA WorkingKept ==
    ASSUME TurnInv, Bonds, [Next]_vars PROVE Working'
<1>1. TypeOK BY DEF TurnInv
<1>2. TypeOK' BY TurnInductive DEF TurnInv
<1>3. ASSUME NEW i \in Inputs, Reached(i) PROVE Present(i)'
  <2>1. Present(i) BY <1>3 DEF Reached, Bonds, Entered, Working
  <2> QED BY <1>1, <2>1, RowStays
<1>4. ASSUME NEW t \in tasks' PROVE Present(t.input)'
  <2>1. t.input \in Inputs BY <1>2 DEF TypeOK, Tasks
  <2> QED BY <1>1, <1>3, <2>1, StepMovesTasks
<1>5. ASSUME NEW p \in Workers, NEW j \in Known(stream'[p]) PROVE Present(j)'
  <2>1. j \in Inputs BY <1>2 DEF TypeOK, Streams, Known
  <2>2. j \in Known(stream[p]) => Reached(j) BY DEF Bonds, Working, Reached
  <2> QED BY <1>1, <1>3, <2>1, <2>2, StepMovesStreams
<1>6. \A p \in Workers : Known(stream[p])' = Known(stream'[p]) BY DEF Known
<1> QED BY <1>4, <1>5, <1>6 DEF Working

-----------------------------------------------------------------------------
(***************************************************************************)
(* What a turn has read                                                    *)
(***************************************************************************)
LEMMA ReadStays ==
    ASSUME TurnInv, [Next]_vars, NEW js \in SUBSET Inputs, NEW c, Read(js, c)
    PROVE  \A j \in js : Present(j)' /\ row'[j].seq <= c
<1> SUFFICES ASSUME NEW j \in js PROVE Present(j)' /\ row'[j].seq <= c OBVIOUS
<1>1. j \in Inputs /\ TypeOK BY DEF TurnInv
<1>2. Present(j) /\ row[j].seq <= c BY DEF Read
<1>3. Follows(j, row'[j]) /\ Present(j)' BY <1>1, <1>2, RowStays
<1> QED BY <1>2, <1>3 DEF Follows

\* The cursor is at no input below the last one that was read.
LEMMA CursorCovers ==
    ASSUME InboxTypeOK, NEW n \in Nat, NEW js \in SUBSET Inputs, NEW j \in js
    PROVE  row[j].seq <= Max({n} \cup {row[k].seq : k \in js})
<1> DEFINE S == {row[k].seq : k \in js}
           T == {n} \cup S
           f == [k \in js |-> row[k].seq]
<1>1. IsFiniteSet(js) BY InboxAssumption, FS_Subset
<1>2. f \in Surjection(js, S) BY DEF Surjection
<1>3. IsFiniteSet(S) BY <1>1, <1>2, FS_Surjection
<1>4. IsFiniteSet(T) BY <1>3, FS_Singleton, FS_Union
<1>5. S \in SUBSET Nat /\ row[j].seq \in S BY DEF InboxTypeOK, Rows
<1> HIDE DEF S
<1>6. T \in SUBSET Nat /\ T # {} /\ row[j].seq \in T BY <1>5
<1> HIDE DEF T
<1>7. PICK m \in T : \A y \in T : m >= y BY <1>4, <1>6, FinitePeak DEF Peaked
<1>8. \A y \in T : Max(T) >= y BY <1>7 DEF Max
<1>9. Max(T) \in Nat BY <1>4, <1>6, MaxIsNatural
<1>10. row[j].seq \in Nat BY <1>6
<1>11. row[j].seq <= Max(T) BY <1>6, <1>8, <1>9, <1>10
<1> QED BY <1>11 DEF T, S

TurnMoves(p) == turn'[p] = turn[p] \/ turn'[p].phase # "sealed" \/ TurnSeal(p)

LEMMA StepMovesTurns ==
    ASSUME TypeOK, [Next]_vars, NEW p \in Workers PROVE TurnMoves(p)
<1>0. turn \in [Workers -> Turns \cup {NoTurn}] BY DEF TypeOK
<1>1. CASE UNCHANGED turn BY <1>1 DEF TurnMoves
<1>2. ASSUME NEW q \in Workers, NEW r, r.phase # "sealed", turn' = [turn EXCEPT ![q] = r] PROVE TurnMoves(p)
  BY <1>0, <1>2 DEF TurnMoves
<1>3. NoTurn.phase # "sealed" BY DEF NoTurn
<1>4. ASSUME NEW t \in tasks, TaskStep(t) PROVE TurnMoves(p)
  <2>1. CASE TaskExecute(t)
    <3> DEFINE r == [NoTurn EXCEPT !.phase = "run", !.input = t.input, !.epoch = t.epoch]
    <3>1. t.proc \in Workers /\ r.phase # "sealed" BY DEF TypeOK, Tasks, NoTurn
    <3>2. UNCHANGED turn \/ turn' = [turn EXCEPT ![t.proc] = r] BY <2>1 DEF TaskExecute
    <3> HIDE DEF r
    <3> QED BY <1>1, <1>2, <3>1, <3>2
  <2>2. CASE ~TaskExecute(t)
    <3>1. UNCHANGED turn
      BY <1>4, <2>2 DEF TaskStep, TaskCorrupt, TaskReroute, TaskStart, TaskAttach, TaskAdopt, TaskSettle,
                        TaskGiveUp, TaskRefused, TaskFail, TaskRollForward, TaskLeaseLost
    <3> QED BY <1>1, <3>1
  <2> QED BY <2>1, <2>2
<1>5. ASSUME NEW q \in Workers, TurnStep(q) PROVE TurnMoves(p)
  <2>1. CASE TurnCheckpoint(q) BY <1>1, <2>1 DEF TurnCheckpoint
  <2>2. CASE TurnSeal(q)
    <3>1. q # p => turn'[p] = turn[p] BY <1>0, <2>2 DEF TurnSeal
    <3> QED BY <2>2, <3>1 DEF TurnMoves
  <2>3. CASE TurnCommit(q) \/ TurnFail(q)
    <3>1. turn' = [turn EXCEPT ![q] = NoTurn] BY <2>3 DEF TurnCommit, TurnFail, TurnOver
    <3> QED BY <1>2, <1>3, <3>1
  <2> QED BY <1>5, <2>1, <2>2, <2>3 DEF TurnStep
<1>6. ASSUME NEW q \in Workers, Crash(q) PROVE TurnMoves(p) BY <1>2, <1>3, <1>6 DEF Crash
<1>7. ASSUME NEW q \in Workers, DeliveryStep(q) PROVE UNCHANGED turn
  BY <1>7 DEF DeliveryStep, DeliveryClaim, DeliveryCommit, DeliveryRefused, DeliveryRetry, DeliveryAcknowledge
<1>8. ASSUME NEW i \in Inputs, AdmissionStep(i) \/ ClaimLapses(i) \/ DeliveryLapses(i) \/ OperatorRetry(i)
      PROVE  UNCHANGED turn
  BY <1>8 DEF AdmissionStep, AdmitAppend, AdmitProject, AdmitAttach, ClaimLapses, DeliveryLapses,
              OperatorRetry, local
<1>9. ASSUME NEW i \in Inputs, NEW q \in Workers, Classify(q, i) \/ ClaimWork(q, i) PROVE UNCHANGED turn
  BY <1>9 DEF Classify, ClaimWork, local
<1>10. ASSUME ClientMakes \/ ClientProject \/ GenerationEnds \/ UNCHANGED vars PROVE UNCHANGED turn
  BY <1>10 DEF ClientMakes, ClientCall, ClientWrite, ClientProject, GenerationEnds, vars, local
<1> QED BY <1>1, <1>4, <1>5, <1>6, <1>7, <1>8, <1>9, <1>10 DEF Next, ClientMakes

\* The answer under seal: whatever was read was in memory, and so had a row.
LEMMA SealReads ==
    ASSUME TurnInv, Bonds, NEW p \in Workers, TurnSeal(p) PROVE Read(turn'[p].heard, turn'[p].cursor)
<1> DEFINE i == turn[p].input
           js == ReadBy(p, i)
           c == Max({row[i].seq} \cup {row[j].seq : j \in js})
<1>1. TypeOK /\ InboxTypeOK BY DEF TurnInv, TypeOK
<1>2. turn[p] \in Turns /\ i \in Inputs BY <1>1 DEF TurnSeal, TypeOK, NoTurn, Turns
<1>3. js \in SUBSET Inputs /\ js \subseteq Known(stream[p]) BY DEF ReadBy, Known
<1>4. turn' = [turn EXCEPT ![p] = [turn[p] EXCEPT !.phase = "sealed", !.heard = js, !.cursor = c]]
  BY DEF TurnSeal
<1>5. row[i].seq \in Nat BY <1>1, <1>2 DEF InboxTypeOK, Rows
<1> HIDE DEF i, js
<1>6. \A j \in js : row[j].seq <= c BY <1>1, <1>3, <1>5, CursorCovers
<1> HIDE DEF c
<1>7. \A j \in js : Present(j) BY <1>3 DEF Bonds, Working
<1>8. turn'[p].heard = js /\ turn'[p].cursor = c BY <1>1, <1>2, <1>4 DEF TypeOK, Turns
<1> QED BY <1>6, <1>7, <1>8 DEF Read

LEMMA SealedKept ==
    ASSUME TurnInv, Bonds, [Next]_vars PROVE Sealed'
<1> SUFFICES ASSUME NEW p \in Workers, turn'[p].phase = "sealed"
             PROVE  \A j \in turn'[p].heard : Present(j)' /\ row'[j].seq <= turn'[p].cursor
  BY DEF Sealed, Read
<1>1. TypeOK /\ TypeOK' BY TurnInductive DEF TurnInv
<1>2. turn'[p].heard \in SUBSET Inputs BY <1>1 DEF TypeOK, NoTurn, Turns
<1>3. Read(turn'[p].heard, turn'[p].cursor)
  <2>1. CASE turn'[p] = turn[p] BY <2>1 DEF Bonds, Sealed
  <2>2. CASE TurnSeal(p) BY <2>2, SealReads
  <2> QED BY <1>1, <2>1, <2>2, StepMovesTurns DEF TurnMoves
<1> QED BY <1>2, <1>3, ReadStays

\* What an answer says it has read stands from the commit of its turn on.
AnswerMoves(i) ==
    \/ outbox'[i].heard = outbox[i].heard /\ outbox'[i].cursor = outbox[i].cursor
    \/ \E p \in Workers :
          /\ turn[p].phase = "sealed" /\ turn[p].input = i
          /\ outbox'[i].heard = turn[p].heard /\ outbox'[i].cursor = turn[p].cursor

LEMMA StepMovesAnswers ==
    ASSUME TypeOK, [Next]_vars, NEW i \in Inputs PROVE AnswerMoves(i)
<1>0. outbox \in [Inputs -> Terminals] /\ outbox[i] \in Terminals BY DEF TypeOK
<1>1. CASE UNCHANGED outbox BY <1>1 DEF AnswerMoves
<1>2. ASSUME NEW k \in Inputs, NEW r, r.heard = outbox[k].heard, r.cursor = outbox[k].cursor,
             outbox' = [outbox EXCEPT ![k] = r]
      PROVE  AnswerMoves(i)
  <2>1. CASE k = i BY <1>0, <1>2, <2>1 DEF AnswerMoves
  <2>2. CASE k # i BY <1>0, <1>2, <2>2 DEF AnswerMoves
  <2> QED BY <2>1, <2>2
<1>3. ASSUME NEW k \in Inputs, NEW s, NEW l
      PROVE  /\ [outbox[k] EXCEPT !.status = s].heard = outbox[k].heard
             /\ [outbox[k] EXCEPT !.status = s].cursor = outbox[k].cursor
             /\ [outbox[k] EXCEPT !.live = l].heard = outbox[k].heard
             /\ [outbox[k] EXCEPT !.live = l].cursor = outbox[k].cursor
  <2>1. outbox[k] \in Terminals BY <1>0
  <2> QED BY <2>1 DEF Terminals
<1>4. ASSUME NEW k \in Inputs, DeliveryLapses(k) \/ OperatorRetry(k) PROVE AnswerMoves(i)
  <2>1. \/ UNCHANGED outbox
        \/ outbox' = [outbox EXCEPT ![k] = [outbox[k] EXCEPT !.live = FALSE]]
        \/ outbox' = [outbox EXCEPT ![k] = [outbox[k] EXCEPT !.status = "pending"]]
    BY <1>4 DEF DeliveryLapses, OperatorRetry
  <2> QED BY <1>1, <1>2, <1>3, <2>1
<1>5. ASSUME NEW t \in tasks, TaskStep(t) PROVE AnswerMoves(i)
  <2> DEFINE r == [outbox[t.input] EXCEPT !.status = "pending", !.epoch = t.epoch, !.owner = Nobody,
                                          !.live = FALSE]
  <2>1. t.input \in Inputs BY DEF TypeOK, Tasks
  <2>2. UNCHANGED outbox \/ outbox' = [outbox EXCEPT ![t.input] = r]
    BY <1>5 DEF TaskStep, TaskCorrupt, TaskReroute, TaskStart, TaskAttach, TaskExecute, TaskAdopt, TaskSettle,
                TaskGiveUp, TaskRefused, TaskFail, TaskRollForward, TaskLeaseLost
  <2>3. outbox[t.input] \in Terminals BY <1>0, <2>1
  <2>4. r.heard = outbox[t.input].heard /\ r.cursor = outbox[t.input].cursor BY <2>3 DEF Terminals
  <2> HIDE DEF r
  <2> QED BY <1>1, <1>2, <2>1, <2>2, <2>4
<1>6. ASSUME NEW p \in Workers, TurnStep(p) PROVE AnswerMoves(i)
  <2> DEFINE k == turn[p].input
             r == [NoTerminal EXCEPT !.status = "pending", !.epoch = turn[p].epoch,
                                     !.cursor = turn[p].cursor, !.heard = turn[p].heard]
  <2>1. turn[p].phase # "none" => k \in Inputs BY DEF TypeOK, NoTurn, Turns
  <2>2. CASE TurnCommit(p)
    <3>1. turn[p].phase = "sealed" /\ outbox' = [outbox EXCEPT ![k] = r] BY <2>2 DEF TurnCommit
    <3>2. r.heard = turn[p].heard /\ r.cursor = turn[p].cursor BY DEF NoTerminal
    <3> HIDE DEF r
    <3>3. CASE k = i BY <1>0, <3>1, <3>2, <3>3 DEF AnswerMoves
    <3>4. CASE k # i BY <1>0, <3>1, <3>4 DEF AnswerMoves
    <3> QED BY <3>3, <3>4
  <2>3. CASE TurnFail(p)
    <3>1. UNCHANGED outbox \/ outbox' = [outbox EXCEPT ![k] = [outbox[k] EXCEPT !.status = "dead"]]
      BY <2>3 DEF TurnFail
    <3>2. k \in Inputs BY <2>1, <2>3 DEF TurnFail
    <3> QED BY <1>1, <1>2, <1>3, <3>1, <3>2
  <2>4. CASE TurnCheckpoint(p) \/ TurnSeal(p) BY <1>1, <2>4 DEF TurnCheckpoint, TurnSeal
  <2> QED BY <1>6, <2>2, <2>3, <2>4 DEF TurnStep
<1>7. ASSUME NEW p \in Workers, DeliveryStep(p) PROVE AnswerMoves(i)
  <2>1. ASSUME NEW k \in Inputs, DeliveryClaim(p, k) PROVE AnswerMoves(i)
    <3> DEFINE r == [outbox[k] EXCEPT !.status = "claimed", !.owner = p, !.live = TRUE]
    <3>1. outbox' = [outbox EXCEPT ![k] = r] BY <2>1 DEF DeliveryClaim
    <3>2. outbox[k] \in Terminals BY <1>0
    <3>3. r.heard = outbox[k].heard /\ r.cursor = outbox[k].cursor BY <3>2 DEF Terminals
    <3> HIDE DEF r
    <3> QED BY <1>2, <3>1, <3>3
  <2>2. CASE DeliveryCommit(p) BY <1>1, <2>2 DEF DeliveryCommit
  <2>3. CASE DeliveryRefused(p) \/ DeliveryRetry(p) \/ DeliveryAcknowledge(p)
    <3> DEFINE k == delivery[p].input
               r(s) == [outbox[k] EXCEPT !.status = s, !.owner = Nobody, !.live = FALSE]
    <3>1. k \in Inputs
      BY <2>3 DEF DeliveryRefused, DeliveryRetry, DeliveryAcknowledge, TypeOK, Deliveries, NoDelivery
    <3>2. PICK s : outbox' = Settled(p, s) BY <2>3 DEF DeliveryRefused, DeliveryRetry, DeliveryAcknowledge
    <3>3. UNCHANGED outbox \/ outbox' = [outbox EXCEPT ![k] = r(s)] BY <3>2 DEF Settled
    <3>4. outbox[k] \in Terminals BY <1>0, <3>1
    <3>5. r(s).heard = outbox[k].heard /\ r(s).cursor = outbox[k].cursor BY <3>4 DEF Terminals
    <3> HIDE DEF k, r
    <3> QED BY <1>1, <1>2, <3>1, <3>3, <3>5
  <2> QED BY <1>7, <2>1, <2>2, <2>3 DEF DeliveryStep
<1>8. ASSUME NEW k \in Inputs, NEW p \in Workers, Classify(p, k) \/ ClaimWork(p, k) PROVE UNCHANGED outbox
  BY <1>8 DEF Classify, ClaimWork, local
<1>9. ASSUME NEW k \in Inputs, AdmissionStep(k) \/ ClaimLapses(k) PROVE UNCHANGED outbox
  BY <1>9 DEF AdmissionStep, AdmitAppend, AdmitProject, AdmitAttach, ClaimLapses, local
<1>10. ASSUME NEW p \in Workers, Crash(p) PROVE UNCHANGED outbox BY <1>10 DEF Crash
<1>11. ASSUME ClientMakes \/ ClientProject \/ GenerationEnds \/ UNCHANGED vars PROVE UNCHANGED outbox
  BY <1>11 DEF ClientMakes, ClientCall, ClientWrite, ClientProject, GenerationEnds, vars, local
<1> QED BY <1>1, <1>4, <1>5, <1>6, <1>7, <1>8, <1>9, <1>10, <1>11 DEF Next, ClientMakes

LEMMA CommittedKept ==
    ASSUME TurnInv, Bonds, [Next]_vars PROVE Committed'
<1> SUFFICES ASSUME NEW i \in Inputs
             PROVE  \A j \in outbox'[i].heard : Present(j)' /\ row'[j].seq <= outbox'[i].cursor
  BY DEF Committed, Read
<1>1. TypeOK /\ TypeOK' BY TurnInductive DEF TurnInv
<1>2. outbox'[i].heard \in SUBSET Inputs BY <1>1 DEF TypeOK, Terminals
<1>3. Read(outbox'[i].heard, outbox'[i].cursor)
  BY <1>1, StepMovesAnswers DEF AnswerMoves, Bonds, Sealed, Committed
<1> QED BY <1>2, <1>3, ReadStays

LEMMA BondsKept ==
    ASSUME TurnInv, Bonds, [Next]_vars PROVE Bonds'
  BY AskingKept, EnteredKept, WorkingKept, SealedKept, CommittedKept DEF Bonds
-----------------------------------------------------------------------------
(***************************************************************************)
(* The step that answers.  A row that asks for a turn, is of the turn's    *)
(* generation and came after the turn's own row is among the supplements   *)
(* the commit looks for, whatever turn it asks for: it is covered by the   *)
(* cursor, or it stands above it and the commit is refused.                *)
(***************************************************************************)
\* The row that is completed is that of the answer.
LEMMA CompletedIsAnswered ==
    ASSUME TurnInv, Ledger, [Next]_vars, NEW i \in Inputs,
           row[i].status # "completed", row'[i].status = "completed"
    PROVE  \E e : CommitTranscript(i, e, outbox[i].cursor)
<1>1. PICK p \in Workers : Answers(p) BY StepIsQuiet DEF Quiet
<1> DEFINE k == delivery[p].input
<1>2. k \in Inputs BY <1>1 DEF Answers, DeliveryCommit, TurnInv, TypeOK, Deliveries, NoDelivery
<1>3. CommitTranscript(k, delivery[p].epoch, outbox[k].cursor) BY <1>1 DEF Answers
<1> HIDE DEF k
<1>4. InboxTypeOK BY DEF TurnInv, TypeOK
<1>5. /\ \A j \in Inputs \ ({k} \cup Covered(k, outbox[k].cursor)) : row'[j] = row[j]
      /\ \A j \in Covered(k, outbox[k].cursor) \ {k} : row'[j].status = "supplemented"
  BY <1>2, <1>3, <1>4, CommitType
<1>6. i = k BY <1>5
<1> QED BY <1>3, <1>6

LEMMA NoneLeftKept ==
    ASSUME TurnInv, Ledger, Bonds, NoneLeftAttached, [Next]_vars PROVE NoneLeftAttached'
<1> SUFFICES ASSUME NEW i \in Inputs, NEW j \in Inputs, row'[i].status = "completed",
                    row'[j].target = i, row'[j].gen = row'[i].gen, row'[j].seq > row'[i].seq,
                    row'[j].status = "attached"
             PROVE  FALSE
  BY DEF NoneLeftAttached
<1>1. TypeOK /\ InboxTypeOK /\ InboxInv /\ [InboxNext]_inbox BY TurnInductive DEF TurnInv, TypeOK
<1>2. ~Enters(j) /\ ~Enters(i) BY <1>1, RowEntered
<1>3. Present(j) /\ Present(i) BY <1>1, <1>2, RowComes DEF Present
<1>4. Follows(j, row'[j]) /\ Follows(i, row'[i]) BY <1>1, <1>3, RowStays
<1>5. row[j].target = i /\ row[j].gen = row[i].gen /\ row[j].seq > row[i].seq BY <1>4 DEF Follows
<1>6. CASE row[i].status = "completed"
  <2>1. row[j].status # "attached" BY <1>5, <1>6 DEF NoneLeftAttached
  <2>2. Admits(j) /\ ~TurnIsTerminal(i) BY <1>4, <1>5, <2>1 DEF Follows
  <2> QED BY <1>5, <1>6, <2>2 DEF Admits, TurnIsTerminal, Terminal
<1>7. CASE row[i].status # "completed"
  <2> DEFINE c == outbox[i].cursor
  <2>1. PICK e : CommitTranscript(i, e, c) BY <1>7, CompletedIsAnswered
  <2>2. c \in Nat /\ row[j].seq \in Nat BY <1>1 DEF TypeOK, Terminals, InboxTypeOK, Rows
  <2> HIDE DEF c
  <2>3. /\ \A k \in Inputs \ ({i} \cup Covered(i, c)) : row'[k] = row[k]
        /\ \A k \in Covered(i, c) \ {i} : row'[k].status = "supplemented"
    BY <1>1, <2>1, CommitType
  <2>4. j # i /\ j \notin Covered(i, c) BY <2>3
  <2>5. row[j].status = "attached" BY <2>3, <2>4
  <2>6. j \in Supplements(i) BY <1>5 DEF Bonds, Asking, DecisionFor, Supplements
  <2>7. row[j].seq > c BY <2>2, <2>4, <2>5, <2>6 DEF Covered
  <2>8. j \in Unread(i, c) BY <2>5, <2>6, <2>7 DEF Unread, Terminal
  <2> QED BY <2>1, <2>8 DEF CommitTranscript, Committable
<1> QED BY <1>6, <1>7

\* For any inputs, processes and mishaps: no answer leaves an input attached to
\* its turn that came after the turn's own.
THEOREM AnswerLeavesNoneAttached == Spec => []NoneLeftAttached
<1>1. Init => NoneLeftAttached BY DEF Init, InboxInit, NoRow, NoneLeftAttached
<1>2. TurnInv /\ Ledger /\ [Next]_vars => TurnInv' /\ Ledger' BY LedgerInductive
<1>3. TurnInv /\ Ledger /\ Bonds /\ NoneLeftAttached /\ [Next]_vars => Bonds' /\ NoneLeftAttached'
  BY BondsKept, NoneLeftKept
<1> QED BY <1>1, <1>2, <1>3, TurnStarts, LedgerStarts, BondsStart, PTL DEF Spec

\* What a turn has read is covered by its answer, if it is what the commit looks
\* for.
LEMMA HeardIsCovered ==
    ASSUME TurnInv, Bonds, NEW i \in Inputs, NEW j \in outbox[i].heard, j \in Supplements(i),
           row[j].status \notin Terminal \cup {"blocked"}
    PROVE  j \in Covered(i, outbox[i].cursor)
<1>1. j \in Inputs BY DEF Supplements
<1>2. Present(j) /\ row[j].seq <= outbox[i].cursor BY DEF Bonds, Committed, Read
<1>3. row[j].status \in Statuses BY <1>1 DEF TurnInv, TypeOK, InboxTypeOK, Rows
<1>4. row[j].status \in Waiting \cup Holding \cup {"attached"} BY <1>2, <1>3 DEF Statuses, Present
<1> QED BY <1>2, <1>4 DEF Covered

\* For any inputs, processes and mishaps: the step that enters an answer ends
\* every input its turn has read as a supplement, if it came after the turn's own
\* and in its generation, except what is blocked.
THEOREM AnswerSettlesHeard == Spec => HeardIsSettled
<1> DEFINE Settles(i, j) ==
             /\ row[i].status # "completed" /\ row'[i].status = "completed"
             /\ j \in outbox[i].heard /\ row[j].gen = row[i].gen /\ row[j].seq > row[i].seq
             /\ row[j].decision = "SupplementCurrentTurn" /\ row[j].status # "blocked"
             => row'[j].status \in Terminal
<1>1. ASSUME TurnInv, Ledger, Bonds, [Next]_vars, NEW i \in Inputs, NEW j \in Inputs PROVE Settles(i, j)
  <2> SUFFICES ASSUME row[i].status # "completed", row'[i].status = "completed", j \in outbox[i].heard,
                      row[j].gen = row[i].gen, row[j].seq > row[i].seq,
                      row[j].decision = "SupplementCurrentTurn", row[j].status # "blocked"
               PROVE  row'[j].status \in Terminal
    OBVIOUS
  <2> DEFINE c == outbox[i].cursor
  <2>1. PICK e : CommitTranscript(i, e, c) BY <1>1, CompletedIsAnswered
  <2>2. InboxTypeOK BY <1>1 DEF TurnInv, TypeOK
  <2>3. j \in Supplements(i) BY DEF Supplements
  <2>5. row[j].status \notin Terminal => j \in Covered(i, c) BY <1>1, <2>3, HeardIsCovered
  <2> HIDE DEF c
  <2>4. /\ \A k \in Inputs \ ({i} \cup Covered(i, c)) : row'[k] = row[k]
        /\ \A k \in Covered(i, c) \ {i} : row'[k].status = "supplemented"
        /\ row'[i].status = "completed"
    BY <2>1, <2>2, CommitType
  <2> QED BY <2>4, <2>5 DEF Terminal
<1>2. TurnInv /\ Ledger /\ Bonds /\ [Next]_vars => [\A i, j \in Inputs : Settles(i, j)]_vars BY <1>1
<1>3. TurnInv /\ Ledger /\ [Next]_vars => TurnInv' /\ Ledger' BY LedgerInductive
<1>4. TurnInv /\ Ledger /\ Bonds /\ [Next]_vars => Bonds' BY BondsKept
<1> QED BY <1>2, <1>3, <1>4, TurnStarts, LedgerStarts, BondsStart, PTL DEF Spec, HeardIsSettled
=============================================================================
