------------------------- MODULE SessionTurnProofs -------------------------
(***************************************************************************)
(* Theorems about the way of an input through the gateway, for every set   *)
(* of inputs and processes and any number of mishaps: the types, that the  *)
(* gateway uses the inbox as SessionInbox says, and with it the theorems   *)
(* about the inbox, that completed rows are the answered ones, and that a  *)
(* materialized terminal is in the transcript under its own claim.         *)
(***************************************************************************)
EXTENDS SessionTurn, SessionInboxProofs, WellFoundedInduction

(***************************************************************************)
(* The largest of finitely many numbers                                    *)
(***************************************************************************)
Peaked(X) == \E m \in X : \A y \in X : m >= y

\* A finite set of numbers that is not empty has a largest one: the smallest
\* set without one would have one as soon as an element is taken away.
LEMMA FinitePeak ==
    ASSUME NEW S \in SUBSET Nat, IsFiniteSet(S), S # {} PROVE Peaked(S)
<1> DEFINE T == {X \in FiniteSubsetsOf(Nat) : X # {} /\ ~Peaked(X)}
<1> SUFFICES ASSUME ~Peaked(S) PROVE FALSE OBVIOUS
<1>1. S \in T BY DEF FiniteSubsetsOf
<1>2. T \subseteq FiniteSubsetsOf(Nat) /\ T # {} BY <1>1
<1>3. IsWellFoundedOn(StrictSubsetOrdering(Nat), FiniteSubsetsOf(Nat))
  BY FS_StrictSubsetOrderingWellFounded
<1> HIDE DEF T
<1>4. PICK X \in T : \A Y \in T : ~(<<Y, X>> \in StrictSubsetOrdering(Nat))
  BY <1>2, <1>3, WFMin
<1>5. X \in SUBSET Nat /\ IsFiniteSet(X) /\ X # {} /\ ~Peaked(X)
  BY <1>4 DEF T, FiniteSubsetsOf
<1>6. PICK x \in X : TRUE BY <1>5
<1> DEFINE Y == X \ {x}
<1>7. IsFiniteSet(Y) BY <1>5, FS_RemoveElement
<1>8. Y \in SUBSET Nat /\ Y \subseteq X /\ Y # X BY <1>5, <1>6
<1>9. <<Y, X>> \in StrictSubsetOrdering(Nat)
  BY <1>5, <1>8 DEF StrictSubsetOrdering
<1>10. Y \notin T BY <1>4, <1>9
<1>11. Y = {} \/ Peaked(Y) BY <1>7, <1>8, <1>10 DEF T, FiniteSubsetsOf
<1>12. Y # {}
  <2> SUFFICES ASSUME Y = {} PROVE FALSE OBVIOUS
  <2>1. X = {x} BY <1>6
  <2> QED BY <1>5, <1>6, <2>1 DEF Peaked
<1>13. PICK m \in Y : \A y \in Y : m >= y BY <1>11, <1>12 DEF Peaked
<1>14. x \in Nat /\ m \in Nat /\ \A y \in X : y \in Nat BY <1>5, <1>6
<1>15. \A y \in X : y = x \/ y \in Y OBVIOUS
<1>16. CASE m >= x
  BY <1>5, <1>13, <1>14, <1>15, <1>16 DEF Peaked
<1>17. CASE x >= m
  <2>1. \A y \in X : x >= y BY <1>13, <1>14, <1>15, <1>17
  <2> QED BY <1>5, <1>6, <2>1 DEF Peaked
<1> QED BY <1>14, <1>16, <1>17

LEMMA MaxIsNatural ==
    ASSUME NEW S \in SUBSET Nat, IsFiniteSet(S), S # {} PROVE Max(S) \in Nat
  BY FinitePeak DEF Max, Peaked

\* The cursor of a process is a number, whatever inputs it is taken from.
LEMMA CursorIsNatural ==
    ASSUME InboxTypeOK, NEW n \in Nat, NEW js \in SUBSET Inputs
    PROVE  Max({n} \cup {row[j].seq : j \in js}) \in Nat
<1> DEFINE S == {row[j].seq : j \in js}
           f == [j \in js |-> row[j].seq]
<1>1. IsFiniteSet(js) BY InboxAssumption, FS_Subset
<1>2. f \in Surjection(js, S) BY DEF Surjection
<1>3. IsFiniteSet(S) BY <1>1, <1>2, FS_Surjection
<1>4. IsFiniteSet({n} \cup S) BY <1>3, FS_Singleton, FS_Union
<1>5. S \in SUBSET Nat BY DEF InboxTypeOK, Rows
<1> HIDE DEF S
<1>6. {n} \cup S \in SUBSET Nat /\ {n} \cup S # {} BY <1>5
<1>7. Max({n} \cup S) \in Nat BY <1>4, <1>6, MaxIsNatural
<1> QED BY <1>7 DEF S
-----------------------------------------------------------------------------
(***************************************************************************)
(* Every step of the gateway is a transaction of the inbox or leaves it    *)
(* alone.  A fenced write that is done is one under the row's claim.       *)
(***************************************************************************)
LEMMA LeaseIsPresent ==
    ASSUME NEW i, NEW e, NEW statuses, Lease(i, e, statuses) PROVE e = row[i].attempts
  BY DEF Lease

LEMMA DecisionForType == \A t : DecisionFor(t) \in Decisions
  BY DEF DecisionFor, Decisions

LEMMA RequeueIsInbox ==
    ASSUME NEW i \in Inputs, NEW e, NEW d \in Decisions, NEW t \in Inputs \cup {NoInput},
           Requeue(i, e, d, t)
    PROVE  InboxNext
<1>1. e = row[i].attempts BY LeaseIsPresent DEF Requeue
<1>2. WorkerStep(i) BY <1>1 DEF WorkerStep
<1> QED BY <1>2 DEF InboxNext

LEMMA AcknowledgeIsInbox ==
    ASSUME NEW i \in Inputs, NEW e, NEW s \in {"attached", "completed"}, Acknowledge(i, e, s)
    PROVE  InboxNext
<1>1. e = row[i].attempts BY LeaseIsPresent DEF Acknowledge, Acknowledgeable
<1>2. \E x \in {"attached", "completed", "supplemented", "cancelled"} : Acknowledge(i, row[i].attempts, x)
  BY <1>1
<1>3. WorkerStep(i) BY <1>2 DEF WorkerStep
<1> QED BY <1>3 DEF InboxNext

LEMMA AdmissionIsInbox ==
    ASSUME TypeOK, NEW i \in Inputs, AdmissionStep(i) PROVE [InboxNext]_inbox
<1>1. CASE AdmitAppend(i)
  <2>1. DecisionFor(admission[i].target) \in Decisions /\ admission[i].target \in Inputs \cup {NoInput}
    BY DecisionForType DEF TypeOK, Admissions
  <2>2. CASE open /\ admission[i].gen = generation
    <3>1. AppendInput(i, generation, DecisionFor(admission[i].target), admission[i].target)
      BY <1>1, <2>2 DEF AdmitAppend
    <3> QED BY <2>1, <3>1 DEF InboxNext, ClientStep
  <2> QED BY <1>1, <2>2 DEF AdmitAppend
<1>2. CASE AdmitProject(i) BY <1>2 DEF AdmitProject
<1>3. CASE AdmitAttach(i)
  <2>1. AttachInput(i) \/ UNCHANGED inbox BY <1>3 DEF AdmitAttach
  <2> QED BY <2>1 DEF InboxNext, ClientStep
<1> QED BY <1>1, <1>2, <1>3 DEF AdmissionStep

LEMMA TaskIsInbox ==
    ASSUME TypeOK, NEW t \in tasks, TaskStep(t) PROVE [InboxNext]_inbox
<1>1. t.input \in Inputs /\ t.class \in Classes BY DEF TypeOK, Tasks
<1>2. DecisionFor(t.target) \in Decisions /\ t.target \in Inputs \cup {NoInput}
  BY DecisionForType DEF TypeOK, Tasks
<1>3. "StartNewTurn" \in Decisions /\ NoInput \in Inputs \cup {NoInput} BY DEF Decisions
<1>4. ASSUME NEW d \in Decisions, NEW x \in Inputs \cup {NoInput}, Requeue(t.input, t.epoch, d, x)
      PROVE  InboxNext
  BY <1>1, <1>4, RequeueIsInbox
<1>5. CASE TaskReroute(t)
  <2>1. \/ Requeue(t.input, t.epoch, "StartNewTurn", NoInput)
        \/ Requeue(t.input, t.epoch, DecisionFor(t.target), t.target)
        \/ UNCHANGED inbox
    BY <1>5 DEF TaskReroute
  <2> QED BY <1>2, <1>3, <1>4, <2>1
<1>6. CASE TaskStart(t)
  <2>1. CASE UNCHANGED inbox BY <2>1
  <2>2. CASE MarkRunning(t.input, t.epoch)
    <3>1. t.epoch = row[t.input].attempts BY <2>2, LeaseIsPresent DEF MarkRunning
    <3>2. WorkerStep(t.input) BY <2>2, <3>1 DEF WorkerStep
    <3> QED BY <1>1, <3>2 DEF InboxNext
  <2> QED BY <1>6, <2>1, <2>2 DEF TaskStart
<1>7. CASE TaskAttach(t)
  <2>1. \/ Acknowledge(t.input, t.epoch, "attached")
        \/ Requeue(t.input, t.epoch, "StartNewTurn", NoInput)
        \/ UNCHANGED inbox
    BY <1>7 DEF TaskAttach
  <2> QED BY <1>1, <1>3, <1>4, <2>1, AcknowledgeIsInbox
<1>8. CASE TaskExecute(t)
  <2>1. Requeue(t.input, t.epoch, DecisionFor(t.target), t.target) \/ UNCHANGED inbox
    BY <1>8 DEF TaskExecute
  <2> QED BY <1>2, <1>4, <2>1
<1>9. CASE TaskSettle(t)
  <2>1. Acknowledge(t.input, t.epoch, "completed") \/ UNCHANGED inbox
    BY <1>9 DEF TaskSettle
  <2> QED BY <1>1, <2>1, AcknowledgeIsInbox
<1>10. CASE TaskFail(t)
  <2>1. CASE UNCHANGED inbox BY <2>1
  <2>2. CASE Fail(t.input, t.epoch, t.class)
    <3>1. t.epoch = row[t.input].attempts BY <2>2, LeaseIsPresent DEF Fail
    <3>2. \E class \in Classes : Fail(t.input, row[t.input].attempts, class) BY <1>1, <2>2, <3>1
    <3>3. WorkerStep(t.input) BY <3>2 DEF WorkerStep
    <3> QED BY <1>1, <3>3 DEF InboxNext
  <2> QED BY <1>10, <2>1, <2>2 DEF TaskFail
<1>11. CASE TaskRollForward(t)
  <2>1. (\E j \in Inputs : ReclassifyInput(j, "StartNewTurn", NoInput)) \/ UNCHANGED inbox
    BY <1>11 DEF TaskRollForward, Unapplied
  <2> QED BY <1>3, <2>1 DEF InboxNext, ClientStep
<1>12. CASE TaskCorrupt(t) \/ TaskAdopt(t) \/ TaskGiveUp(t) \/ TaskRefused(t) \/ TaskLeaseLost(t)
  BY <1>12 DEF TaskCorrupt, TaskAdopt, TaskGiveUp, TaskRefused, TaskLeaseLost
<1> QED BY <1>5, <1>6, <1>7, <1>8, <1>9, <1>10, <1>11, <1>12 DEF TaskStep

LEMMA DeliveryIsInbox ==
    ASSUME TypeOK, NEW p \in Workers, DeliveryStep(p) PROVE [InboxNext]_inbox
<1>1. CASE DeliveryCommit(p)
  <2>1. delivery[p].input \in Inputs
    BY <1>1 DEF DeliveryCommit, TypeOK, Deliveries, NoDelivery
  <2>2. CASE UNCHANGED inbox BY <2>2
  <2>3. CASE CommitTranscript(delivery[p].input, delivery[p].epoch, outbox[delivery[p].input].cursor)
    <3>1. delivery[p].epoch = row[delivery[p].input].attempts
      BY <2>3, LeaseIsPresent DEF CommitTranscript, Committable, FenceValid
    <3>2. \E c : CommitTranscript(delivery[p].input, row[delivery[p].input].attempts, c) BY <2>3, <3>1
    <3>3. WorkerStep(delivery[p].input) BY <3>2 DEF WorkerStep
    <3> QED BY <2>1, <3>3 DEF InboxNext
  <2> QED BY <1>1, <2>2, <2>3 DEF DeliveryCommit
<1>2. CASE (\E i \in Inputs : DeliveryClaim(p, i)) \/ DeliveryRefused(p) \/ DeliveryRetry(p) \/ DeliveryAcknowledge(p)
  BY <1>2 DEF DeliveryClaim, DeliveryRefused, DeliveryRetry, DeliveryAcknowledge
<1> QED BY <1>1, <1>2 DEF DeliveryStep

\* The calls of clients, one step of which is a transaction.
ClientMakes ==
    \/ \E p \in Workers, i \in Inputs, op \in {"cancel", "reclassify"} : ClientCall(p, i, op)
    \/ ClientWrite

LEMMA ClientTransactions ==
    ASSUME TypeOK, ClientMakes
    PROVE  \/ UNCHANGED inbox
           \/ \E i \in Inputs : CancelInput(i)
           \/ \E i \in Inputs, d \in Decisions, t \in Inputs \cup {NoInput} : ReclassifyInput(i, d, t)
<1>1. "StartNewTurn" \in Decisions /\ "SupplementCurrentTurn" \in Decisions BY DEF Decisions
<1>2. CASE ClientWrite
  <2>1. client.input \in Inputs /\ client.target \in Inputs \cup {NoInput}
    BY <1>2 DEF ClientWrite, TypeOK, Calls, NoCall
  <2>2. ReclassifyInput(client.input, "SupplementCurrentTurn", client.target) \/ UNCHANGED inbox
    BY <1>2 DEF ClientWrite
  <2> QED BY <1>1, <2>1, <2>2
<1>3. ASSUME NEW p \in Workers, NEW i \in Inputs, NEW op, ClientCall(p, i, op)
      PROVE  CancelInput(i) \/ ReclassifyInput(i, "StartNewTurn", NoInput) \/ UNCHANGED inbox
  BY <1>3 DEF ClientCall
<1> QED BY <1>1, <1>2, <1>3 DEF ClientMakes

LEMMA StepIsInbox ==
    ASSUME TypeOK, [Next]_vars PROVE [InboxNext]_inbox
<1>1. CASE UNCHANGED vars BY <1>1 DEF vars
<1>2. ASSUME NEW i \in Inputs, ClaimLapses(i) \/ OperatorRetry(i) PROVE [InboxNext]_inbox
  <2>1. Expire(i) \/ RetryBlocked(i) \/ UNCHANGED inbox BY <1>2 DEF ClaimLapses, OperatorRetry
  <2> QED BY <2>1 DEF InboxNext, ClientStep, WorkerStep
<1>3. ASSUME NEW i \in Inputs, NEW p \in Workers, ClaimWork(p, i) PROVE InboxNext
  BY <1>3 DEF ClaimWork, InboxNext, WorkerStep
<1>4. CASE ClientMakes BY <1>4, ClientTransactions DEF InboxNext, ClientStep
<1>8. CASE GenerationEnds BY <1>8 DEF GenerationEnds, InboxNext
<1>9. CASE ClientProject BY <1>9 DEF ClientProject
<1>5. ASSUME NEW i \in Inputs, NEW p \in Workers, Classify(p, i) PROVE UNCHANGED inbox
  BY <1>5 DEF Classify
<1>6. ASSUME NEW p \in Workers, TurnStep(p) \/ Crash(p) PROVE UNCHANGED inbox
  BY <1>6 DEF TurnStep, TurnCheckpoint, TurnSeal, TurnCommit, TurnFail, Crash
<1>7. ASSUME NEW i \in Inputs, DeliveryLapses(i) PROVE UNCHANGED inbox
  BY <1>7 DEF DeliveryLapses
<1> QED
  BY <1>1, <1>2, <1>3, <1>4, <1>5, <1>6, <1>7, <1>8, <1>9, AdmissionIsInbox, TaskIsInbox, DeliveryIsInbox
     DEF Next, ClientMakes
-----------------------------------------------------------------------------
(***************************************************************************)
(* The types, variable by variable.  LocalTypeOK is what TypeOK says of    *)
(* the processes and the Runtime's outbox.                                 *)
(***************************************************************************)
LocalTypeOK ==
    /\ admission \in [Inputs -> Admissions] /\ outbox \in [Inputs -> Terminals]
    /\ tasks \subseteq Tasks /\ loaded \subseteq Workers
    /\ turn \in [Workers -> Turns \cup {NoTurn}]
    /\ delivery \in [Workers -> Deliveries \cup {NoDelivery}]
    /\ stream \in [Workers -> Streams] /\ client \in Calls \cup {NoCall}
    /\ mishaps \in 0..MaxMishaps

LEMMA MishapType ==
    ASSUME mishaps \in 0..MaxMishaps, NEW m, Mishap(m) PROVE mishaps' \in 0..MaxMishaps
  BY TurnAssumption DEF Mishap

\* An admission that is over, and a stream that has taken inputs in.
LEMMA AdmittedType ==
    ASSUME LocalTypeOK, NEW i \in Inputs PROVE Admitted(i) \in Admissions
<1>1. admission[i] \in Admissions BY DEF LocalTypeOK
<1> QED BY <1>1 DEF Admitted, Admissions

LEMMA AppliedType ==
    ASSUME NEW rec \in Records \cup {NoRecord}, NEW s, NEW t \in Inputs \cup {NoInput}
    PROVE  Applied(rec, Receipt(s, t)) \in Records \cup {NoRecord}
<1>1. rec.state # "none" => rec.state \in {"hot", "read", "seen"} BY DEF Records, NoRecord
<1> QED BY <1>1 DEF Applied, Receipt, Records

LEMMA ProjectedType ==
    ASSUME TypeOK, NEW s \in Streams, NEW js \in SUBSET Inputs, NEW st, NEW t \in Inputs \cup {NoInput}
    PROVE  Projected(s, js, Receipt(st, t)) \in Streams
<1> DEFINE r == Receipt(st, t)
           new == {j \in js : s.rec[j].state = "none" /\ row[j].seq > s.admitted}
           rec == [j \in Inputs |-> IF j \in new THEN [state |-> "hot", target |-> r.target]
                                    ELSE IF j \in js THEN Applied(s.rec[j], r) ELSE s.rec[j]]
<1>1. s.admitted \in Nat /\ s.rec \in [Inputs -> Records \cup {NoRecord}] /\ new \in SUBSET Inputs
  BY DEF Streams
<1>2. [state |-> "hot", target |-> r.target] \in Records BY DEF Records, Receipt
<1>3. \A j \in Inputs : Applied(s.rec[j], r) \in Records \cup {NoRecord} BY <1>1, AppliedType
<1>4. Projected(s, js, r) = [admitted |-> Max({s.admitted} \cup {row[j].seq : j \in new}), rec |-> rec]
  BY DEF Projected
<1> HIDE DEF new, r
<1>5. Max({s.admitted} \cup {row[j].seq : j \in new}) \in Nat
  BY <1>1, CursorIsNatural DEF TypeOK
<1>6. rec \in [Inputs -> Records \cup {NoRecord}] BY <1>1, <1>2, <1>3
<1> HIDE DEF rec
<1>7. Projected(s, js, r) \in Streams BY <1>4, <1>5, <1>6 DEF Streams
<1> QED BY <1>7 DEF r

\* A stream that is told of an input.
LEMMA NotifiedType ==
    ASSUME LocalTypeOK, NEW p, NEW i \in Inputs, NEW s, NEW t \in Inputs \cup {NoInput}
    PROVE  Notified(p, i, Receipt(s, t)) \in [Workers -> Streams]
<1> DEFINE r == Receipt(s, t)
<1>1. CASE p \in Workers
  <2>1. stream[p] \in Streams BY <1>1 DEF LocalTypeOK
  <2>2. stream[p].rec \in [Inputs -> Records \cup {NoRecord}] BY <2>1 DEF Streams
  <2>3. Applied(stream[p].rec[i], r) \in Records \cup {NoRecord} BY <2>2, AppliedType
  <2>4. Notified(p, i, r) = [stream EXCEPT ![p] = [stream[p] EXCEPT !.rec =
                               [stream[p].rec EXCEPT ![i] = Applied(stream[p].rec[i], r)]]]
    BY DEF Notified
  <2> HIDE DEF r
  <2>5. [stream[p].rec EXCEPT ![i] = Applied(stream[p].rec[i], r)] \in [Inputs -> Records \cup {NoRecord}]
    BY <2>2, <2>3
  <2>6. [stream[p] EXCEPT !.rec = [stream[p].rec EXCEPT ![i] = Applied(stream[p].rec[i], r)]] \in Streams
    BY <2>1, <2>5 DEF Streams
  <2>7. Notified(p, i, r) \in [Workers -> Streams] BY <1>1, <2>4, <2>6 DEF LocalTypeOK
  <2> QED BY <2>7 DEF r
<1>2. CASE p \notin Workers BY <1>2 DEF Notified, LocalTypeOK
<1> QED BY <1>1, <1>2

\* The tasks when one of them moves, fails or ends.
LEMMA TasksType ==
    ASSUME tasks \subseteq Tasks, NEW t \in tasks
    PROVE  /\ \A pc \in {"attach", "execute", "turn", "adopt", "await", "roll"} : Moved(t, pc) \subseteq Tasks
           /\ \A class \in Classes : Failing(t, class) \subseteq Tasks
           /\ Ended(t) \subseteq Tasks
<1>1. t \in Tasks OBVIOUS
<1>2. ASSUME NEW pc \in {"attach", "execute", "turn", "adopt", "await", "roll"}
      PROVE  [t EXCEPT !.pc = pc] \in Tasks
  BY <1>1 DEF Tasks
<1>3. ASSUME NEW class \in Classes PROVE [t EXCEPT !.pc = "failed", !.class = class] \in Tasks
  BY <1>1 DEF Tasks
<1> QED BY <1>2, <1>3 DEF Moved, Failing, Ended

\* A terminal that a delivery gives back, and one in general.
LEMMA TerminalType ==
    ASSUME NEW r \in Terminals,
           NEW s \in {"none", "pending", "claimed", "materialized", "blocked", "dead"}
    PROVE  /\ [r EXCEPT !.status = s, !.owner = Nobody, !.live = FALSE] \in Terminals
           /\ [r EXCEPT !.status = s] \in Terminals
           /\ [r EXCEPT !.live = FALSE] \in Terminals
           /\ \A p \in Workers : [r EXCEPT !.status = s, !.owner = p, !.live = TRUE] \in Terminals
           /\ \A e \in Nat : [r EXCEPT !.status = s, !.epoch = e, !.owner = Nobody, !.live = FALSE]
                               \in Terminals
  BY DEF Terminals

LEMMA SettledType ==
    ASSUME LocalTypeOK, NEW p \in Workers, delivery[p].pc # "idle",
           NEW s \in {"pending", "materialized", "blocked"}
    PROVE  /\ delivery[p].input \in Inputs /\ delivery[p] \in Deliveries
           /\ Settled(p, s) \in [Inputs -> Terminals]
<1>1. delivery[p] \in Deliveries BY DEF LocalTypeOK, NoDelivery
<1>2. delivery[p].input \in Inputs BY <1>1 DEF Deliveries
<1>3. outbox[delivery[p].input] \in Terminals BY <1>2 DEF LocalTypeOK
<1>4. [outbox[delivery[p].input] EXCEPT !.status = s, !.owner = Nobody, !.live = FALSE] \in Terminals
  BY <1>3, TerminalType
<1>5. Settled(p, s) \in [Inputs -> Terminals]
  BY <1>2, <1>4 DEF Settled, LocalTypeOK
<1> QED BY <1>1, <1>2, <1>5
-----------------------------------------------------------------------------
LEMMA ClassifyType ==
    ASSUME TypeOK, LocalTypeOK, NEW p \in Workers, NEW i \in Inputs, Classify(p, i) PROVE LocalTypeOK'
<1>1. generation \in Nat BY DEF TypeOK, InboxTypeOK
<1>2. ASSUME NEW t \in Inputs \cup {NoInput}
      PROVE  [pc |-> "append", proc |-> p, gen |-> generation, target |-> t] \in Admissions
  BY <1>1 DEF Admissions
<1>3. PICK r \in Admissions : admission' = [admission EXCEPT ![i] = r]
  BY <1>2 DEF Classify
<1>4. admission' \in [Inputs -> Admissions] BY <1>3 DEF LocalTypeOK
<1> QED BY <1>4 DEF Classify, local, LocalTypeOK

LEMMA AdmissionType ==
    ASSUME TypeOK, LocalTypeOK, InboxTypeOK', NEW i \in Inputs, AdmissionStep(i) PROVE LocalTypeOK'
<1>1. Admitted(i) \in Admissions BY AdmittedType
<1>2. admission[i] \in Admissions BY DEF LocalTypeOK
<1>3. [admission[i] EXCEPT !.pc = "project"] \in Admissions
      /\ [admission[i] EXCEPT !.pc = "attach"] \in Admissions
      /\ admission[i].target \in Inputs \cup {NoInput}
  BY <1>2 DEF Admissions
<1>4. PICK a \in Admissions : admission' = [admission EXCEPT ![i] = a]
  BY <1>1, <1>3 DEF AdmissionStep, AdmitAppend, AdmitProject, AdmitAttach
<1>5. admission' \in [Inputs -> Admissions] BY <1>4 DEF LocalTypeOK
<1>6. CASE AdmitProject(i)
  <2> DEFINE p == admission[i].proc
             r == Receipt("queued", admission[i].target)
  <2>1. CASE p \in loaded
    <3>1. p \in Workers /\ stream[p] \in Streams BY <2>1 DEF LocalTypeOK
    <3>2. Projected(stream[p], {i}, r) \in Streams BY <1>3, <3>1, ProjectedType
    <3>3. stream' = [stream EXCEPT ![p] = Projected(stream[p], {i}, r)] BY <1>6, <2>1 DEF AdmitProject
    <3>4. stream' \in [Workers -> Streams] BY <3>1, <3>2, <3>3 DEF LocalTypeOK
    <3> QED BY <1>5, <1>6, <3>4 DEF AdmitProject, LocalTypeOK
  <2>2. CASE p \notin loaded
    <3>1. stream' = stream BY <1>6, <2>2 DEF AdmitProject
    <3> QED BY <1>5, <1>6, <3>1 DEF AdmitProject, LocalTypeOK
  <2> QED BY <2>1, <2>2
<1>7. CASE AdmitAppend(i)
  BY <1>5, <1>7 DEF AdmitAppend, local, LocalTypeOK
<1>8. CASE AdmitAttach(i)
  <2>1. row'[i].target \in Inputs \cup {NoInput} BY DEF InboxTypeOK, Rows
  <2>2. stream' = Notified(admission[i].proc, i, Receipt(row'[i].status, row'[i].target))
    BY <1>8 DEF AdmitAttach
  <2>3. stream' \in [Workers -> Streams] BY <2>1, <2>2, NotifiedType
  <2> QED BY <1>5, <1>8, <2>3 DEF AdmitAttach, LocalTypeOK
<1> QED BY <1>6, <1>7, <1>8 DEF AdmissionStep

LEMMA ClaimWorkType ==
    ASSUME TypeOK, LocalTypeOK, NEW p \in Workers, NEW i \in Inputs, ClaimWork(p, i) PROVE LocalTypeOK'
<1> DEFINE t == [input |-> i, target |-> row[i].target, epoch |-> row[i].attempts + 1, proc |-> p,
                 pc |-> "claimed", control |-> FALSE, class |-> "Retryable"]
<1>1. row[i].attempts + 1 \in Nat /\ row[i].target \in Inputs \cup {NoInput}
  BY DEF TypeOK, InboxTypeOK, Rows
<1>2. t \in Tasks BY <1>1 DEF Tasks, Classes
<1>3. tasks' = tasks \cup {t} BY DEF ClaimWork
<1> HIDE DEF t
<1> QED BY <1>2, <1>3 DEF ClaimWork, LocalTypeOK

\* Tasks that change nothing but themselves.
LEMMA PlainTaskType ==
    ASSUME TypeOK, LocalTypeOK, NEW t \in tasks,
           \/ TaskCorrupt(t) \/ TaskReroute(t) \/ TaskStart(t) \/ TaskSettle(t) \/ TaskGiveUp(t)
           \/ TaskRefused(t) \/ TaskFail(t) \/ TaskLeaseLost(t)
    PROVE  LocalTypeOK'
<1>1. /\ \A pc \in {"attach", "execute", "turn", "adopt", "await", "roll"} : Moved(t, pc) \subseteq Tasks
      /\ \A class \in Classes : Failing(t, class) \subseteq Tasks
      /\ Ended(t) \subseteq Tasks
  BY TasksType DEF LocalTypeOK
<1>2. {"Retryable", "Permanent", "Blocked"} \subseteq Classes BY DEF Classes
<1>3. UNCHANGED <<admission, turn, loaded, stream, outbox, delivery, client>>
  BY DEF TaskCorrupt, TaskReroute, TaskStart, TaskSettle, TaskGiveUp, TaskRefused, TaskFail, TaskLeaseLost
<1>4. tasks' \subseteq Tasks
  <2>1. CASE TaskCorrupt(t) BY <1>1, <1>2, <2>1 DEF TaskCorrupt
  <2>2. CASE TaskReroute(t) BY <1>1, <2>2 DEF TaskReroute
  <2>3. CASE TaskStart(t) BY <1>1, <2>3 DEF TaskStart
  <2>4. CASE TaskSettle(t) BY <1>1, <2>4 DEF TaskSettle
  <2>5. CASE TaskGiveUp(t) BY <1>1, <1>2, <2>5 DEF TaskGiveUp
  <2>6. CASE TaskFail(t) BY <1>1, <2>6 DEF TaskFail
  <2>7. CASE TaskRefused(t) BY <1>1, <1>2, <2>7 DEF TaskRefused
  <2>8. CASE TaskLeaseLost(t) BY <1>1, <2>8 DEF TaskLeaseLost
  <2> QED BY <2>1, <2>2, <2>3, <2>4, <2>5, <2>6, <2>7, <2>8
<1>5. mishaps' \in 0..MaxMishaps
  <2>1. UNCHANGED mishaps \/ \E m : Mishap(m)
    BY DEF TaskCorrupt, TaskReroute, TaskStart, TaskSettle, TaskGiveUp, TaskRefused, TaskFail, TaskLeaseLost
  <2> QED BY <2>1, MishapType DEF LocalTypeOK
<1> QED BY <1>3, <1>4, <1>5 DEF LocalTypeOK

LEMMA StreamTaskType ==
    ASSUME TypeOK, LocalTypeOK, NEW t \in tasks, TaskAttach(t) \/ TaskExecute(t) \/ TaskRollForward(t)
    PROVE  LocalTypeOK'
<1>1. /\ \A pc \in {"attach", "execute", "turn", "adopt", "await", "roll"} : Moved(t, pc) \subseteq Tasks
      /\ \A class \in Classes : Failing(t, class) \subseteq Tasks
      /\ Ended(t) \subseteq Tasks
  BY TasksType DEF LocalTypeOK
<1>2. t \in Tasks BY DEF LocalTypeOK
<1>3. t.proc \in Workers /\ t.input \in Inputs /\ t.epoch \in Nat /\ t.target \in Inputs \cup {NoInput}
  BY <1>2 DEF Tasks
<1>4. stream[t.proc] \in Streams BY <1>3 DEF LocalTypeOK
<1>5. ASSUME NEW js \in SUBSET Inputs, NEW x \in Inputs \cup {NoInput},
             stream' = [stream EXCEPT ![t.proc] = Projected(@, js, Receipt("attached", x))]
      PROVE  stream' \in [Workers -> Streams]
  BY <1>3, <1>4, <1>5, ProjectedType DEF LocalTypeOK
<1>6. {"Retryable", "Permanent"} \subseteq Classes BY DEF Classes
<1>7. CASE TaskAttach(t)
  <2>1. stream' = [stream EXCEPT ![t.proc] = Projected(@, {t.input}, Receipt("attached", t.target))]
    BY <1>7 DEF TaskAttach
  <2>2. stream' \in [Workers -> Streams] BY <1>3, <1>5, <2>1
  <2> QED BY <1>1, <1>7, <2>2 DEF TaskAttach, LocalTypeOK
<1>8. CASE TaskExecute(t)
  <2>1. stream' = [stream EXCEPT ![t.proc] =
                     Projected(@, AttachedTo(t.input), Receipt("attached", t.input))]
    BY <1>8 DEF TaskExecute
  <2>2. AttachedTo(t.input) \in SUBSET Inputs BY DEF AttachedTo
  <2>3. stream' \in [Workers -> Streams] BY <1>3, <1>5, <2>1, <2>2
  <2>4. loaded' \subseteq Workers /\ UNCHANGED <<admission, outbox, delivery, client, mishaps>>
    BY <1>3, <1>8 DEF TaskExecute, LocalTypeOK
  <2>5. [t EXCEPT !.pc = "turn", !.control = TRUE] \in Tasks BY <1>2 DEF Tasks
  <2>6. tasks' \subseteq Tasks BY <1>1, <1>6, <1>8, <2>5 DEF TaskExecute, LocalTypeOK
  <2>7. [NoTurn EXCEPT !.phase = "run", !.input = t.input, !.epoch = t.epoch] \in Turns
    BY <1>3 DEF NoTurn, Turns
  <2>8. UNCHANGED turn \/ turn' = [turn EXCEPT ![t.proc] =
              [NoTurn EXCEPT !.phase = "run", !.input = t.input, !.epoch = t.epoch]]
    BY <1>8 DEF TaskExecute
  <2>9. turn' \in [Workers -> Turns \cup {NoTurn}] BY <1>3, <2>7, <2>8 DEF LocalTypeOK
  <2> QED BY <2>3, <2>4, <2>6, <2>9 DEF LocalTypeOK
<1>9. CASE TaskRollForward(t)
  <2>1. ASSUME NEW j \in Inputs, stream' = Notified(t.proc, j, Receipt("reclassified", NoInput))
        PROVE  stream' \in [Workers -> Streams]
    BY <2>1, NotifiedType
  <2>2. stream' \in [Workers -> Streams]
    BY <1>9, <2>1 DEF TaskRollForward, Unapplied, LocalTypeOK
  <2>3. tasks' \subseteq Tasks BY <1>1, <1>9 DEF TaskRollForward, LocalTypeOK
  <2> QED BY <1>9, <2>2, <2>3 DEF TaskRollForward, LocalTypeOK
<1> QED BY <1>7, <1>8, <1>9

LEMMA AdoptType ==
    ASSUME TypeOK, LocalTypeOK, NEW t \in tasks, TaskAdopt(t) PROVE LocalTypeOK'
<1>1. tasks' \subseteq Tasks BY TasksType DEF TaskAdopt, LocalTypeOK
<1>2. t \in Tasks BY DEF LocalTypeOK
<1>3. t.input \in Inputs /\ t.epoch \in Nat BY <1>2 DEF Tasks
<1>4. outbox[t.input] \in Terminals BY <1>3 DEF LocalTypeOK
<1>5. [outbox[t.input] EXCEPT !.status = "pending", !.epoch = t.epoch, !.owner = Nobody, !.live = FALSE]
        \in Terminals
  BY <1>3, <1>4, TerminalType
<1>6. outbox' \in [Inputs -> Terminals] BY <1>3, <1>5 DEF TaskAdopt, LocalTypeOK
<1> QED BY <1>1, <1>6 DEF TaskAdopt, LocalTypeOK

LEMMA TurnOverType ==
    ASSUME LocalTypeOK, NEW p \in Workers, NEW pc \in {"await", "adopt", "failed"}, TurnOver(p, pc)
    PROVE  turn' \in [Workers -> Turns \cup {NoTurn}] /\ tasks' \subseteq Tasks
<1>1. ASSUME NEW t \in TaskOf(p) PROVE [t EXCEPT !.pc = pc] \in Tasks
  <2>1. t \in Tasks BY DEF TaskOf, LocalTypeOK
  <2> QED BY <2>1 DEF Tasks
<1>2. tasks' \subseteq Tasks BY <1>1 DEF TurnOver, LocalTypeOK
<1>3. turn' \in [Workers -> Turns \cup {NoTurn}] BY DEF TurnOver, LocalTypeOK
<1> QED BY <1>2, <1>3

LEMMA TurnType ==
    ASSUME TypeOK, LocalTypeOK, NEW p \in Workers, TurnStep(p) PROVE LocalTypeOK'
<1>1. turn[p].phase # "none" => turn[p] \in Turns BY DEF LocalTypeOK, NoTurn
<1>2. stream[p] \in Streams BY DEF LocalTypeOK
<1>3. CASE TurnCheckpoint(p)
  <2> DEFINE new == Consumable(p, turn[p].input)
             rec == [j \in Inputs |-> IF j \in new THEN [state |-> "read", target |-> stream[p].rec[j].target]
                                      ELSE stream[p].rec[j]]
  <2>0. stream[p].rec \in [Inputs -> Records \cup {NoRecord}] BY <1>2 DEF Streams
  <2>a. \A j \in Inputs : [state |-> "read", target |-> stream[p].rec[j].target] \in Records
    BY <2>0 DEF Records, NoRecord
  <2>1. rec \in [Inputs -> Records \cup {NoRecord}] BY <2>0, <2>a
  <2>b. Consumed(stream[p], new) = [stream[p] EXCEPT !.rec = rec] BY DEF Consumed
  <2> HIDE DEF rec
  <2>2. Consumed(stream[p], new) \in Streams
    BY <1>2, <2>1, <2>b DEF Streams
  <2>3. stream' = [stream EXCEPT ![p] = Consumed(stream[p], new)]
    BY <1>3 DEF TurnCheckpoint
  <2> HIDE DEF new
  <2>4. stream' \in [Workers -> Streams] BY <2>2, <2>3 DEF LocalTypeOK
  <2> QED BY <1>3, <2>4 DEF TurnCheckpoint, LocalTypeOK
<1>4. CASE TurnSeal(p)
  <2> DEFINE i == turn[p].input
             js == ReadBy(p, i)
             c == Max({row[i].seq} \cup {row[j].seq : j \in js})
  <2>1. turn[p] \in Turns BY <1>1, <1>4 DEF TurnSeal
  <2>2. i \in Inputs BY <2>1 DEF Turns
  <2>3. js \in SUBSET Inputs BY DEF ReadBy
  <2>4. row[i].seq \in Nat BY <2>2 DEF TypeOK, InboxTypeOK, Rows
  <2>5. turn' = [turn EXCEPT ![p] = [turn[p] EXCEPT !.phase = "sealed", !.heard = js, !.cursor = c]]
    BY <1>4 DEF TurnSeal
  <2> HIDE DEF i, js
  <2>6. c \in Nat BY <2>3, <2>4, CursorIsNatural DEF TypeOK
  <2> HIDE DEF c
  <2>7. [turn[p] EXCEPT !.phase = "sealed", !.heard = js, !.cursor = c] \in Turns
    BY <2>1, <2>3, <2>6 DEF Turns
  <2>8. turn' \in [Workers -> Turns \cup {NoTurn}] BY <2>5, <2>7 DEF LocalTypeOK
  <2> QED BY <1>4, <2>8 DEF TurnSeal, LocalTypeOK
<1>5. CASE TurnCommit(p)
  <2>1. turn[p] \in Turns BY <1>1, <1>5 DEF TurnCommit
  <2>2. turn' \in [Workers -> Turns \cup {NoTurn}] /\ tasks' \subseteq Tasks
    BY <1>5, TurnOverType DEF TurnCommit
  <2> DEFINE r == [NoTerminal EXCEPT !.status = "pending", !.epoch = turn[p].epoch,
                                     !.cursor = turn[p].cursor, !.heard = turn[p].heard]
  <2>3. r \in Terminals BY <2>1 DEF NoTerminal, Terminals, Turns
  <2>4. outbox' = [outbox EXCEPT ![turn[p].input] = r] BY <1>5 DEF TurnCommit
  <2> HIDE DEF r
  <2>5. outbox' \in [Inputs -> Terminals] BY <2>1, <2>3, <2>4 DEF LocalTypeOK, Turns
  <2> QED BY <1>5, <2>2, <2>5 DEF TurnCommit, LocalTypeOK
<1>6. CASE TurnFail(p)
  <2> DEFINE i == turn[p].input
  <2>1. turn[p] \in Turns BY <1>1, <1>6 DEF TurnFail
  <2>2. i \in Inputs BY <2>1 DEF Turns
  <2>3. outbox[i] \in Terminals BY <2>2 DEF LocalTypeOK
  <2>4. [outbox[i] EXCEPT !.status = "dead"] \in Terminals BY <2>3, TerminalType
  <2>5. UNCHANGED outbox \/ outbox' = [outbox EXCEPT ![i] = [outbox[i] EXCEPT !.status = "dead"]]
    BY <1>6 DEF TurnFail
  <2>6. outbox' \in [Inputs -> Terminals] BY <2>2, <2>4, <2>5 DEF LocalTypeOK
  <2>7. \E pc \in {"await", "adopt", "failed"} : TurnOver(p, pc) BY <1>6 DEF TurnFail
  <2>8. turn' \in [Workers -> Turns \cup {NoTurn}] /\ tasks' \subseteq Tasks BY <2>7, TurnOverType
  <2>9. UNCHANGED mishaps \/ \E m : Mishap(m) BY <1>6 DEF TurnFail
  <2>10. mishaps' \in 0..MaxMishaps BY <2>9, MishapType DEF LocalTypeOK
  <2> QED BY <1>6, <2>6, <2>8, <2>10 DEF TurnFail, LocalTypeOK
<1> QED BY <1>3, <1>4, <1>5, <1>6 DEF TurnStep

LEMMA DeliveryType ==
    ASSUME TypeOK, LocalTypeOK, NEW p \in Workers, DeliveryStep(p) PROVE LocalTypeOK'
<1>1. ASSUME NEW i \in Inputs, DeliveryClaim(p, i) PROVE LocalTypeOK'
  <2>1. outbox[i] \in Terminals BY DEF LocalTypeOK
  <2>2. [outbox[i] EXCEPT !.status = "claimed", !.owner = p, !.live = TRUE] \in Terminals
    BY <2>1, TerminalType
  <2>3. outbox' \in [Inputs -> Terminals] BY <1>1, <2>2 DEF DeliveryClaim, LocalTypeOK
  <2>4. [pc |-> "deliver", input |-> i, epoch |-> outbox[i].epoch] \in Deliveries
    BY <2>1 DEF Terminals, Deliveries
  <2>5. delivery' \in [Workers -> Deliveries \cup {NoDelivery}]
    BY <1>1, <2>4 DEF DeliveryClaim, LocalTypeOK
  <2> QED BY <1>1, <2>3, <2>5 DEF DeliveryClaim, LocalTypeOK
<1>2. CASE DeliveryCommit(p)
  <2>1. delivery[p] \in Deliveries BY <1>2 DEF DeliveryCommit, LocalTypeOK, NoDelivery
  <2>2. [delivery[p] EXCEPT !.pc = "acknowledge"] \in Deliveries BY <2>1 DEF Deliveries
  <2>3. delivery' = [delivery EXCEPT ![p] = [delivery[p] EXCEPT !.pc = "acknowledge"]]
    BY <1>2 DEF DeliveryCommit
  <2>4. delivery' \in [Workers -> Deliveries \cup {NoDelivery}] BY <2>2, <2>3 DEF LocalTypeOK
  <2> QED BY <1>2, <2>4 DEF DeliveryCommit, LocalTypeOK
<1>3. CASE DeliveryRefused(p) \/ DeliveryRetry(p) \/ DeliveryAcknowledge(p)
  <2>1. delivery[p].pc # "idle" BY <1>3 DEF DeliveryRefused, DeliveryRetry, DeliveryAcknowledge
  <2>2. \E s \in {"pending", "materialized", "blocked"} : outbox' = Settled(p, s)
    BY <1>3 DEF DeliveryRefused, DeliveryRetry, DeliveryAcknowledge
  <2>3. outbox' \in [Inputs -> Terminals] BY <2>1, <2>2, SettledType
  <2>4. delivery' = [delivery EXCEPT ![p] = NoDelivery]
        /\ UNCHANGED <<admission, client, tasks, turn, loaded, stream>>
        /\ (UNCHANGED mishaps \/ \E m : Mishap(m))
    BY <1>3 DEF DeliveryRefused, DeliveryRetry, DeliveryAcknowledge
  <2>5. delivery' \in [Workers -> Deliveries \cup {NoDelivery}] BY <2>4 DEF LocalTypeOK
  <2>6. mishaps' \in 0..MaxMishaps BY <2>4, MishapType DEF LocalTypeOK
  <2> QED BY <2>3, <2>4, <2>5, <2>6 DEF LocalTypeOK
<1> QED BY <1>1, <1>2, <1>3 DEF DeliveryStep

LEMMA LapseType ==
    ASSUME TypeOK, LocalTypeOK, NEW i \in Inputs, ClaimLapses(i) \/ DeliveryLapses(i) \/ OperatorRetry(i)
    PROVE  LocalTypeOK'
<1>1. outbox[i] \in Terminals BY DEF LocalTypeOK
<1>2. [outbox[i] EXCEPT !.live = FALSE] \in Terminals /\ [outbox[i] EXCEPT !.status = "pending"] \in Terminals
  BY <1>1, TerminalType
<1>3. \/ UNCHANGED outbox
      \/ outbox' = [outbox EXCEPT ![i] = [outbox[i] EXCEPT !.live = FALSE]]
      \/ outbox' = [outbox EXCEPT ![i] = [outbox[i] EXCEPT !.status = "pending"]]
  BY DEF ClaimLapses, DeliveryLapses, OperatorRetry, local
<1>4. outbox' \in [Inputs -> Terminals] BY <1>2, <1>3 DEF LocalTypeOK
<1>5. UNCHANGED mishaps \/ \E m : Mishap(m) BY DEF ClaimLapses, DeliveryLapses, OperatorRetry
<1>6. mishaps' \in 0..MaxMishaps BY <1>5, MishapType DEF LocalTypeOK
<1>7. UNCHANGED <<admission, client, tasks, turn, loaded, stream, delivery>>
  BY DEF ClaimLapses, DeliveryLapses, OperatorRetry, local
<1> QED BY <1>4, <1>6, <1>7 DEF LocalTypeOK

LEMMA CrashType ==
    ASSUME TypeOK, LocalTypeOK, NEW p \in Workers, Crash(p) PROVE LocalTypeOK'
<1>1. admission' \in [Inputs -> Admissions] BY AdmittedType DEF Crash, LocalTypeOK
<1>2. EmptyStream \in Streams BY DEF EmptyStream, Streams
<1>8. client' \in Calls \cup {NoCall} BY DEF Crash, LocalTypeOK
<1>3. stream' \in [Workers -> Streams] BY <1>2 DEF Crash, LocalTypeOK
<1>4. turn' \in [Workers -> Turns \cup {NoTurn}] BY DEF Crash, LocalTypeOK
<1>5. delivery' \in [Workers -> Deliveries \cup {NoDelivery}] BY DEF Crash, LocalTypeOK
<1>6. tasks' \subseteq Tasks /\ loaded' \subseteq Workers /\ UNCHANGED outbox BY DEF Crash, LocalTypeOK
<1>7. mishaps' \in 0..MaxMishaps BY MishapType DEF Crash, LocalTypeOK
<1> QED BY <1>1, <1>3, <1>4, <1>5, <1>6, <1>7, <1>8 DEF LocalTypeOK

LEMMA ClientType ==
    ASSUME TypeOK, LocalTypeOK, ClientMakes \/ ClientProject PROVE LocalTypeOK'
<1>0. NoRow \in Rows BY DEF NoRow, Rows, Statuses, Decisions
<1>1. CASE ClientWrite
  <2>1. client \in Calls BY <1>1 DEF ClientWrite, LocalTypeOK, NoCall
  <2>2. [client EXCEPT !.pc = "project", !.seen = NoRow] \in Calls BY <1>0, <2>1 DEF Calls
  <2> QED BY <1>1, <2>2 DEF ClientWrite, local, LocalTypeOK
<1>2. CASE ClientProject
  <2>1. client \in Calls BY <1>2 DEF ClientProject, LocalTypeOK, NoCall
  <2>2. client.input \in Inputs /\ client.target \in Inputs \cup {NoInput} BY <2>1 DEF Calls
  <2> DEFINE s == IF client.op = "cancel" THEN "cancelled" ELSE "reclassified"
  <2>3. stream' = Notified(client.proc, client.input, Receipt(s, client.target))
    BY <1>2 DEF ClientProject
  <2> HIDE DEF s
  <2>4. stream' \in [Workers -> Streams] BY <2>2, <2>3, NotifiedType
  <2> QED BY <1>2, <2>4 DEF ClientProject, LocalTypeOK
<1>3. ASSUME NEW p \in Workers, NEW i \in Inputs, NEW op \in {"cancel", "reclassify"}, ClientCall(p, i, op)
      PROVE  LocalTypeOK'
  <2>1. [NoCall EXCEPT !.pc = "project", !.op = op, !.input = i, !.proc = p] \in Calls
    BY <1>0 DEF NoCall, Calls
  <2>2. ASSUME NEW t \in Inputs
        PROVE  [pc |-> "write", op |-> op, input |-> i, proc |-> p, target |-> t, seen |-> row[i]] \in Calls
    BY DEF Calls, TypeOK, InboxTypeOK
  <2>3. client' \in Calls BY <1>3, <2>1, <2>2 DEF ClientCall
  <2>4. mishaps' \in 0..MaxMishaps BY <1>3, MishapType DEF ClientCall, LocalTypeOK
  <2> QED BY <1>3, <2>3, <2>4 DEF ClientCall, local, LocalTypeOK
<1> QED BY <1>1, <1>2, <1>3 DEF ClientMakes

LEMMA LocalType ==
    ASSUME TypeOK, LocalTypeOK, InboxTypeOK', [Next]_vars PROVE LocalTypeOK'
<1>1. CASE UNCHANGED vars BY <1>1 DEF vars, local, LocalTypeOK
<1>2. CASE GenerationEnds
  <2>1. UNCHANGED <<admission, client, local>> /\ \E m : Mishap(m) BY <1>2 DEF GenerationEnds
  <2>2. mishaps' \in 0..MaxMishaps BY <2>1, MishapType DEF LocalTypeOK
  <2> QED BY <2>1, <2>2 DEF local, LocalTypeOK
<1>3. ASSUME NEW t \in tasks, TaskStep(t) PROVE LocalTypeOK'
  BY <1>3, PlainTaskType, StreamTaskType, AdoptType DEF TaskStep
<1> QED
  BY <1>1, <1>2, <1>3, ClassifyType, AdmissionType, ClaimWorkType, TurnType, DeliveryType, LapseType,
     CrashType, ClientType DEF Next, ClientMakes

-----------------------------------------------------------------------------
TurnInv == InboxInv /\ TypeOK

LEMMA TypeSplit == TypeOK <=> InboxTypeOK /\ LocalTypeOK
  BY DEF TypeOK, LocalTypeOK

LEMMA TurnStarts == Init => TurnInv
<1> SUFFICES ASSUME Init PROVE TurnInv OBVIOUS
<1>1. InboxInv BY InboxStarts DEF Init
<1>2. NotAdmitted \in Admissions BY DEF NotAdmitted, Admissions
<1>3. EmptyStream \in Streams BY DEF EmptyStream, Streams
<1>4. NoTerminal \in Terminals BY DEF NoTerminal, Terminals
<1>5. LocalTypeOK BY <1>2, <1>3, <1>4, TurnAssumption DEF Init, LocalTypeOK
<1> QED BY <1>1, <1>5, TypeSplit DEF TurnInv, InboxInv

LEMMA TurnInductive ==
    ASSUME TurnInv, [Next]_vars PROVE TurnInv' /\ [InboxNext]_inbox
<1>1. [InboxNext]_inbox BY StepIsInbox DEF TurnInv
<1>2. InboxInv' BY <1>1, InboxInductive DEF TurnInv
<1>3. LocalTypeOK' BY <1>2, LocalType, TypeSplit DEF TurnInv, InboxInv
<1>4. TypeOK' BY <1>2, <1>3 DEF InboxInv, TypeOK, LocalTypeOK
<1> QED BY <1>1, <1>2, <1>4 DEF TurnInv

\* For any inputs, processes and mishaps: every variable has its shape, and no
\* two inputs of the session are in work at once, as long as no claim overlaps
\* another transaction.
THEOREM TurnHoldsOne == Spec => [](TypeOK /\ OneClaim)
<1>1. TurnInv /\ [Next]_vars => TurnInv' BY TurnInductive
<1>2. TurnInv => TypeOK /\ OneClaim BY DEF TurnInv, InboxInv
<1> QED BY <1>1, <1>2, TurnStarts, PTL DEF Spec

\* The gateway uses the inbox as SessionInbox says.
THEOREM TurnUsesInbox == Spec => InboxSpec
<1>1. TurnInv /\ [Next]_vars => TurnInv' /\ [InboxNext]_inbox BY TurnInductive
<1>2. Init => InboxInit BY DEF Init
<1> QED BY <1>1, <1>2, TurnStarts, PTL DEF Spec, InboxSpec

\* For any inputs, processes and mishaps: an input of the session ends once,
\* for good, and its answer is entered once and in an open generation.
THEOREM TurnKeepsPromise == Spec => KeepsPromise
  BY TurnUsesInbox, InboxKeepsPromise, PTL
-----------------------------------------------------------------------------
(***************************************************************************)
(* The ways of a terminal, and of a delivery.  A terminal that is there    *)
(* keeps its answer and moves to later claims only; it is materialized by  *)
(* the delivery that has claimed it, and claimed by a worker that is idle. *)
(***************************************************************************)


Acknowledged(p, i) ==
    /\ DeliveryAcknowledge(p) /\ delivery[p].input = i
    /\ outbox[i].status = "claimed" /\ outbox[i].owner = p /\ outbox'[i].epoch = outbox[i].epoch

TerminalMoves(i) ==
    \/ outbox'[i] = outbox[i]
    \/ outbox[i].status = "none" /\ outbox'[i].status \in {"pending", "dead"}
    \/ /\ outbox[i].status \in {"pending", "blocked", "claimed"}
       /\ outbox'[i].heard = outbox[i].heard /\ outbox'[i].epoch >= outbox[i].epoch
       /\ outbox'[i].status = "materialized" => \E p \in Workers : Acknowledged(p, i)
       /\ outbox'[i].status = "claimed" =>
             \/ /\ outbox[i].status = "claimed" /\ outbox'[i].owner = outbox[i].owner
                /\ outbox'[i].epoch = outbox[i].epoch
             \/ \E p \in Workers : DeliveryClaim(p, i)

DeliveryMoves(p) ==
    \/ delivery'[p] = delivery[p] \/ delivery'[p] = NoDelivery
    \/ DeliveryCommit(p) /\ delivery'[p] = [delivery[p] EXCEPT !.pc = "acknowledge"]
    \/ \E i \in Inputs : DeliveryClaim(p, i)

\* What a worker gives back, of the terminal it delivers and of the others.
LEMMA SettledMoves ==
    ASSUME TypeOK, NEW p \in Workers, delivery[p].pc # "idle",
           NEW s \in {"pending", "blocked", "materialized"}, outbox' = Settled(p, s), NEW i \in Inputs,
           s = "materialized" => DeliveryAcknowledge(p)
    PROVE  TerminalMoves(i)
<1>1. outbox \in [Inputs -> Terminals] /\ outbox[i] \in Terminals BY DEF TypeOK
<1>2. CASE outbox[i].status = "claimed" /\ outbox[i].owner = p /\ delivery[p].input = i
  <2>1. outbox'[i] = [outbox[i] EXCEPT !.status = s, !.owner = Nobody, !.live = FALSE]
    BY <1>1, <1>2 DEF Settled
  <2>2. outbox'[i].status = s /\ outbox'[i].heard = outbox[i].heard /\ outbox'[i].epoch = outbox[i].epoch
        /\ outbox[i].epoch \in Nat
    BY <1>1, <2>1 DEF Terminals
  <2>3. s = "materialized" => Acknowledged(p, i)
    BY <1>2, <2>2 DEF Acknowledged
  <2> QED BY <1>2, <2>2, <2>3 DEF TerminalMoves
<1>3. CASE ~(outbox[i].status = "claimed" /\ outbox[i].owner = p /\ delivery[p].input = i)
  <2>1. outbox'[i] = outbox[i] BY <1>1, <1>3 DEF Settled
  <2> QED BY <2>1 DEF TerminalMoves
<1> QED BY <1>2, <1>3

LEMMA DeliveryStepMoves ==
    ASSUME TypeOK, NEW p \in Workers, DeliveryStep(p), NEW i \in Inputs PROVE TerminalMoves(i)
<1>1. outbox \in [Inputs -> Terminals] /\ outbox[i] \in Terminals BY DEF TypeOK
<1>2. ASSUME NEW j \in Inputs, DeliveryClaim(p, j) PROVE TerminalMoves(i)
  <2>1. CASE i = j
    <3>1. outbox'[i] = [outbox[i] EXCEPT !.status = "claimed", !.owner = p, !.live = TRUE]
          /\ outbox[i].status \in {"pending", "claimed"}
      BY <1>1, <1>2, <2>1 DEF DeliveryClaim
    <3>2. outbox'[i].status = "claimed" /\ outbox'[i].heard = outbox[i].heard
          /\ outbox'[i].epoch = outbox[i].epoch /\ outbox[i].epoch \in Nat
      BY <1>1, <3>1 DEF Terminals
    <3>3. DeliveryClaim(p, i) BY <1>2, <2>1
    <3> QED BY <3>1, <3>2, <3>3 DEF TerminalMoves
  <2>2. CASE i # j
    <3>1. outbox'[i] = outbox[i] BY <1>1, <1>2, <2>2 DEF DeliveryClaim
    <3> QED BY <3>1 DEF TerminalMoves
  <2> QED BY <2>1, <2>2
<1>3. CASE DeliveryCommit(p) BY <1>3 DEF DeliveryCommit, TerminalMoves
<1>4. CASE DeliveryRefused(p) BY <1>4, SettledMoves DEF DeliveryRefused
<1>5. CASE DeliveryRetry(p)
  <2>1. delivery[p].pc # "idle" /\ outbox' = Settled(p, "pending") BY <1>5 DEF DeliveryRetry
  <2> QED BY <2>1, SettledMoves
<1>6. CASE DeliveryAcknowledge(p)
  <2>1. delivery[p].pc # "idle" /\ outbox' = Settled(p, "materialized") BY <1>6 DEF DeliveryAcknowledge
  <2> QED BY <1>6, <2>1, SettledMoves
<1> QED BY <1>2, <1>3, <1>4, <1>5, <1>6 DEF DeliveryStep

LEMMA StepMovesTerminals ==
    ASSUME TypeOK, [Next]_vars, NEW i \in Inputs PROVE TerminalMoves(i)
<1>1. outbox \in [Inputs -> Terminals] /\ outbox[i] \in Terminals BY DEF TypeOK
<1>2. CASE UNCHANGED outbox BY <1>2 DEF TerminalMoves
<1>3. ASSUME NEW j \in Inputs, DeliveryLapses(j) PROVE TerminalMoves(i)
  <2>0. outbox' = [outbox EXCEPT ![j] = [outbox[j] EXCEPT !.live = FALSE]] /\ outbox[j].status = "claimed"
    BY <1>3 DEF DeliveryLapses
  <2>1. outbox'[i] = outbox[i] \/ (outbox[i].status = "claimed" /\ outbox'[i] = [outbox[i] EXCEPT !.live = FALSE])
    <3>1. CASE i = j BY <1>1, <2>0, <3>1
    <3>2. CASE i # j BY <1>1, <2>0, <3>2
    <3> QED BY <3>1, <3>2
  <2>2. CASE outbox[i].status = "claimed" /\ outbox'[i] = [outbox[i] EXCEPT !.live = FALSE]
    <3>1. outbox'[i].status = "claimed" /\ outbox'[i].heard = outbox[i].heard
          /\ outbox'[i].epoch = outbox[i].epoch /\ outbox[i].epoch \in Nat /\ outbox'[i].owner = outbox[i].owner
      BY <1>1, <2>2 DEF Terminals
    <3> QED BY <2>2, <3>1 DEF TerminalMoves
  <2> QED BY <2>1, <2>2 DEF TerminalMoves
<1>4. ASSUME NEW j \in Inputs, OperatorRetry(j) PROVE TerminalMoves(i)
  <2>0. \/ UNCHANGED outbox
        \/ outbox' = [outbox EXCEPT ![j] = [outbox[j] EXCEPT !.status = "pending"]] /\ outbox[j].status = "blocked"
    BY <1>4 DEF OperatorRetry
  <2>1. outbox'[i] = outbox[i]
        \/ (outbox[i].status = "blocked" /\ outbox'[i] = [outbox[i] EXCEPT !.status = "pending"])
    <3>1. CASE i = j BY <1>1, <2>0, <3>1
    <3>2. CASE i # j BY <1>1, <2>0, <3>2
    <3> QED BY <3>1, <3>2
  <2>2. CASE outbox[i].status = "blocked" /\ outbox'[i] = [outbox[i] EXCEPT !.status = "pending"]
    <3>1. outbox'[i].status = "pending" /\ outbox'[i].heard = outbox[i].heard
          /\ outbox'[i].epoch = outbox[i].epoch /\ outbox[i].epoch \in Nat
      BY <1>1, <2>2 DEF Terminals
    <3> QED BY <2>2, <3>1 DEF TerminalMoves
  <2> QED BY <2>1, <2>2 DEF TerminalMoves
<1>5. ASSUME NEW t \in tasks, TaskAdopt(t) PROVE TerminalMoves(i)
  <2>1. t.epoch \in Nat /\ t.input \in Inputs BY DEF TypeOK, Tasks
  <2>2. CASE UNCHANGED outbox \/ i # t.input
    <3>1. outbox'[i] = outbox[i] BY <1>1, <1>5, <2>2 DEF TaskAdopt
    <3> QED BY <3>1 DEF TerminalMoves
  <2>3. CASE ~UNCHANGED outbox /\ i = t.input
    <3>1. Adoptable(t) /\ outbox' = [outbox EXCEPT ![t.input] =
              [@ EXCEPT !.status = "pending", !.epoch = t.epoch, !.owner = Nobody, !.live = FALSE]]
      BY <1>5, <2>3 DEF TaskAdopt
    <3>2. outbox'[i] = [outbox[i] EXCEPT !.status = "pending", !.epoch = t.epoch,
                                         !.owner = Nobody, !.live = FALSE]
      BY <1>1, <2>3, <3>1
    <3>3. outbox[i].status \in {"pending", "blocked", "claimed"} /\ t.epoch > outbox[i].epoch
      BY <2>3, <3>1 DEF Adoptable
    <3>4. outbox'[i].status = "pending" /\ outbox'[i].heard = outbox[i].heard
          /\ outbox'[i].epoch = t.epoch /\ outbox[i].epoch \in Nat
      BY <1>1, <3>2 DEF Terminals
    <3> QED BY <2>1, <3>3, <3>4 DEF TerminalMoves
  <2> QED BY <2>2, <2>3
<1>6. ASSUME NEW p \in Workers, TurnCommit(p) PROVE TerminalMoves(i)
  <2>1. CASE i = turn[p].input
    <3>1. outbox[i].status = "none"
          /\ outbox'[i] = [NoTerminal EXCEPT !.status = "pending", !.epoch = turn[p].epoch,
                                             !.cursor = turn[p].cursor, !.heard = turn[p].heard]
      BY <1>1, <1>6, <2>1 DEF TurnCommit
    <3>2. outbox'[i].status = "pending" BY <3>1 DEF NoTerminal
    <3> QED BY <3>1, <3>2 DEF TerminalMoves
  <2>2. CASE i # turn[p].input
    <3>1. outbox'[i] = outbox[i] BY <1>1, <1>6, <2>2 DEF TurnCommit
    <3> QED BY <3>1 DEF TerminalMoves
  <2> QED BY <2>1, <2>2
<1>7. ASSUME NEW p \in Workers, TurnFail(p) PROVE TerminalMoves(i)
  <2> DEFINE j == turn[p].input
  <2>0. \/ UNCHANGED outbox
        \/ outbox' = [outbox EXCEPT ![j] = [outbox[j] EXCEPT !.status = "dead"]] /\ outbox[j].status = "none"
    BY <1>7 DEF TurnFail
  <2> HIDE DEF j
  <2>1. outbox'[i] = outbox[i] \/ (outbox[i].status = "none" /\ outbox'[i] = [outbox[i] EXCEPT !.status = "dead"])
    <3>1. CASE i = j BY <1>1, <2>0, <3>1
    <3>2. CASE i # j BY <1>1, <2>0, <3>2
    <3> QED BY <3>1, <3>2
  <2>2. CASE outbox[i].status = "none" /\ outbox'[i] = [outbox[i] EXCEPT !.status = "dead"]
    <3>1. outbox'[i].status = "dead" BY <1>1, <2>2 DEF Terminals
    <3> QED BY <2>2, <3>1 DEF TerminalMoves
  <2> QED BY <2>1, <2>2 DEF TerminalMoves
<1>8. ASSUME NEW t \in tasks, TaskStep(t), ~TaskAdopt(t) PROVE UNCHANGED outbox
  BY <1>8 DEF TaskStep, TaskCorrupt, TaskReroute, TaskStart, TaskAttach, TaskExecute, TaskSettle, TaskGiveUp,
              TaskRefused, TaskFail, TaskRollForward, TaskLeaseLost
<1>9. ASSUME NEW j \in Inputs, NEW p \in Workers, Classify(p, j) \/ ClaimWork(p, j) PROVE UNCHANGED outbox
  BY <1>9 DEF Classify, ClaimWork, local
<1>10. ASSUME NEW j \in Inputs, AdmissionStep(j) \/ ClaimLapses(j) PROVE UNCHANGED outbox
  BY <1>10 DEF AdmissionStep, AdmitAppend, AdmitProject, AdmitAttach, ClaimLapses, local
<1>11. ASSUME NEW p \in Workers, TurnCheckpoint(p) \/ TurnSeal(p) \/ Crash(p) PROVE UNCHANGED outbox
  BY <1>11 DEF TurnCheckpoint, TurnSeal, Crash
<1>12. ASSUME ClientMakes \/ ClientProject \/ GenerationEnds \/ UNCHANGED vars PROVE UNCHANGED outbox
  BY <1>12 DEF ClientMakes, ClientCall, ClientWrite, ClientProject, GenerationEnds, vars, local
<1> QED
  BY <1>2, <1>3, <1>4, <1>5, <1>6, <1>7, <1>8, <1>9, <1>10, <1>11, <1>12, DeliveryStepMoves
     DEF Next, TurnStep, ClientMakes

\* For any inputs, processes and mishaps: a terminal only moves to later claims,
\* its answer stands, and one that is materialized does not change.
THEOREM TerminalsNeverRegress == Spec => AdoptionNeverRegresses
<1> DEFINE Keeps(i) == outbox[i].status \notin {"none", "dead"} =>
                         /\ outbox'[i].epoch >= outbox[i].epoch
                         /\ outbox'[i].heard = outbox[i].heard
                         /\ outbox[i].status = "materialized" => outbox'[i] = outbox[i]
<1>1. ASSUME TurnInv, [Next]_vars, NEW i \in Inputs PROVE Keeps(i)
  <2>1. outbox[i].epoch \in Nat BY <1>1 DEF TurnInv, TypeOK, Terminals
  <2>2. TerminalMoves(i) BY <1>1, StepMovesTerminals DEF TurnInv
  <2> QED BY <2>1, <2>2 DEF TerminalMoves
<1>2. TurnInv /\ [Next]_vars => [\A i \in Inputs : Keeps(i)]_vars BY <1>1
<1>3. TurnInv /\ [Next]_vars => TurnInv' BY TurnInductive
<1> QED BY <1>2, <1>3, TurnStarts, PTL DEF Spec, AdoptionNeverRegresses
-----------------------------------------------------------------------------
(***************************************************************************)
(* The ledger.  A delivery that is to be acknowledged has seen its answer  *)
(* in the transcript under the claim it was given, and while it holds the  *)
(* terminal that claim is the terminal's.  The task that awaits a delivery *)
(* therefore finds the row completed and never completes one itself: rows  *)
(* are completed by the commit of their answer alone.                      *)
(***************************************************************************)
Confirmed ==
    \A p \in Workers : delivery[p].pc = "acknowledge" =>
        /\ row[delivery[p].input].status = "completed"
        /\ row[delivery[p].input].attempts = delivery[p].epoch

OwnClaim ==
    \A p \in Workers :
        delivery[p].pc # "idle" /\ outbox[delivery[p].input].status = "claimed"
          /\ outbox[delivery[p].input].owner = p => outbox[delivery[p].input].epoch = delivery[p].epoch

Ledger == AnswerIsCompletion /\ MaterializedIsHeld /\ Confirmed /\ OwnClaim

\* Steps that enter no answer and complete no row.
Quiet ==
    /\ UNCHANGED transcript
    /\ \A i \in Inputs : row'[i].status = "completed" => row[i].status = "completed"

LEMMA QuietMove ==
    ASSUME InboxTypeOK, NEW i \in Inputs, \E r : Move(i, r) /\ r.status # "completed" PROVE Quiet
<1>1. PICK r : Move(i, r) /\ r.status # "completed" OBVIOUS
<1>2. row'[i] = r /\ \A j \in Inputs \ {i} : row'[j] = row[j] BY <1>1, MoveType
<1>3. UNCHANGED transcript BY <1>1 DEF Move
<1> QED BY <1>1, <1>2, <1>3 DEF Quiet

LEMMA QuietFrame == ASSUME UNCHANGED inbox PROVE Quiet
  BY DEF inbox, Quiet

\* What is completed stays as it is.
LEMMA CompletedStays ==
    ASSUME InboxInv, [InboxNext]_inbox, NEW i \in Inputs, row[i].status = "completed"
    PROVE  row'[i] = row[i]
<1> SUFFICES ASSUME InboxNext PROVE row'[i] = row[i] BY DEF inbox
<1>1. row[i].status \notin Unfinished /\ row[i].status \in Terminal BY DEF Unfinished, Terminal
<1>2. CASE \E j \in Inputs, d \in Decisions, t \in Inputs \cup {NoInput} : AppendInput(j, generation, d, t)
  <2>1. PICK j \in Inputs, d \in Decisions, t \in Inputs \cup {NoInput} : AppendInput(j, generation, d, t)
    BY <1>2
  <2>2. row[j].status = "absent" BY <2>1 DEF AppendInput
  <2>3. row' = [row EXCEPT ![j] = row'[j]] BY <2>1, AppendType DEF InboxInv
  <2> QED BY <2>2, <2>3 DEF InboxInv, InboxTypeOK
<1>3. CASE \E j \in Inputs : \E r : Move(j, r)
  <2>1. PICK j \in Inputs : \E r : Move(j, r) BY <1>3
  <2>2. PICK r : Move(j, r) BY <2>1
  <2>3. j # i BY <1>1, <2>2 DEF Move
  <2> QED BY <2>2, <2>3, MoveType DEF InboxInv
<1>4. CASE \E j \in Inputs : \E c : CommitTranscript(j, row[j].attempts, c)
  <2>1. PICK j \in Inputs : \E c : CommitTranscript(j, row[j].attempts, c) BY <1>4
  <2>2. PICK c : CommitTranscript(j, row[j].attempts, c) BY <2>1
  <2>3. j # i BY <2>2 DEF CommitTranscript, Committable, FenceValid, Lease
  <2>4. i \notin Covered(j, c) BY <1>1 DEF Covered, Waiting, Holding, Terminal
  <2> QED BY <2>2, <2>3, <2>4, CommitType DEF InboxInv
<1>5. CASE \E o \in BOOLEAN : AdvanceGeneration(o)
  <2>1. PICK o \in BOOLEAN : AdvanceGeneration(o) BY <1>5
  <2>2. ~Expiring(i) BY <1>1 DEF Expiring, Waiting, Holding, Terminal
  <2> QED BY <2>1, <2>2, AdvanceType DEF InboxInv
<1> QED BY <1>2, <1>3, <1>4, <1>5, InboxSteps

\* Tasks complete nothing: the one that settles finds its row completed.
LEMMA TaskIsQuiet ==
    ASSUME TurnInv, Ledger, NEW t \in tasks, TaskStep(t) PROVE Quiet
<1>1. t.input \in Inputs /\ t.class \in Classes BY DEF TurnInv, TypeOK, Tasks
<1>2. DecisionFor(t.target) \in Decisions /\ t.target \in Inputs \cup {NoInput}
  BY DecisionForType DEF TurnInv, TypeOK, Tasks
<1>3. "StartNewTurn" \in Decisions /\ NoInput \in Inputs \cup {NoInput} BY DEF Decisions
<1>4. InboxInv /\ InboxTypeOK BY DEF TurnInv, InboxInv
<1>5. ASSUME NEW d \in Decisions, NEW x \in Inputs \cup {NoInput}, Requeue(t.input, t.epoch, d, x)
      PROVE  Quiet
  BY <1>1, <1>4, <1>5, RequeueMoves, QuietMove
<1>6. CASE TaskReroute(t)
  <2>1. \/ Requeue(t.input, t.epoch, "StartNewTurn", NoInput)
        \/ Requeue(t.input, t.epoch, DecisionFor(t.target), t.target)
        \/ UNCHANGED inbox
    BY <1>6 DEF TaskReroute
  <2> QED BY <1>2, <1>3, <1>5, <2>1, QuietFrame
<1>7. CASE TaskStart(t)
  <2>1. MarkRunning(t.input, t.epoch) \/ UNCHANGED inbox BY <1>7 DEF TaskStart
  <2> QED BY <1>1, <1>4, <2>1, HolderMoves, QuietMove, QuietFrame
<1>8. CASE TaskAttach(t)
  <2>1. \/ Acknowledge(t.input, t.epoch, "attached")
        \/ Requeue(t.input, t.epoch, "StartNewTurn", NoInput)
        \/ UNCHANGED inbox
    BY <1>8 DEF TaskAttach
  <2>2. CASE Acknowledge(t.input, t.epoch, "attached")
    <3>1. \E r : Move(t.input, r) /\ r.status = "attached" BY <1>1, <1>4, <2>2, AcknowledgeMoves
    <3>2. \E r : Move(t.input, r) /\ r.status # "completed" BY <3>1
    <3> QED BY <1>1, <1>4, <3>2, QuietMove
  <2> QED BY <1>3, <1>5, <2>1, <2>2, QuietFrame
<1>9. CASE TaskExecute(t)
  <2>1. Requeue(t.input, t.epoch, DecisionFor(t.target), t.target) \/ UNCHANGED inbox
    BY <1>9 DEF TaskExecute
  <2> QED BY <1>2, <1>5, <2>1, QuietFrame
<1>10. CASE TaskSettle(t)
  <2>1. outbox[t.input].status = "materialized" BY <1>10 DEF TaskSettle
  <2>2. row[t.input].status = "completed" BY <1>1, <2>1 DEF Ledger, MaterializedIsHeld
  <2>3. UNCHANGED inbox BY <1>10, <2>2 DEF TaskSettle
  <2> QED BY <2>3, QuietFrame
<1>11. CASE TaskFail(t)
  <2>1. Fail(t.input, t.epoch, t.class) \/ UNCHANGED inbox BY <1>11 DEF TaskFail
  <2> QED BY <1>1, <1>4, <2>1, FailMoves, QuietMove, QuietFrame
<1>12. CASE TaskRollForward(t)
  <2>1. (\E j \in Inputs : ReclassifyInput(j, "StartNewTurn", NoInput)) \/ UNCHANGED inbox
    BY <1>12 DEF TaskRollForward, Unapplied
  <2> QED BY <1>3, <1>4, <2>1, ClientMoves, QuietMove, QuietFrame
<1>13. CASE TaskCorrupt(t) \/ TaskAdopt(t) \/ TaskGiveUp(t) \/ TaskRefused(t) \/ TaskLeaseLost(t)
  <2>1. UNCHANGED inbox BY <1>13 DEF TaskCorrupt, TaskAdopt, TaskGiveUp, TaskRefused, TaskLeaseLost
  <2> QED BY <2>1, QuietFrame
<1> QED BY <1>6, <1>7, <1>8, <1>9, <1>10, <1>11, <1>12, <1>13 DEF TaskStep

Answers(p) ==
    /\ DeliveryCommit(p)
    /\ CommitTranscript(delivery[p].input, delivery[p].epoch, outbox[delivery[p].input].cursor)

LEMMA StepIsQuiet ==
    ASSUME TurnInv, Ledger, [Next]_vars PROVE Quiet \/ \E p \in Workers : Answers(p)
<1>1. InboxInv /\ InboxTypeOK BY DEF TurnInv, InboxInv
<1>2. CASE UNCHANGED inbox BY <1>2, QuietFrame
<1>13. "StartNewTurn" \in Decisions /\ NoInput \in Inputs \cup {NoInput} BY DEF Decisions
<1>3. ASSUME NEW i \in Inputs, AdmissionStep(i) PROVE Quiet
  <2>1. CASE AdmitAppend(i) /\ ~UNCHANGED inbox
    <3>1. AppendInput(i, generation, DecisionFor(admission[i].target), admission[i].target)
      BY <2>1 DEF AdmitAppend
    <3>2. DecisionFor(admission[i].target) \in Decisions /\ admission[i].target \in Inputs \cup {NoInput}
      BY DecisionForType DEF TurnInv, TypeOK, Admissions
    <3>3. row' = [row EXCEPT ![i] = row'[i]] /\ row'[i].status = "queued"
      BY <1>1, <3>1, <3>2, AppendType
    <3>4. UNCHANGED transcript BY <3>1 DEF AppendInput
    <3> QED BY <1>1, <3>3, <3>4 DEF Quiet, InboxTypeOK
  <2>2. CASE AttachInput(i) BY <1>1, <1>13, <2>2, ClientMoves, QuietMove
  <2> QED BY <1>3, <2>1, <2>2, QuietFrame DEF AdmissionStep, AdmitProject, AdmitAttach
<1>4. ASSUME NEW i \in Inputs, ClaimLapses(i) \/ OperatorRetry(i) PROVE Quiet
  <2>1. Expire(i) \/ RetryBlocked(i) \/ UNCHANGED inbox BY <1>4 DEF ClaimLapses, OperatorRetry
  <2> QED BY <1>1, <1>13, <2>1, HolderMoves, ClientMoves, QuietMove, QuietFrame
<1>5. ASSUME NEW i \in Inputs, NEW p \in Workers, ClaimWork(p, i) PROVE Quiet
  BY <1>1, <1>5, ClaimMoves, QuietMove DEF ClaimWork
<1>6. ASSUME NEW o \in BOOLEAN, AdvanceGeneration(o) PROVE Quiet
  <2>1. \A i \in Inputs : IF Expiring(i) THEN row'[i].status = "expired" ELSE row'[i] = row[i]
    BY <1>1, <1>6, AdvanceType
  <2>2. UNCHANGED transcript BY <1>6 DEF AdvanceGeneration
  <2> QED BY <2>1, <2>2 DEF Quiet
<1>7. CASE ClientMakes
  <2>1. CASE \E i \in Inputs : CancelInput(i) BY <1>1, <1>13, <2>1, ClientMoves, QuietMove
  <2>2. ASSUME NEW i \in Inputs, NEW d \in Decisions, NEW t \in Inputs \cup {NoInput}, ReclassifyInput(i, d, t)
        PROVE  Quiet
    BY <1>1, <2>2, ClientMoves, QuietMove
  <2> QED BY <1>2, <1>7, <2>1, <2>2, ClientTransactions DEF TurnInv
<1>14. CASE GenerationEnds BY <1>6, <1>14 DEF GenerationEnds
<1>15. CASE ClientProject BY <1>2, <1>15 DEF ClientProject
<1>8. ASSUME NEW p \in Workers, DeliveryStep(p) PROVE UNCHANGED inbox \/ Answers(p)
  BY <1>8 DEF DeliveryStep, DeliveryClaim, DeliveryCommit, DeliveryRefused, DeliveryRetry,
              DeliveryAcknowledge, Answers
<1>9. ASSUME NEW i \in Inputs, NEW p \in Workers, Classify(p, i) PROVE UNCHANGED inbox
  BY <1>9 DEF Classify
<1>10. ASSUME NEW i \in Inputs, DeliveryLapses(i) PROVE UNCHANGED inbox
  BY <1>10 DEF DeliveryLapses
<1>11. ASSUME NEW p \in Workers, TurnStep(p) \/ Crash(p) PROVE UNCHANGED inbox
  BY <1>11 DEF TurnStep, TurnCheckpoint, TurnSeal, TurnCommit, TurnFail, Crash
<1>12. UNCHANGED vars => UNCHANGED inbox BY DEF vars
<1> QED
  BY <1>2, <1>3, <1>4, <1>5, <1>7, <1>8, <1>9, <1>10, <1>11, <1>12, <1>14, <1>15, TaskIsQuiet
     DEF Next, ClientMakes

\* Completed rows are the answered ones, before and after.
LEMMA AnswersKept ==
    ASSUME TurnInv, Ledger, [Next]_vars PROVE AnswerIsCompletion'
<1>1. InboxInv /\ [InboxNext]_inbox BY TurnInductive DEF TurnInv
<1>2. \A i \in Inputs : row[i].status = "completed" => row'[i].status = "completed"
  BY <1>1, CompletedStays
<1>3. CASE Quiet
  <2>1. \A i : Answered(i)' <=> Answered(i) BY <1>3, AnsweredFrame DEF Quiet
  <2>2. \A i \in Inputs : row'[i].status = "completed" <=> row[i].status = "completed"
    BY <1>2, <1>3 DEF Quiet
  <2> QED BY <1>3, <2>1, <2>2 DEF Quiet, Ledger, AnswerIsCompletion
<1>4. ASSUME NEW p \in Workers, Answers(p) PROVE AnswerIsCompletion'
  <2> DEFINE i == delivery[p].input
             c == outbox[i].cursor
  <2>1. CommitTranscript(i, delivery[p].epoch, c) BY <1>4 DEF Answers
  <2>2. i \in Inputs BY <1>4 DEF Answers, DeliveryCommit, TurnInv, TypeOK, Deliveries, NoDelivery
  <2>3. InboxTypeOK BY <1>1 DEF InboxInv
  <2> HIDE DEF i, c
  <2>4. /\ \A j \in Inputs \ ({i} \cup Covered(i, c)) : row'[j] = row[j]
        /\ \A j \in Covered(i, c) \ {i} : row'[j].status = "supplemented"
        /\ row'[i].status = "completed"
    BY <2>1, <2>2, <2>3, CommitType
  <2>5. transcript \in Seq(Inputs) /\ transcript' = Append(transcript, i)
    BY <2>1, <2>3 DEF CommitTranscript, InboxTypeOK
  <2>6. \A j : Answered(j)' <=> Answered(j) \/ j = i BY <2>2, <2>5, AnsweredCommit
  <2>7. \A j \in Inputs \ {i} : row'[j].status = "completed" <=> row[j].status = "completed"
    BY <1>2, <2>4
  <2>8. \A j \in Inputs : row[j].status = "completed" <=> Answered(j) BY DEF Ledger, AnswerIsCompletion
  <2>9. \A j \in Inputs : row'[j].status = "completed" <=> Answered(j)'
    BY <2>4, <2>6, <2>7, <2>8
  <2>10. row[i].status = "running" BY <2>1 DEF CommitTranscript, Committable, FenceValid, Lease
  <2>11. ~Answered(i) BY <2>2, <2>8, <2>10
  <2>12. Len(transcript) \in Nat /\ Len(transcript') = Len(transcript) + 1
         /\ transcript'[Len(transcript) + 1] = i
         /\ \A k \in 1..Len(transcript) : transcript'[k] = transcript[k]
    BY <2>2, <2>5
  <2>13. \A k \in 1..Len(transcript) : transcript[k] # i BY <2>11 DEF Answered
  <2>14. \A k, l \in 1..Len(transcript) : transcript[k] = transcript[l] => k = l
    BY DEF Ledger, AnswerIsCompletion
  <2>15. \A k, l \in 1..Len(transcript') : transcript'[k] = transcript'[l] => k = l
    BY <2>12, <2>13, <2>14
  <2> QED BY <2>9, <2>15 DEF AnswerIsCompletion
<1> QED BY <1>3, <1>4, StepIsQuiet

LEMMA StepMovesDeliveries ==
    ASSUME TypeOK, [Next]_vars, NEW p \in Workers PROVE DeliveryMoves(p)
<1>1. delivery \in [Workers -> Deliveries \cup {NoDelivery}] BY DEF TypeOK
<1>2. CASE UNCHANGED delivery BY <1>2 DEF DeliveryMoves
<1>3. ASSUME NEW q \in Workers, DeliveryStep(q) PROVE DeliveryMoves(p)
  <2>1. CASE q # p
    <3>1. delivery'[p] = delivery[p]
      BY <1>1, <1>3, <2>1 DEF DeliveryStep, DeliveryClaim, DeliveryCommit, DeliveryRefused, DeliveryRetry,
                              DeliveryAcknowledge
    <3> QED BY <3>1 DEF DeliveryMoves
  <2>2. CASE q = p
    <3>1. CASE DeliveryCommit(p)
      <4>1. delivery' = [delivery EXCEPT ![p] = [delivery[p] EXCEPT !.pc = "acknowledge"]]
        BY <3>1 DEF DeliveryCommit
      <4> QED BY <1>1, <3>1, <4>1 DEF DeliveryMoves
    <3>2. CASE \E i \in Inputs : DeliveryClaim(p, i) BY <3>2 DEF DeliveryMoves
    <3>3. CASE DeliveryRefused(p) \/ DeliveryRetry(p) \/ DeliveryAcknowledge(p)
      BY <1>1, <3>3 DEF DeliveryRefused, DeliveryRetry, DeliveryAcknowledge, DeliveryMoves
    <3> QED BY <1>3, <2>2, <3>1, <3>2, <3>3 DEF DeliveryStep
  <2> QED BY <2>1, <2>2
<1>4. ASSUME NEW q \in Workers, Crash(q) PROVE DeliveryMoves(p)
  BY <1>1, <1>4 DEF Crash, DeliveryMoves
<1>5. ASSUME NEW t \in tasks, TaskStep(t) PROVE UNCHANGED delivery
  BY <1>5 DEF TaskStep, TaskCorrupt, TaskReroute, TaskStart, TaskAttach, TaskExecute, TaskAdopt, TaskSettle,
              TaskGiveUp, TaskRefused, TaskFail, TaskRollForward, TaskLeaseLost
<1>6. ASSUME NEW j \in Inputs, NEW q \in Workers, Classify(q, j) \/ ClaimWork(q, j) PROVE UNCHANGED delivery
  BY <1>6 DEF Classify, ClaimWork, local
<1>7. ASSUME NEW j \in Inputs, AdmissionStep(j) \/ ClaimLapses(j) \/ DeliveryLapses(j) \/ OperatorRetry(j)
      PROVE  UNCHANGED delivery
  BY <1>7 DEF AdmissionStep, AdmitAppend, AdmitProject, AdmitAttach, ClaimLapses, DeliveryLapses,
              OperatorRetry, local
<1>8. ASSUME NEW q \in Workers, TurnStep(q) PROVE UNCHANGED delivery
  BY <1>8 DEF TurnStep, TurnCheckpoint, TurnSeal, TurnCommit, TurnFail
<1>9. ASSUME ClientMakes \/ ClientProject \/ GenerationEnds \/ UNCHANGED vars PROVE UNCHANGED delivery
  BY <1>9 DEF ClientMakes, ClientCall, ClientWrite, ClientProject, GenerationEnds, vars, local
<1> QED BY <1>2, <1>3, <1>4, <1>5, <1>6, <1>7, <1>8, <1>9 DEF Next, ClientMakes

LEMMA MaterializedKept ==
    ASSUME TurnInv, Ledger, [Next]_vars PROVE MaterializedIsHeld'
<1> SUFFICES ASSUME NEW i \in Inputs, outbox'[i].status = "materialized"
             PROVE  row'[i].status = "completed" /\ row'[i].attempts = outbox'[i].epoch
  BY DEF MaterializedIsHeld
<1>1. InboxInv /\ [InboxNext]_inbox BY TurnInductive DEF TurnInv
<1>2. TerminalMoves(i) BY StepMovesTerminals DEF TurnInv
<1>3. CASE outbox'[i] = outbox[i]
  <2>1. row[i].status = "completed" /\ row[i].attempts = outbox[i].epoch
    BY <1>3 DEF Ledger, MaterializedIsHeld
  <2> QED BY <1>1, <1>3, <2>1, CompletedStays
<1>4. ASSUME NEW p \in Workers, Acknowledged(p, i)
      PROVE  row'[i].status = "completed" /\ row'[i].attempts = outbox'[i].epoch
  <2>1. delivery[p].pc = "acknowledge" /\ delivery[p].input = i BY <1>4 DEF Acknowledged, DeliveryAcknowledge
  <2>2. row[i].status = "completed" /\ row[i].attempts = delivery[p].epoch
    BY <2>1 DEF Ledger, Confirmed
  <2>3. outbox[i].epoch = delivery[p].epoch /\ outbox'[i].epoch = outbox[i].epoch
    BY <1>4, <2>1 DEF Acknowledged, Ledger, OwnClaim
  <2> QED BY <1>1, <2>2, <2>3, CompletedStays
<1> QED BY <1>2, <1>3, <1>4 DEF TerminalMoves

LEMMA ConfirmedKept ==
    ASSUME TurnInv, Ledger, [Next]_vars PROVE Confirmed'
<1> SUFFICES ASSUME NEW p \in Workers, delivery'[p].pc = "acknowledge"
             PROVE  /\ row'[delivery'[p].input].status = "completed"
                    /\ row'[delivery'[p].input].attempts = delivery'[p].epoch
  BY DEF Confirmed
<1>1. InboxInv /\ InboxTypeOK /\ [InboxNext]_inbox BY TurnInductive DEF TurnInv, InboxInv
<1>2. DeliveryMoves(p) BY StepMovesDeliveries DEF TurnInv
<1>3. delivery[p].pc # "idle" => delivery[p] \in Deliveries /\ delivery[p].input \in Inputs
  BY DEF TurnInv, TypeOK, Deliveries, NoDelivery
<1>4. CASE delivery'[p] = delivery[p]
  <2>1. delivery[p].input \in Inputs BY <1>3, <1>4
  <2>2. row[delivery[p].input].status = "completed" /\ row[delivery[p].input].attempts = delivery[p].epoch
    BY <1>4 DEF Ledger, Confirmed
  <2>3. row'[delivery[p].input] = row[delivery[p].input] BY <1>1, <2>1, <2>2, CompletedStays
  <2> QED BY <1>4, <2>2, <2>3
<1>5. CASE delivery'[p] = NoDelivery BY <1>5 DEF NoDelivery
<1>6. ASSUME NEW i \in Inputs, DeliveryClaim(p, i) PROVE FALSE
  <2>1. delivery'[p] = [pc |-> "deliver", input |-> i, epoch |-> outbox[i].epoch]
    BY <1>6 DEF DeliveryClaim, TurnInv, TypeOK
  <2> QED BY <2>1
<1>7. CASE DeliveryCommit(p) /\ delivery'[p] = [delivery[p] EXCEPT !.pc = "acknowledge"]
  <2> DEFINE i == delivery[p].input
             e == delivery[p].epoch
  <2>1. delivery[p] \in Deliveries /\ i \in Inputs BY <1>3, <1>7 DEF DeliveryCommit
  <2>2. delivery'[p].input = i /\ delivery'[p].epoch = e BY <1>7, <2>1 DEF Deliveries
  <2>3. CASE Replayed(i, e) /\ UNCHANGED inbox BY <2>2, <2>3 DEF Replayed, inbox
  <2>4. ASSUME NEW c, CommitTranscript(i, e, c)
        PROVE  row'[i].status = "completed" /\ row'[i].attempts = e
    <3>1. row[i].attempts = e BY <2>4 DEF CommitTranscript, Committable, FenceValid, Lease
    <3>2. row'[i].status = "completed" /\ row'[i].attempts = row[i].attempts
      BY <1>1, <2>1, <2>4, CommitType
    <3> QED BY <3>1, <3>2
  <2> QED BY <1>7, <2>2, <2>3, <2>4 DEF DeliveryCommit
<1> QED BY <1>2, <1>4, <1>5, <1>6, <1>7 DEF DeliveryMoves

LEMMA OwnClaimKept ==
    ASSUME TurnInv, Ledger, [Next]_vars PROVE OwnClaim'
<1> SUFFICES ASSUME NEW p \in Workers, delivery'[p].pc # "idle",
                    outbox'[delivery'[p].input].status = "claimed", outbox'[delivery'[p].input].owner = p
             PROVE  outbox'[delivery'[p].input].epoch = delivery'[p].epoch
  BY DEF OwnClaim
<1> DEFINE k == delivery'[p].input
<1>1. TurnInv' BY TurnInductive
<1>2. k \in Inputs BY <1>1 DEF TurnInv, TypeOK, Deliveries, NoDelivery
<1>3. DeliveryMoves(p) /\ TerminalMoves(k) BY <1>2, StepMovesDeliveries, StepMovesTerminals DEF TurnInv
<1>4. ASSUME NEW q \in Workers, NEW i \in Inputs, DeliveryClaim(q, i)
      PROVE  /\ delivery'[q] = [pc |-> "deliver", input |-> i, epoch |-> outbox[i].epoch]
             /\ outbox'[i].owner = q /\ outbox'[i].epoch = outbox[i].epoch
  <2>1. outbox[i] \in Terminals BY DEF TurnInv, TypeOK
  <2>2. outbox'[i] = [outbox[i] EXCEPT !.status = "claimed", !.owner = q, !.live = TRUE]
        /\ delivery'[q] = [pc |-> "deliver", input |-> i, epoch |-> outbox[i].epoch]
    BY <1>4 DEF DeliveryClaim, TurnInv, TypeOK
  <2> QED BY <2>1, <2>2 DEF Terminals
<1>5. CASE \E i \in Inputs : DeliveryClaim(p, i)
  <2>1. PICK i \in Inputs : DeliveryClaim(p, i) BY <1>5
  <2>2. delivery'[p] = [pc |-> "deliver", input |-> i, epoch |-> outbox[i].epoch]
        /\ outbox'[i].epoch = outbox[i].epoch
    BY <1>4, <2>1
  <2>3. k = i /\ delivery'[p].epoch = outbox[i].epoch BY <2>2
  <2> QED BY <2>2, <2>3
<1>6. CASE ~\E i \in Inputs : DeliveryClaim(p, i)
  <2>1. delivery[p].pc # "idle" /\ delivery[p].input = k /\ delivery[p].epoch = delivery'[p].epoch
    <3>1. CASE delivery'[p] = delivery[p] BY <3>1
    <3>2. CASE delivery'[p] = NoDelivery BY <3>2 DEF NoDelivery
    <3>3. CASE DeliveryCommit(p) /\ delivery'[p] = [delivery[p] EXCEPT !.pc = "acknowledge"]
      <4>1. delivery[p] \in Deliveries /\ delivery[p].pc # "idle"
        BY <3>3 DEF DeliveryCommit, TurnInv, TypeOK, NoDelivery
      <4> QED BY <3>3, <4>1 DEF Deliveries
    <3> QED BY <1>3, <1>6, <3>1, <3>2, <3>3 DEF DeliveryMoves
  <2>2. ASSUME NEW q \in Workers, DeliveryClaim(q, k) PROVE FALSE
    <3>1. outbox'[k].owner = q BY <1>2, <1>4, <2>2
    <3>2. q = p BY <3>1
    <3> QED BY <1>2, <1>6, <2>2, <3>2
  <2>3. outbox[k].status = "claimed" /\ outbox'[k].owner = outbox[k].owner /\ outbox'[k].epoch = outbox[k].epoch
    BY <1>3, <2>2 DEF TerminalMoves
  <2>4. outbox[k].epoch = delivery[p].epoch BY <2>1, <2>3 DEF Ledger, OwnClaim
  <2> QED BY <2>1, <2>3, <2>4
<1> QED BY <1>5, <1>6

LEMMA LedgerStarts == Init => Ledger
<1> SUFFICES ASSUME Init PROVE Ledger OBVIOUS
<1>1. \A i \in Inputs : row[i].status = "absent" /\ outbox[i].status = "none"
  BY DEF Init, InboxInit, NoRow, NoTerminal
<1>2. \A p \in Workers : delivery[p].pc = "idle" BY DEF Init, NoDelivery
<1>3. Len(transcript) = 0 BY DEF Init, InboxInit
<1> QED BY <1>1, <1>2, <1>3 DEF Ledger, AnswerIsCompletion, MaterializedIsHeld, Confirmed, OwnClaim, Answered

LEMMA LedgerInductive ==
    ASSUME TurnInv, Ledger, [Next]_vars PROVE TurnInv' /\ Ledger'
  BY TurnInductive, AnswersKept, MaterializedKept, ConfirmedKept, OwnClaimKept DEF Ledger

\* For any inputs, processes and mishaps: the completed rows are the answered
\* ones, each answered once.
THEOREM LedgerIsTrue == Spec => []AnswerIsCompletion
<1>1. TurnInv /\ Ledger /\ [Next]_vars => TurnInv' /\ Ledger' BY LedgerInductive
<1>2. Ledger => AnswerIsCompletion BY DEF Ledger
<1> QED BY <1>1, <1>2, TurnStarts, LedgerStarts, PTL DEF Spec

\* For any inputs, processes and mishaps: a materialized terminal is in the
\* transcript under the claim it belongs to.
THEOREM TerminalIsHeld == Spec => []MaterializedIsHeld
<1>1. TurnInv /\ Ledger /\ [Next]_vars => TurnInv' /\ Ledger' BY LedgerInductive
<1>2. Ledger => MaterializedIsHeld BY DEF Ledger
<1> QED BY <1>1, <1>2, TurnStarts, LedgerStarts, PTL DEF Spec
=============================================================================
