------------------------ MODULE ExecutionGraphProofs ------------------------
(***************************************************************************)
(* Type correctness, at most one poll per effect key, and the refinement   *)
(* of NodeLifecycle, for every graph, every set of executor answers, every *)
(* sequence of commands and any number of crashes.                         *)
(***************************************************************************)
EXTENDS ExecutionGraph, FiniteSetTheorems, TLAPS

(***************************************************************************)
(* The inductive invariant.  A task holds a report that can be committed   *)
(* only where one was checked or replayed, and a wave entry that says      *)
(* "replay" has a receipt to replay.                                       *)
(***************************************************************************)
Reports ==
    \A n \in Nodes :
        /\ task[n] \in {"finish", "solo_receipt"}
             => outcome[n] \in LegalOutcomes \cup {"illegal"}
        /\ task[n] \in {"finishing", "report", "batch", "receipt", "commit"} => outcome[n] \in LegalOutcomes
        /\ active[n] = "replay" => effect[n] \notin {"fresh", "intent"}

\* Before the executor of a keyed node is polled its intent is on record, and
\* nobody has polled it before.
Unpolled ==
    \A n \in Nodes : Keying[n] = "node" =>
        /\ runs[n] \in {0, 1}
        /\ effect[n] = "fresh" => runs[n] = 0
        /\ task[n] \in {"poll", "solo_poll"} => runs[n] = 0 /\ effect[n] = "intent"
        /\ active[n] = "fresh" /\ task[n] \in {"start", "gate", "gating", "gated"}
             => runs[n] = 0 /\ effect[n] = "intent"

IInv == TypeOK /\ Reports /\ Unpolled

\* A newly registered graph: all nodes planned, nothing recorded, no task.
LEMMA InitInv == Init => IInv
<1>. SUFFICES ASSUME Init PROVE IInv
  OBVIOUS
<1>1. DurableTypeOK
  BY DEF Init, DurableTypeOK, Statuses
<1>2. DriverTypeOK
  BY DEF Init, DriverTypeOK, PumpPCs
<1>3. TaskTypeOK
  BY DEF Init, TaskTypeOK, TaskPCs
<1>4. CommandTypeOK
  BY ConstantsAssumption DEF Init, CommandTypeOK, NoCommand
<1>5. Reports /\ Unpolled
  BY DEF Init, Reports, Unpolled
<1>. QED  BY <1>1, <1>2, <1>3, <1>4, <1>5 DEF IInv, TypeOK

-----------------------------------------------------------------------------
(***************************************************************************)
(* Steps that leave the nodes, their records and their tasks alone         *)
(***************************************************************************)
Frame == UNCHANGED <<status, attempts, effect, runs, task, outcome, active>>

\* What leaves nodes, records and tasks alone keeps the invariant about them.
LEMMA FrameKeeps ==
    ASSUME IInv, Frame
    PROVE  DurableTypeOK' /\ TaskTypeOK' /\ Reports' /\ Unpolled'
BY DEF IInv, TypeOK, Frame, DurableTypeOK, TaskTypeOK, Reports, Unpolled

\* The end of a driver leaves no task, hence no report and no poll to come.
LEMMA EndDriverKeeps ==
    ASSUME IInv, NEW v \in {"none", "completed", "failed"}, EndDriver(v), UNCHANGED durable,
           active' \in [Nodes -> {"no", "solo"} \cup WaveEntries],
           \A n \in Nodes : active'[n] \in {"no", active[n]}
    PROVE  /\ DurableTypeOK' /\ TaskTypeOK' /\ Reports' /\ Unpolled' /\ coord' = "free"
           /\ pump' \in PumpPCs /\ snap' \in [ready : SUBSET Nodes, waiting : BOOLEAN]
           /\ tail' \subseteq Nodes /\ victim' \in Nodes \cup {NoNode}
           /\ verdict' \in {"none", "completed", "failed"}
<1>1. DurableTypeOK' /\ TaskTypeOK'
  BY DEF IInv, TypeOK, EndDriver, durable, DurableTypeOK, TaskTypeOK, TaskPCs
<1>2. Reports' /\ Unpolled'
  BY DEF IInv, TypeOK, EndDriver, durable, TaskTypeOK, Reports, Unpolled
<1>. QED  BY <1>1, <1>2 DEF EndDriver, PumpPCs

\* The steps of run_completion_pump and pump_snapshot that only move the pump.
LEMMA PumpControlInv ==
    ASSUME IInv,
           \/ Dispatch \/ PumpBeginAdvance \/ PumpEndAdvance \/ PumpLoadVictim \/ PumpInstall
           \/ PumpWave \/ PumpNotified
    PROVE  IInv'
<1>. USE DEF IInv, TypeOK, durable
<1>1. Frame
  BY DEF Dispatch, PumpBeginAdvance, PumpEndAdvance, PumpLoadVictim, PumpInstall, PumpWave,
     PumpNotified, Frame
<1>2. DriverTypeOK'
  <2>1. CASE Dispatch
    BY <2>1 DEF Dispatch, DriverTypeOK, PumpPCs
  <2>2. CASE PumpBeginAdvance
    BY <2>2 DEF PumpBeginAdvance, DriverTypeOK, PumpPCs
  <2>3. CASE PumpEndAdvance
    <3>. DEFINE ready   == {n \in Nodes : status[n] = "Ready" /\ task[n] = "none"}
                waiting == \E n \in Nodes : status[n] \in Waiting
    <3>1. ready \in SUBSET Nodes /\ waiting \in BOOLEAN
      OBVIOUS
    <3>2. snap' = snap \/ snap' = [ready |-> ready, waiting |-> waiting]
      BY <2>3 DEF PumpEndAdvance
    <3>3. snap \in [ready : SUBSET Nodes, waiting : BOOLEAN]
      BY DEF DriverTypeOK
    <3>. HIDE DEF ready, waiting
    <3>4. snap' \in [ready : SUBSET Nodes, waiting : BOOLEAN]
      BY <3>1, <3>2, <3>3
    <3>5. tail' \subseteq Nodes
      BY <2>3 DEF PumpEndAdvance, DriverTypeOK, QuorumTailCancellations
    <3>. QED  BY <2>3, <3>4, <3>5 DEF PumpEndAdvance, DriverTypeOK, PumpPCs
  <2>4. CASE PumpLoadVictim
    BY <2>4 DEF PumpLoadVictim, DriverTypeOK, PumpPCs
  <2>5. CASE PumpInstall
    BY <2>5 DEF PumpInstall, DriverTypeOK, PumpPCs
  <2>6. CASE PumpWave
    BY <2>6 DEF PumpWave, DriverTypeOK, PumpPCs
  <2>7. CASE PumpNotified
    BY <2>7 DEF PumpNotified, DriverTypeOK, PumpPCs
  <2>. QED  BY <2>1, <2>2, <2>3, <2>4, <2>5, <2>6, <2>7
<1>3. CommandTypeOK'
  <2>1. CASE PumpLoadVictim
    BY <2>1 DEF PumpLoadVictim, CommandTypeOK
  <2>2. CASE PumpInstall
    BY <2>2 DEF PumpInstall, CommandTypeOK
  <2>3. CASE Dispatch \/ PumpBeginAdvance \/ PumpEndAdvance \/ PumpWave \/ PumpNotified
    BY <2>3 DEF Dispatch, PumpBeginAdvance, PumpEndAdvance, PumpWave, PumpNotified, CommandTypeOK
  <2>. QED  BY <2>1, <2>2, <2>3
<1>. QED  BY <1>1, <1>2, <1>3, FrameKeeps

\* The ways run_completion_pump returns: settled, refused, or failed.
LEMMA PumpEndInv ==
    ASSUME IInv, PumpInstallRefused \/ PumpSettle \/ PumpJoinFatal
    PROVE  IInv'
<1>. DEFINE v == verdict'
<1>. USE DEF IInv, TypeOK, durable
<1>1. v \in {"none", "completed", "failed"} /\ EndDriver(v) /\ UNCHANGED durable /\ active' = active
  BY DEF PumpInstallRefused, PumpSettle, PumpJoinFatal, EndDriver
<1>2. active' \in [Nodes -> {"no", "solo"} \cup WaveEntries] /\ \A n \in Nodes : active'[n] \in {"no", active[n]}
  BY <1>1 DEF TaskTypeOK
<1>3. UNCHANGED <<alive, wake, progress, cmd, fresh, issued, crashes>>
  BY DEF PumpInstallRefused, PumpSettle, PumpJoinFatal
<1>4. /\ DurableTypeOK' /\ TaskTypeOK' /\ Reports' /\ Unpolled' /\ coord' = "free"
      /\ pump' \in PumpPCs /\ snap' \in [ready : SUBSET Nodes, waiting : BOOLEAN]
      /\ tail' \subseteq Nodes /\ victim' \in Nodes \cup {NoNode}
      /\ verdict' \in {"none", "completed", "failed"}
  BY <1>1, <1>2, EndDriverKeeps
<1>5. DriverTypeOK'
  BY <1>3, <1>4 DEF DriverTypeOK
<1>6. CommandTypeOK'
  BY <1>3, <1>4 DEF CommandTypeOK
<1>. QED  BY <1>4, <1>5, <1>6

\* A process death loses the tasks and keeps the records.
LEMMA CrashInv ==
    ASSUME IInv, Crash
    PROVE  IInv'
<1>. USE DEF IInv, TypeOK
<1>1. active' \in [Nodes -> {"no", "solo"} \cup WaveEntries] /\ \A n \in Nodes : active'[n] \in {"no", active[n]}
  BY DEF Crash
<1>2. EndDriver("none") /\ UNCHANGED durable
  BY DEF Crash
<1>3. /\ DurableTypeOK' /\ TaskTypeOK' /\ Reports' /\ Unpolled' /\ coord' = "free"
      /\ pump' \in PumpPCs /\ snap' \in [ready : SUBSET Nodes, waiting : BOOLEAN]
      /\ tail' \subseteq Nodes /\ victim' \in Nodes \cup {NoNode}
      /\ verdict' \in {"none", "completed", "failed"}
  BY <1>1, <1>2, EndDriverKeeps
<1>4. DriverTypeOK'
  BY <1>3 DEF Crash, DriverTypeOK
<1>5. CommandTypeOK'
  BY <1>3, ConstantsAssumption DEF Crash, CommandTypeOK, NoCommand
<1>. QED  BY <1>3, <1>4, <1>5

\* Tasks that are spawned only to end, and tasks that are joined.
LEMMA PumpJoinInv ==
    ASSUME IInv, PumpWaveSuperseded \/ PumpJoin
    PROVE  IInv'
<1>. USE DEF IInv, TypeOK, durable
<1>1. /\ UNCHANGED <<status, attempts, effect, runs, active>>
      /\ UNCHANGED <<alive, wake, snap, tail, victim, progress, coord, cmd, fresh, verdict, issued, crashes>>
      /\ pump' \in PumpPCs
  BY DEF PumpWaveSuperseded, PumpJoin, PumpPCs
<1>2. /\ task' \in [Nodes -> TaskPCs]
      /\ outcome' \in [Nodes -> LegalOutcomes \cup Failures \cup {"none", "illegal"}]
      /\ \A n \in Nodes : \/ task'[n] \in {"none", "superseded"}
                          \/ task'[n] = task[n] /\ outcome'[n] = outcome[n]
  <2>1. CASE PumpWaveSuperseded
    <3>1. PICK W : task' = [n \in Nodes |-> IF n \in W THEN "superseded" ELSE task[n]]
      BY <2>1 DEF PumpWaveSuperseded
    <3>2. outcome' = outcome
      BY <2>1 DEF PumpWaveSuperseded
    <3>. QED  BY <3>1, <3>2 DEF TaskTypeOK, TaskPCs
  <2>2. CASE PumpJoin
    <3>1. PICK J : /\ task' = [n \in Nodes |-> IF n \in J THEN "none" ELSE task[n]]
                   /\ outcome' = [n \in Nodes |-> IF n \in J THEN "none" ELSE outcome[n]]
      BY <2>2 DEF PumpJoin
    <3>. QED  BY <3>1 DEF TaskTypeOK, TaskPCs
  <2>. QED  BY <2>1, <2>2
<1>3. DurableTypeOK' /\ DriverTypeOK' /\ CommandTypeOK'
  BY <1>1 DEF DurableTypeOK, DriverTypeOK, CommandTypeOK
<1>4. TaskTypeOK'
  BY <1>1, <1>2 DEF TaskTypeOK
<1>5. Reports' /\ Unpolled'
  BY <1>1, <1>2 DEF Reports, Unpolled
<1>. QED  BY <1>3, <1>4, <1>5

\* What inspect_execution_effect may answer, and what each answer says.
LEMMA EffectStates ==
    ASSUME NEW n \in Nodes
    PROVE  /\ EffectState(n) \in WaveEntries
           /\ Keying[n] = "node" /\ EffectState(n) = "fresh" => effect[n] = "fresh"
           /\ EffectState(n) = "replay" => effect[n] \notin {"fresh", "intent"}
BY DEF EffectState, WaveEntries

\* prepare_ready_wave: an admitted node that will be polled has its intent on
\* record in the same commit, and was never polled before.
LEMMA PumpAdmitInv ==
    ASSUME IInv, PumpAdmit
    PROVE  IInv'
<1>. USE DEF IInv, TypeOK
<1>a. PICK W \in Batches : \E r \in [W -> {"ok", "deferred"} \cup Failures] : Admission(W, r)
  BY DEF PumpAdmit
<1>b. PICK r \in [W -> {"ok", "deferred"} \cup Failures] : Admission(W, r)
  BY <1>a
<1>. DEFINE admitted == {n \in W : r[n] = "ok" /\ status[n] = "Ready"}
<1>0. W \subseteq Nodes /\ admitted \subseteq Nodes
  BY DEF Batches, DriverTypeOK
<1>1. \/ UNCHANGED <<status, fresh>>
      \/ /\ status' = [n \in Nodes |-> IF n \in admitted THEN "Running" ELSE status[n]]
         /\ fresh' = [b \in {"user", "pump"} |-> FALSE]
  BY <1>b DEF Admission, Commit, NoCommit
<1>2. attempts' = [n \in Nodes |-> IF n \in admitted THEN attempts[n] + 1 ELSE attempts[n]]
  BY <1>b DEF Admission
<1>3. effect' = [n \in Nodes |->
        IF n \in admitted /\ EffectState(n) = "fresh" /\ Keying[n] = "node" THEN "intent" ELSE effect[n]]
  BY <1>b DEF Admission, RecordIntents
<1>4. active' = [n \in Nodes |-> IF n \in admitted THEN EffectState(n) ELSE active[n]]
  BY <1>b DEF Admission
<1>5. /\ task' \in [Nodes -> TaskPCs]
      /\ \A n \in admitted : task'[n] = "start"
      /\ \A n \in W \ admitted : task'[n] \in {"superseded", "deferred", "fail"}
      /\ \A n \in Nodes \ W : task'[n] = task[n]
  <2>. DEFINE To(n) == CASE n \in admitted -> "start"
                         [] n \in {m \in W : r[m] = "ok" /\ status[m] # "Ready"} -> "superseded"
                         [] n \in W /\ r[n] = "deferred" -> "deferred"
                         [] n \in W /\ r[n] \in Failures -> "fail"
                         [] OTHER -> task[n]
  <2>1. task' = [n \in Nodes |-> To(n)]
    BY <1>b DEF Admission
  <2>2. \A n \in admitted : To(n) = "start"
    BY DEF Failures
  <2>3. \A n \in W \ admitted : To(n) \in {"superseded", "deferred", "fail"}
    OBVIOUS
  <2>4. \A n \in Nodes \ W : To(n) = task[n]
    OBVIOUS
  <2>. HIDE DEF To, admitted
  <2>5. \A n \in Nodes : To(n) \in TaskPCs
    BY <2>2, <2>3, <2>4 DEF TaskTypeOK, TaskPCs
  <2>. QED  BY <1>0, <2>1, <2>2, <2>3, <2>4, <2>5
<1>6. /\ outcome' \in [Nodes -> LegalOutcomes \cup Failures \cup {"none", "illegal"}]
      /\ \A n \in Nodes \ W : outcome'[n] = outcome[n]
  BY <1>b DEF Admission, TaskTypeOK
<1>7. /\ UNCHANGED <<runs, alive, wake, snap, tail, victim, progress, coord, cmd, verdict, issued, crashes>>
      /\ pump' = "select"
  BY DEF PumpAdmit
<1>8. admitted \subseteq W
  OBVIOUS
<1>. HIDE DEF admitted
<1>9. DurableTypeOK'
  BY <1>1, <1>2, <1>3, <1>7 DEF DurableTypeOK, Statuses
<1>10. DriverTypeOK' /\ CommandTypeOK'
  <2>1. DriverTypeOK'
    BY <1>7 DEF DriverTypeOK, PumpPCs
  <2>2. CommandTypeOK'
    BY <1>1, <1>7 DEF CommandTypeOK
  <2>. QED  BY <2>1, <2>2
<1>11. TaskTypeOK'
  BY <1>4, <1>5, <1>6, EffectStates DEF TaskTypeOK
<1>12. Reports'
  BY <1>3, <1>4, <1>5, <1>6, <1>8, EffectStates DEF Reports, DurableTypeOK, TaskTypeOK
<1>13. Unpolled'
  <2>. SUFFICES ASSUME NEW n \in Nodes, Keying[n] = "node"
                PROVE  /\ runs[n] \in {0, 1}
                       /\ effect'[n] = "fresh" => runs[n] = 0
                       /\ task'[n] \in {"poll", "solo_poll"} => runs[n] = 0 /\ effect'[n] = "intent"
                       /\ active'[n] = "fresh" /\ task'[n] \in {"start", "gate", "gating", "gated"}
                            => runs[n] = 0 /\ effect'[n] = "intent"
    BY <1>7 DEF Unpolled
  <2>1. CASE n \in admitted
    BY <2>1, <1>3, <1>4, <1>5, EffectStates DEF Unpolled
  <2>2. CASE n \notin admitted
    BY <2>2, <1>3, <1>4, <1>5 DEF Unpolled
  <2>. QED  BY <2>1, <2>2
<1>. QED  BY <1>9, <1>10, <1>11, <1>12, <1>13

-----------------------------------------------------------------------------
(***************************************************************************)
(* The steps of a node's task                                              *)
(***************************************************************************)
LEMMA TaskFrame ==
    ASSUME IInv, NEW n \in Nodes, TaskStep(n)
    PROVE  DriverTypeOK' /\ CommandTypeOK'
<1>1. /\ UNCHANGED <<alive, wake, pump, snap, tail, victim, verdict, progress, coord, cmd, issued, crashes>>
      /\ fresh' = fresh \/ fresh' = [b \in {"user", "pump"} |-> FALSE]
  BY DEF TaskStep, driver, TaskStart, TaskSuperseded, TaskSoloStart, TaskSoloEnter, TaskGate, TaskPoll, TaskAnswer, TaskReceipt, TaskFinish, TaskCommit, TaskCleanup, TaskDrop, TaskFail, Commit, NoCommit
<1>2. DriverTypeOK'
  BY <1>1 DEF IInv, TypeOK, DriverTypeOK
<1>3. CommandTypeOK'
  BY <1>1 DEF IInv, TypeOK, CommandTypeOK
<1>. QED  BY <1>2, <1>3

\* The first look of a task at its deadline and the command intent.
LEMMA TaskStartInv ==
    ASSUME IInv, NEW n \in Nodes, TaskStart(n)
    PROVE  IInv'
<1>. USE DEF IInv, TypeOK, durable
<1>1. DurableTypeOK'
  BY DEF TaskStart, Goto, Report, DurableTypeOK
<1>2. TaskTypeOK'
  BY DEF TaskStart, Goto, Report, TaskTypeOK, TaskPCs, Failures
<1>3. Reports'
  BY DEF TaskStart, Goto, Report, TaskTypeOK, DurableTypeOK, Reports
<1>4. Unpolled'
  BY DEF TaskStart, Goto, Report, TaskTypeOK, DurableTypeOK, Unpolled
<1>. QED  BY <1>1, <1>2, <1>3, <1>4, TaskFrame DEF TaskStep

\* A superseded task reports nothing.
LEMMA TaskSupersededInv ==
    ASSUME IInv, NEW n \in Nodes, TaskSuperseded(n)
    PROVE  IInv'
<1>. USE DEF IInv, TypeOK, durable
<1>1. DurableTypeOK'
  BY DEF TaskSuperseded, Goto, DropEntry, DurableTypeOK
<1>2. TaskTypeOK'
  BY DEF TaskSuperseded, Goto, DropEntry, TaskTypeOK, TaskPCs
<1>3. Reports'
  BY DEF TaskSuperseded, Goto, DropEntry, TaskTypeOK, DurableTypeOK, Reports
<1>4. Unpolled'
  BY DEF TaskSuperseded, Goto, DropEntry, TaskTypeOK, DurableTypeOK, Unpolled
<1>. QED  BY <1>1, <1>2, <1>3, <1>4, TaskFrame DEF TaskStep

\* A node started on its own holds an entry that no wave inspected.
LEMMA TaskSoloStartInv ==
    ASSUME IInv, NEW n \in Nodes, TaskSoloStart(n)
    PROVE  IInv'
<1>. USE DEF IInv, TypeOK, durable
<1>0. SoloFailures(n) \subseteq Failures
  BY DEF SoloFailures, Failures
<1>1. DurableTypeOK'
  BY DEF TaskSoloStart, Goto, Report, Commit, NoCommit, DurableTypeOK, Statuses
<1>2. TaskTypeOK'
  BY <1>0 DEF TaskSoloStart, Goto, Report, Commit, NoCommit, TaskTypeOK, TaskPCs
<1>3. Reports'
  BY <1>0 DEF TaskSoloStart, Goto, Report, Commit, NoCommit, TaskTypeOK, DurableTypeOK, Reports
<1>4. Unpolled'
  BY DEF TaskSoloStart, Goto, Report, Commit, NoCommit, TaskTypeOK, DurableTypeOK, Unpolled
<1>. QED  BY <1>1, <1>2, <1>3, <1>4, TaskFrame DEF TaskStep

\* begin_execution_effect: a node on its own is polled only when its effect
\* stream was empty, and the intent is then on record.
LEMMA TaskSoloEnterInv ==
    ASSUME IInv, NEW n \in Nodes, TaskSoloEnter(n)
    PROVE  IInv'
<1>. USE DEF IInv, TypeOK, durable
<1>1. DurableTypeOK'
  BY EffectStates DEF TaskSoloEnter, Goto, Report, DropEntry, RecordIntents, DurableTypeOK
<1>2. TaskTypeOK'
  BY EffectStates DEF TaskSoloEnter, Goto, Report, DropEntry, RecordIntents, TaskTypeOK, TaskPCs, LegalOutcomes, Terminal, Failures, DurableTypeOK, EffectState
<1>3. Reports'
  BY EffectStates DEF TaskSoloEnter, Goto, Report, DropEntry, RecordIntents, TaskTypeOK, DurableTypeOK, Reports, LegalOutcomes, Terminal
<1>4. Unpolled'
  BY EffectStates DEF TaskSoloEnter, Goto, Report, DropEntry, RecordIntents, TaskTypeOK, DurableTypeOK, Unpolled
<1>. QED  BY <1>1, <1>2, <1>3, <1>4, TaskFrame DEF TaskStep

\* The second look at the intent: a wave entry decides between poll, replay
\* and refusal.
LEMMA TaskGateInv ==
    ASSUME IInv, NEW n \in Nodes, TaskGate(n)
    PROVE  IInv'
<1>. USE DEF IInv, TypeOK, durable
<1>1. DurableTypeOK'
  BY DEF TaskGate, Goto, Report, DurableTypeOK
<1>2. TaskTypeOK'
  BY DEF TaskGate, Goto, Report, TaskTypeOK, TaskPCs, Failures, Reports, DurableTypeOK
<1>3. Reports'
  BY DEF TaskGate, Goto, Report, TaskTypeOK, DurableTypeOK, Reports
<1>4. Unpolled'
  BY DEF TaskGate, Goto, Report, TaskTypeOK, DurableTypeOK, Unpolled
<1>. QED  BY <1>1, <1>2, <1>3, <1>4, TaskFrame DEF TaskStep

\* The poll, the only step that counts: the intent on record stops the next.
LEMMA TaskPollInv ==
    ASSUME IInv, NEW n \in Nodes, TaskPoll(n)
    PROVE  IInv'
<1>. USE DEF IInv, TypeOK, durable
<1>1. DurableTypeOK'
  BY DEF TaskPoll, Goto, DurableTypeOK
<1>2. TaskTypeOK'
  BY DEF TaskPoll, Goto, TaskTypeOK, TaskPCs
<1>3. Reports'
  BY DEF TaskPoll, Goto, TaskTypeOK, DurableTypeOK, Reports
<1>4. Unpolled'
  BY DEF TaskPoll, Goto, TaskTypeOK, DurableTypeOK, Unpolled
<1>. QED  BY <1>1, <1>2, <1>3, <1>4, TaskFrame DEF TaskStep

\* What the executor answers is a report still to be validated.
LEMMA TaskAnswerInv ==
    ASSUME IInv, NEW n \in Nodes, TaskAnswer(n)
    PROVE  IInv'
<1>. USE DEF IInv, TypeOK, durable
<1>1. PICK o \in Outcomes[n] \cup {"Cancelled"} :
         /\ Report(n, o)
         /\ Goto(n, CASE o = "panic" -> "fail"
                      [] o = "error" -> "drop"
                      [] OTHER -> IF task[n] = "executing" THEN "finish" ELSE "solo_receipt")
  BY DEF TaskAnswer
<1>2. o \in LegalOutcomes \cup {"error", "panic", "illegal"}
  BY ConstantsAssumption DEF LegalOutcomes, Terminal
<1>3. PICK pc \in {"fail", "drop", "finish", "solo_receipt"} :
         /\ task' = [task EXCEPT ![n] = pc]
         /\ pc \in {"finish", "solo_receipt"} => o \notin {"error", "panic"}
  BY <1>1 DEF Goto
<1>4. outcome' = [outcome EXCEPT ![n] = o] /\ UNCHANGED <<status, attempts, effect, runs, active>>
  BY <1>1 DEF TaskAnswer, Report
<1>5. DurableTypeOK'
  BY <1>4 DEF DurableTypeOK
<1>6. TaskTypeOK'
  BY <1>2, <1>3, <1>4 DEF TaskTypeOK, TaskPCs, Failures
<1>7. Reports'
  BY <1>2, <1>3, <1>4 DEF TaskTypeOK, Reports
<1>8. Unpolled'
  BY <1>3, <1>4 DEF TaskTypeOK, Unpolled
<1>. QED  BY <1>5, <1>6, <1>7, <1>8, TaskFrame DEF TaskStep

\* commit_execution_effect replaces the intent by the outcome.
LEMMA TaskReceiptInv ==
    ASSUME IInv, NEW n \in Nodes, TaskReceipt(n)
    PROVE  IInv'
<1>. USE DEF IInv, TypeOK, durable
<1>1. DurableTypeOK'
  BY DEF TaskReceipt, Goto, RecordReceipts, DurableTypeOK, TaskTypeOK, Reports
<1>2. TaskTypeOK'
  BY DEF TaskReceipt, Goto, RecordReceipts, TaskTypeOK, TaskPCs
<1>3. Reports'
  BY DEF TaskReceipt, Goto, RecordReceipts, TaskTypeOK, DurableTypeOK, Reports, LegalOutcomes, Terminal, Waiting
<1>4. Unpolled'
  BY DEF TaskReceipt, Goto, RecordReceipts, TaskTypeOK, DurableTypeOK, Unpolled, Reports, LegalOutcomes, Terminal, Waiting
<1>. QED  BY <1>1, <1>2, <1>3, <1>4, TaskFrame DEF TaskStep

\* validate_outcome: past it a report is one of the legal outcomes.
LEMMA TaskFinishInv ==
    ASSUME IInv, NEW n \in Nodes, TaskFinish(n)
    PROVE  IInv'
<1>. USE DEF IInv, TypeOK, durable
<1>1. DurableTypeOK'
  BY DEF TaskFinish, Goto, DropEntry, DurableTypeOK
<1>2. TaskTypeOK'
  BY DEF TaskFinish, Goto, DropEntry, TaskTypeOK, TaskPCs
<1>3. Reports'
  BY DEF TaskFinish, Goto, DropEntry, TaskTypeOK, DurableTypeOK, Reports
<1>4. Unpolled'
  BY DEF TaskFinish, Goto, DropEntry, TaskTypeOK, DurableTypeOK, Unpolled
<1>. QED  BY <1>1, <1>2, <1>3, <1>4, TaskFrame DEF TaskStep

\* A single commit puts a validated report into the graph, or nothing.
LEMMA TaskCommitInv ==
    ASSUME IInv, NEW n \in Nodes, TaskCommit(n)
    PROVE  IInv'
<1>. USE DEF IInv, TypeOK, durable
<1>1. DurableTypeOK'
  BY DEF TaskCommit, Goto, DropEntry, Commit, NoCommit, DurableTypeOK, Statuses, LegalOutcomes, Reports
<1>2. TaskTypeOK'
  BY DEF TaskCommit, Goto, DropEntry, Commit, NoCommit, TaskTypeOK, TaskPCs
<1>3. Reports'
  BY DEF TaskCommit, Goto, DropEntry, Commit, NoCommit, TaskTypeOK, DurableTypeOK, Reports
<1>4. Unpolled'
  BY DEF TaskCommit, Goto, DropEntry, Commit, NoCommit, TaskTypeOK, DurableTypeOK, Unpolled
<1>. QED  BY <1>1, <1>2, <1>3, <1>4, TaskFrame DEF TaskStep

\* after_commit and the removal of the entry.
LEMMA TaskCleanupInv ==
    ASSUME IInv, NEW n \in Nodes, TaskCleanup(n)
    PROVE  IInv'
<1>. USE DEF IInv, TypeOK, durable
<1>1. DurableTypeOK'
  BY DEF TaskCleanup, Goto, DropEntry, DurableTypeOK
<1>2. TaskTypeOK'
  BY DEF TaskCleanup, Goto, DropEntry, TaskTypeOK, TaskPCs
<1>3. Reports'
  BY DEF TaskCleanup, Goto, DropEntry, TaskTypeOK, DurableTypeOK, Reports
<1>4. Unpolled'
  BY DEF TaskCleanup, Goto, DropEntry, TaskTypeOK, DurableTypeOK, Unpolled
<1>. QED  BY <1>1, <1>2, <1>3, <1>4, TaskFrame DEF TaskStep

\* The removal of the entry after an executor error.
LEMMA TaskDropInv ==
    ASSUME IInv, NEW n \in Nodes, TaskDrop(n)
    PROVE  IInv'
<1>. USE DEF IInv, TypeOK, durable
<1>1. DurableTypeOK'
  BY DEF TaskDrop, Goto, DropEntry, DurableTypeOK
<1>2. TaskTypeOK'
  BY DEF TaskDrop, Goto, DropEntry, TaskTypeOK, TaskPCs
<1>3. Reports'
  BY DEF TaskDrop, Goto, DropEntry, TaskTypeOK, DurableTypeOK, Reports
<1>4. Unpolled'
  BY DEF TaskDrop, Goto, DropEntry, TaskTypeOK, DurableTypeOK, Unpolled
<1>. QED  BY <1>1, <1>2, <1>3, <1>4, TaskFrame DEF TaskStep

\* The statuses that failures are turned into.
LEMMA TaskFailInv ==
    ASSUME IInv, NEW n \in Nodes, TaskFail(n)
    PROVE  IInv'
<1>. USE DEF IInv, TypeOK, durable
<1>1. DurableTypeOK'
  BY DEF TaskFail, Goto, Commit, NoCommit, FailureStatus, DurableTypeOK, Statuses, Terminal
<1>2. TaskTypeOK'
  BY DEF TaskFail, Goto, Commit, NoCommit, FailureStatus, TaskTypeOK, TaskPCs
<1>3. Reports'
  BY DEF TaskFail, Goto, Commit, NoCommit, FailureStatus, TaskTypeOK, DurableTypeOK, Reports
<1>4. Unpolled'
  BY DEF TaskFail, Goto, Commit, NoCommit, FailureStatus, TaskTypeOK, DurableTypeOK, Unpolled
<1>. QED  BY <1>1, <1>2, <1>3, <1>4, TaskFrame DEF TaskStep

-----------------------------------------------------------------------------
(***************************************************************************)
(* Steps of several tasks, commands and recovery                           *)
(***************************************************************************)

\* A change of statuses and revisions alone.
LEMMA StatusChangeKeeps ==
    ASSUME IInv, status' \in [Nodes -> Statuses],
           UNCHANGED <<attempts, effect, runs, task, outcome, active>>
    PROVE  DurableTypeOK' /\ TaskTypeOK' /\ Reports' /\ Unpolled'
<1>. USE DEF IInv, TypeOK
<1>1. DurableTypeOK'
  BY DEF DurableTypeOK
<1>2. TaskTypeOK'
  BY DEF TaskTypeOK
<1>3. Reports' /\ Unpolled'
  BY DEF Reports, Unpolled
<1>. QED  BY <1>1, <1>2, <1>3

\* advance_dependencies makes planned nodes ready or blocked.
LEMMA AdvanceNodeInv ==
    ASSUME IInv, NEW n \in Nodes, AdvanceNode(n)
    PROVE  IInv'
<1>. USE DEF IInv, TypeOK
<1>1. DependencyTarget(n) \in Statuses
  BY DEF DependencyTarget, Statuses, Terminal
<1>2. status' \in [Nodes -> Statuses] /\ fresh' \in [{"user", "pump"} -> BOOLEAN]
  BY <1>1 DEF AdvanceNode, Commit, DurableTypeOK
<1>3. UNCHANGED <<attempts, effect, runs, task, outcome, active>>
  BY DEF AdvanceNode
<1>4. DurableTypeOK' /\ TaskTypeOK' /\ Reports' /\ Unpolled'
  BY <1>2, <1>3, StatusChangeKeeps
<1>5. DriverTypeOK'
  BY DEF AdvanceNode, driver, DriverTypeOK
<1>6. CommandTypeOK'
  BY <1>2 DEF AdvanceNode, CommandTypeOK
<1>. QED  BY <1>4, <1>5, <1>6

\* commit_terminal_wave: the reports of several tasks, with their receipts.
LEMMA CommitTerminalWaveInv ==
    ASSUME IInv, CommitTerminalWave
    PROVE  IInv'
<1>. USE DEF IInv, TypeOK
<1>. DEFINE Ended(W) == {n \in W : status[n] = "Running"}
            Wave(W, H) ==
                /\ IF Ended(W) = {} THEN NoCommit
                   ELSE Commit([n \in Nodes |-> IF n \in Ended(W) THEN outcome[n] ELSE status[n]])
                /\ RecordReceipts({n \in Ended(W) : active[n] = "fresh"})
                /\ active' = [n \in Nodes |->
                      IF n \in W \ (Ended(W) \cup H) THEN "no" ELSE active[n]]
                /\ task' = [n \in Nodes |-> CASE n \in Ended(W) -> "committed"
                                              [] n \in H -> "fatal"
                                              [] n \in W \ (Ended(W) \cup H) -> "done"
                                              [] OTHER -> task[n]]
<1>0. PICK W \in SUBSET {n \in Nodes : task[n] = "batch"} : \E H \in SUBSET (W \ Ended(W)) : Wave(W, H)
  BY DEF CommitTerminalWave
<1>1. PICK H \in SUBSET (W \ Ended(W)) : Wave(W, H)
  BY <1>0
<1>. DEFINE E == Ended(W)
<1>2. E \subseteq W /\ W \subseteq Nodes /\ \A n \in W : task[n] = "batch" /\ outcome[n] \in LegalOutcomes
  BY DEF Reports
<1>3. \/ UNCHANGED <<status, fresh>>
      \/ /\ status' = [n \in Nodes |-> IF n \in E THEN outcome[n] ELSE status[n]]
         /\ fresh' = [b \in {"user", "pump"} |-> FALSE]
  BY <1>1 DEF Commit, NoCommit
<1>4. effect' = [n \in Nodes |-> IF n \in E /\ active[n] = "fresh" /\ Keying[n] = "node"
                                   THEN outcome[n] ELSE effect[n]]
  BY <1>1 DEF RecordReceipts
<1>5. active' = [n \in Nodes |-> IF n \in W \ (E \cup H) THEN "no" ELSE active[n]]
  BY <1>1
<1>6. task' = [n \in Nodes |-> IF n \in E THEN "committed" ELSE IF n \in H THEN "fatal"
                                 ELSE IF n \in W THEN "done" ELSE task[n]]
  BY <1>1
<1>7. UNCHANGED <<attempts, runs, alive, wake, driver, progress, outcome, coord, cmd, issued, crashes>>
  BY DEF CommitTerminalWave
<1>. HIDE DEF E
<1>8. DurableTypeOK'
  BY <1>2, <1>3, <1>4, <1>7 DEF DurableTypeOK, LegalOutcomes, Statuses
<1>9. TaskTypeOK'
  BY <1>5, <1>6, <1>7 DEF TaskTypeOK, TaskPCs
<1>10. DriverTypeOK'
  BY <1>7 DEF driver, DriverTypeOK
<1>11. CommandTypeOK'
  BY <1>3, <1>7 DEF CommandTypeOK
<1>12. Reports'
  BY <1>2, <1>4, <1>5, <1>6, <1>7 DEF Reports, DurableTypeOK, TaskTypeOK, LegalOutcomes, Terminal, Waiting
<1>13. Unpolled'
  BY <1>2, <1>4, <1>5, <1>6, <1>7 DEF Unpolled, DurableTypeOK, TaskTypeOK, LegalOutcomes, Terminal, Waiting
<1>. QED  BY <1>8, <1>9, <1>10, <1>11, <1>12, <1>13

\* converge_after_terminal_commit around its dependency commits.
LEMMA ConvergeInv ==
    ASSUME IInv, BeginConverge \/ EndConverge
    PROVE  IInv'
<1>. USE DEF IInv, TypeOK, durable
<1>1. /\ UNCHANGED <<status, attempts, effect, runs, outcome, active>>
      /\ UNCHANGED <<alive, wake, pump, snap, tail, victim, verdict, cmd, fresh, issued, crashes>>
      /\ progress' \in BOOLEAN /\ coord' \in {"free", "task"}
  BY DEF BeginConverge, EndConverge, driver, DriverTypeOK
<1>2. /\ task' \in [Nodes -> TaskPCs]
      /\ \A n \in Nodes : task'[n] \in {"converging", "done", "cleanup", task[n]}
  BY DEF BeginConverge, EndConverge, TaskTypeOK, TaskPCs
<1>3. DurableTypeOK' /\ TaskTypeOK'
  BY <1>1, <1>2 DEF DurableTypeOK, TaskTypeOK
<1>4. DriverTypeOK' /\ CommandTypeOK'
  BY <1>1 DEF DriverTypeOK, CommandTypeOK
<1>5. Reports' /\ Unpolled'
  BY <1>1, <1>2 DEF Reports, Unpolled
<1>. QED  BY <1>3, <1>4, <1>5

\* The end of a command ends the driver or wakes the tasks that waited for it.
LEMMA EndCommandKeeps ==
    ASSUME IInv, NEW applied \in BOOLEAN, EndCommand(applied),
           status' \in [Nodes -> Statuses], UNCHANGED <<attempts, effect, runs>>,
           active' \in [Nodes -> {"no", "solo"} \cup WaveEntries],
           \A n \in Nodes : active'[n] \in {"no", active[n]},
           fresh' \in [{"user", "pump"} -> BOOLEAN],
           UNCHANGED <<alive, wake, progress, issued, crashes>>
    PROVE  IInv'
<1>. USE DEF IInv, TypeOK
<1>1. DurableTypeOK'
  BY DEF DurableTypeOK
<1>2. \/ EndDriver("failed")
      \/ /\ task' = [n \in Nodes |-> WokenTask(task[n])]
         /\ UNCHANGED <<snap, tail, verdict, outcome, coord>>
         /\ pump' \in {"tail", "wave_over", pump} /\ victim' \in {NoNode, victim}
  BY DEF EndCommand
<1>3. TaskTypeOK'
  <2>1. CASE EndDriver("failed")
    BY <2>1 DEF EndDriver, TaskTypeOK, TaskPCs
  <2>2. CASE task' = [n \in Nodes |-> WokenTask(task[n])] /\ outcome' = outcome
    BY <2>2 DEF WokenTask, TaskTypeOK, TaskPCs
  <2>. QED  BY <1>2, <2>1, <2>2
<1>4. Reports' /\ Unpolled'
  <2>1. CASE EndDriver("failed")
    BY <2>1 DEF EndDriver, TaskTypeOK, Reports, Unpolled
  <2>2. CASE task' = [n \in Nodes |-> WokenTask(task[n])] /\ outcome' = outcome
    <3>1. \A n \in Nodes : /\ task'[n] \in {"superseded", "gated", "report", "dropped", task[n]}
                           /\ task'[n] = "gated" => task[n] \in {"gating", "gated"}
                           /\ task'[n] = "report" => task[n] \in {"finishing", "report"}
      BY <2>2 DEF WokenTask, TaskTypeOK
    <3>2. Reports'
      BY <3>1, <2>2 DEF Reports, TaskTypeOK
    <3>3. Unpolled'
      BY <3>1, <2>2 DEF Unpolled, TaskTypeOK
    <3>. QED  BY <3>2, <3>3
  <2>. QED  BY <1>2, <2>1, <2>2
<1>5. DriverTypeOK'
  <2>1. CASE EndDriver("failed")
    BY <2>1 DEF EndDriver, DriverTypeOK, PumpPCs
  <2>2. CASE ~EndDriver("failed")
    BY <2>2, <1>2 DEF DriverTypeOK, PumpPCs
  <2>. QED  BY <2>1, <2>2
<1>6. CommandTypeOK'
  BY <1>2 DEF EndCommand, EndDriver, CommandTypeOK, NoCommand
<1>. QED  BY <1>1, <1>3, <1>4, <1>5, <1>6

\* The first critical section of a command.
LEMMA CommandEnterInv ==
    ASSUME IInv, CommandEnter
    PROVE  IInv'
<1>. USE DEF durable
<1>0. UNCHANGED <<status, attempts, effect, runs, alive, wake, progress, active, fresh, issued, crashes>>
  BY DEF CommandEnter
<1>1. CASE EndCommand(FALSE)
  <2>1. /\ status' \in [Nodes -> Statuses] /\ fresh' \in [{"user", "pump"} -> BOOLEAN]
        /\ active' \in [Nodes -> {"no", "solo"} \cup WaveEntries]
        /\ \A n \in Nodes : active'[n] \in {"no", active[n]}
    BY <1>0 DEF IInv, TypeOK, DurableTypeOK, TaskTypeOK, CommandTypeOK
  <2>. QED  BY <1>0, <1>1, <2>1, EndCommandKeeps
<1>2. CASE /\ cmd' = [cmd EXCEPT !.stage = "cancelling", !.targets = Targets]
           /\ UNCHANGED <<driver, task, outcome, coord>>
  <2>1. Frame
    BY <1>0, <1>2 DEF Frame
  <2>2. DriverTypeOK'
    BY <1>0, <1>2 DEF IInv, TypeOK, DriverTypeOK, driver
  <2>3. Targets \subseteq Nodes
    BY DEF Targets
  <2>4. CommandTypeOK'
    BY <1>0, <1>2, <2>3 DEF IInv, TypeOK, CommandTypeOK
  <2>. QED  BY <2>1, <2>2, <2>4, FrameKeeps DEF IInv, TypeOK
<1>. QED  BY <1>1, <1>2 DEF CommandEnter

\* apply_command writes statuses.
LEMMA CommandStatusTyped ==
    ASSUME IInv, NEW n \in Nodes
    PROVE  CommandStatus(n) \in Statuses
BY DEF IInv, TypeOK, DurableTypeOK, CommandStatus, Statuses, Waiting, Terminal

\* The second critical section: statuses change and entries go, no record does.
LEMMA CommandApplyInv ==
    ASSUME IInv, CommandApply
    PROVE  IInv'
<1>0. UNCHANGED <<attempts, effect, runs, alive, wake, progress, issued, crashes>>
  BY DEF CommandApply
<1>1. PICK applied \in BOOLEAN : EndCommand(applied)
  BY DEF CommandApply
<1>2. /\ status' \in [Nodes -> Statuses] /\ fresh' \in [{"user", "pump"} -> BOOLEAN]
  <2>1. \A n \in Nodes : CommandStatus(n) \in Statuses
    BY CommandStatusTyped
  <2>2. NoCommit \/ Commit([n \in Nodes |-> CommandStatus(n)])
    BY DEF CommandApply
  <2>. DEFINE s == [n \in Nodes |-> CommandStatus(n)]
  <2>3. s \in [Nodes -> Statuses]
    BY <2>1
  <2>4. NoCommit \/ Commit(s)
    BY <2>2
  <2>. HIDE DEF s
  <2>. QED  BY <2>3, <2>4 DEF Commit, NoCommit, IInv, TypeOK, DurableTypeOK, CommandTypeOK
<1>3. /\ active' \in [Nodes -> {"no", "solo"} \cup WaveEntries]
      /\ \A n \in Nodes : active'[n] \in {"no", active[n]}
  BY DEF CommandApply, IInv, TypeOK, TaskTypeOK
<1>. QED  BY <1>0, <1>1, <1>2, <1>3, EndCommandKeeps

\* A command publishes its intent.
LEMMA UserInstallInv ==
    ASSUME IInv, NEW k \in Commands, UserInstall(k)
    PROVE  IInv'
<1>. USE DEF IInv, TypeOK, durable
<1>1. Frame
  BY DEF UserInstall, Frame
<1>2. DriverTypeOK'
  BY DEF UserInstall, DriverTypeOK, driver
<1>3. CommandTypeOK'
  BY ConstantsAssumption DEF UserInstall, CommandTypeOK
<1>. QED  BY <1>1, <1>2, <1>3, FrameKeeps

\* Resume, the decision of an approval, the result of an external wait.
LEMMA UserCommandInv ==
    ASSUME IInv, NEW k \in Commands, UserCommand(k)
    PROVE  IInv'
<1>. USE DEF IInv, TypeOK
<1>1. /\ status' \in [Nodes -> Statuses] /\ fresh' \in [{"user", "pump"} -> BOOLEAN]
  BY DEF UserCommand, Commit, DurableTypeOK, Statuses, Terminal
<1>2. UNCHANGED <<attempts, effect, runs, task, outcome, active>>
  BY DEF UserCommand
<1>3. DurableTypeOK' /\ TaskTypeOK' /\ Reports' /\ Unpolled'
  BY <1>1, <1>2, StatusChangeKeeps
<1>4. DriverTypeOK'
  <2>1. wake' \in {TRUE, wake}
    BY DEF UserCommand
  <2>. QED  BY <2>1 DEF UserCommand, DriverTypeOK, driver
<1>5. CommandTypeOK'
  BY <1>1, ConstantsAssumption DEF UserCommand, CommandTypeOK
<1>. QED  BY <1>3, <1>4, <1>5

\* Start-up recovery changes statuses only; an intent stays an intent.
LEMMA RecoverInv ==
    ASSUME IInv, Recover
    PROVE  IInv'
<1>. USE DEF IInv, TypeOK
<1>1. /\ status' \in [Nodes -> Statuses] /\ fresh' \in [{"user", "pump"} -> BOOLEAN]
  <2>1. PICK lost : \/ NoCommit
                    \/ Commit([n \in Nodes |-> IF n \in lost THEN "Blocked"
                                 ELSE IF n \in {m \in Nodes : status[m] = "Running"} THEN "Ready"
                                 ELSE status[n]])
    BY DEF Recover
  <2>. QED  BY <2>1 DEF Commit, NoCommit, DurableTypeOK, CommandTypeOK, Statuses, Terminal
<1>2. UNCHANGED <<attempts, effect, runs, task, outcome, active>>
  BY DEF Recover
<1>3. DurableTypeOK' /\ TaskTypeOK' /\ Reports' /\ Unpolled'
  BY <1>1, <1>2, StatusChangeKeeps
<1>4. DriverTypeOK'
  <2>1. alive' \in BOOLEAN /\ wake' \in BOOLEAN
    BY DEF Recover
  <2>. QED  BY <2>1 DEF Recover, DriverTypeOK, driver
<1>5. CommandTypeOK'
  BY <1>1 DEF Recover, CommandTypeOK
<1>. QED  BY <1>3, <1>4, <1>5

-----------------------------------------------------------------------------
\* Every step keeps the invariant.
LEMMA StepInv == IInv /\ [Next]_vars => IInv'
<1>. SUFFICES ASSUME IInv, [Next]_vars PROVE IInv'
  OBVIOUS
<1>1. CASE PumpStep
  BY <1>1, PumpControlInv, PumpEndInv, PumpJoinInv, PumpAdmitInv DEF PumpStep
<1>2. CASE SharedStep
  BY <1>2, AdvanceNodeInv, CommitTerminalWaveInv, ConvergeInv DEF SharedStep
<1>3. CASE CommandStep
  BY <1>3, CommandEnterInv, CommandApplyInv DEF CommandStep
<1>4. CASE \E n \in Nodes : TaskStep(n)
  BY <1>4, TaskStartInv, TaskSupersededInv, TaskSoloStartInv, TaskSoloEnterInv, TaskGateInv,
     TaskPollInv, TaskAnswerInv, TaskReceiptInv, TaskFinishInv, TaskCommitInv, TaskCleanupInv,
     TaskDropInv, TaskFailInv DEF TaskStep
<1>5. CASE \E k \in Commands : UserInstall(k) \/ UserCommand(k)
  BY <1>5, UserInstallInv, UserCommandInv
<1>6. CASE Crash \/ Recover
  BY <1>6, CrashInv, RecoverInv
<1>7. CASE UNCHANGED vars
  <2>1. Frame /\ UNCHANGED <<alive, wake, pump, snap, tail, victim, progress, coord, cmd, fresh,
                             verdict, issued, crashes>>
    BY <1>7 DEF vars, Frame
  <2>2. DriverTypeOK' /\ CommandTypeOK'
    BY <2>1 DEF IInv, TypeOK, DriverTypeOK, CommandTypeOK
  <2>. QED  BY <2>1, <2>2, FrameKeeps DEF IInv, TypeOK
<1>. QED  BY <1>1, <1>2, <1>3, <1>4, <1>5, <1>6, <1>7 DEF Next

\* The inductive invariant holds in every state of every execution of a graph
\* driver, its tasks, its commands, crashes and recoveries.
THEOREM GraphInv == Spec => []IInv
BY InitInv, StepInv, PTL DEF Spec

\* Every status in the graph is one of the contract's, whatever an executor
\* answers: an answer outside of it reaches neither a status nor a receipt
\* that a commit uses.
THEOREM GraphTypeCorrect == Spec => []TypeOK
<1>1. IInv => TypeOK
  BY DEF IInv
<1>. QED  BY <1>1, GraphInv, PTL

\* The executor of a node with a node-wide effect key is polled at most once in
\* the life of the graph, over all waves, pauses, resumes and crashes.
THEOREM GraphEffectAtMostOnce == Spec => []EffectAtMostOnce
<1>1. IInv => EffectAtMostOnce
  BY DEF IInv, Unpolled, EffectAtMostOnce
<1>. QED  BY <1>1, GraphInv, PTL

-----------------------------------------------------------------------------
(***************************************************************************)
(* The refinement of NodeLifecycle.  The runner counts predecessors, the   *)
(* contract speaks of sets: the two agree because the sets are finite.     *)
(***************************************************************************)
LEMMA PredecessorSets ==
    ASSUME NEW n \in Nodes
    PROVE  /\ IsFiniteSet(Preds[n])
           /\ Satisfied(n) = Lifecycle!Standing(n) /\ Satisfied(n) \subseteq Preds[n]
           /\ Possible(n) = Preds[n] \ Lifecycle!Fallen(n) /\ Lifecycle!Fallen(n) \subseteq Preds[n]
<1>1. Preds[n] \subseteq Nodes
  BY ConstantsAssumption
<1>2. IsFiniteSet(Preds[n])
  BY <1>1, ConstantsAssumption, FS_Subset
<1>3. Satisfied(n) = Lifecycle!Standing(n)
  BY DEF Satisfied, VerifiedStatus, Lifecycle!Standing
<1>4. Possible(n) = Preds[n] \ Lifecycle!Fallen(n)
  BY DEF Possible, VerifiedStatus, IsTerminal, Terminal, Lifecycle!Fallen, Lifecycle!Standing,
     Lifecycle!Terminal
<1>. QED  BY <1>2, <1>3, <1>4 DEF Satisfied, Lifecycle!Fallen

\* The contract's module has FiniteSets of its own.
LEMMA SameCardinality ==
    ASSUME NEW S
    PROVE  Lifecycle!Cardinality(S) = Cardinality(S)
BY Zenon DEF Lifecycle!Cardinality, Cardinality

\* dependency_target says Ready only where the policy releases the node.
LEMMA MetIsReleased ==
    ASSUME NEW n \in Nodes, DependencyMet(n)
    PROVE  Lifecycle!Released(n)
<1>. DEFINE S == Satisfied(n)
<1>1. S = Lifecycle!Standing(n) /\ S \subseteq Preds[n] /\ IsFiniteSet(Preds[n])
  BY PredecessorSets
<1>2. IsFiniteSet(S) /\ Cardinality(S) \in Nat /\ Cardinality(Preds[n]) \in Nat
  BY <1>1, FS_Subset, FS_CardinalityType
<1>3. Cardinality(S) <= Cardinality(Preds[n]) /\ (Cardinality(S) = Cardinality(Preds[n]) => S = Preds[n])
  BY <1>1, FS_Subset
<1>4. Cardinality(S) = 0 <=> S = {}
  BY <1>2, FS_EmptySet
<1>5. Policy[n].mode # "Finally" => Cardinality(S) >= Required(n)
  BY DEF DependencyMet
<1>6. Policy[n].mode = "Finally" => \A p \in Preds[n] : status[p] \in Lifecycle!Terminal
  BY DEF DependencyMet, VerifiedStatus, IsTerminal, Terminal, Lifecycle!Terminal
<1>. HIDE DEF S
<1>7. Policy[n].mode = "All" => S = Preds[n]
  BY <1>2, <1>3, <1>5 DEF Required
<1>8. Policy[n].mode = "Any" => S # {}
  BY <1>2, <1>4, <1>5 DEF Required
<1>9. Policy[n].mode = "Quorum" => Cardinality(S) >= Policy[n].minimum
  BY <1>5 DEF Required
<1>10. Policy[n].mode = "Quorum" => Lifecycle!Cardinality(Lifecycle!Standing(n)) >= Policy[n].minimum
  BY <1>1, <1>9, SameCardinality, Zenon
<1>. QED  BY <1>1, <1>6, <1>7, <1>8, <1>10, Zenon DEF Lifecycle!Released

\* dependency_target says Blocked only where the policy can no longer be met.
LEMMA LostIsHopeless ==
    ASSUME NEW n \in Nodes, DependencyLost(n)
    PROVE  Lifecycle!Hopeless(n)
<1>. DEFINE P == Possible(n)
<1>1. /\ P = Preds[n] \ Lifecycle!Fallen(n) /\ Lifecycle!Fallen(n) \subseteq Preds[n]
      /\ IsFiniteSet(Preds[n])
  BY PredecessorSets
<1>2. IsFiniteSet(P) /\ Cardinality(P) \in Nat /\ Cardinality(Preds[n]) \in Nat
  BY <1>1, FS_Subset, FS_CardinalityType
<1>3. Cardinality(P) = 0 <=> P = {}
  BY <1>2, FS_EmptySet
<1>4. Policy[n].mode # "Finally" /\ Cardinality(P) < Required(n)
  BY DEF DependencyLost
<1>. HIDE DEF P
<1>5. CASE Policy[n].mode = "All"
  <2>1. Cardinality(P) < Cardinality(Preds[n])
    BY <1>4, <1>5 DEF Required
  <2>2. P # Preds[n]
    BY <2>1, <1>2
  <2>. QED  BY <1>1, <1>5, <2>2 DEF Lifecycle!Hopeless
<1>6. CASE Policy[n].mode = "Any"
  <2>1. Cardinality(P) < 1
    BY <1>4, <1>6 DEF Required
  <2>2. P = {}
    BY <2>1, <1>2, <1>3
  <2>. QED  BY <1>1, <1>6, <2>2 DEF Lifecycle!Hopeless
<1>7. CASE Policy[n].mode = "Quorum"
  <2>1. Cardinality(P) < Policy[n].minimum
    BY <1>4, <1>7 DEF Required
  <2>2. Lifecycle!Cardinality(Preds[n] \ Lifecycle!Fallen(n)) < Policy[n].minimum
    BY <1>1, <2>1, SameCardinality, Zenon
  <2>. QED  BY <1>7, <2>2, Zenon DEF Lifecycle!Hopeless
<1>. QED  BY <1>4, <1>5, <1>6, <1>7, ConstantsAssumption

\* A commit that moves every node along the table, or not at all, and leaves a
\* planned node planned unless it cancels it, is a step of the contract.
LEMMA TableStep ==
    ASSUME IInv, IInv',
           \A n \in Nodes : /\ Lifecycle!LegalTransition(status[n], status'[n])
                            /\ status[n] = "Planned" => status'[n] \in {"Planned", "Cancelled"}
    PROVE  Lifecycle!Work
<1>1. status' \in [Nodes -> Lifecycle!Statuses]
  BY DEF IInv, TypeOK, DurableTypeOK, Statuses, Terminal, Waiting, Lifecycle!Statuses,
     Lifecycle!Terminal, Lifecycle!Waiting
<1>. QED  BY <1>1 DEF Lifecycle!Work

\* The steps of a single node.
LEMMA NodeStepRefines ==
    ASSUME IInv, IInv', NEW n \in Nodes, TaskSoloStart(n) \/ TaskCommit(n) \/ TaskFail(n)
    PROVE  status' = status \/ Lifecycle!Work
<1>. USE DEF Lifecycle!LegalTransition, Lifecycle!Terminal, Lifecycle!Waiting
<1>0. status \in [Nodes -> Statuses]
  BY DEF IInv, TypeOK, DurableTypeOK
<1>1. CASE TaskSoloStart(n)
  <2>1. status' = status \/ (status[n] = "Ready" /\ status' = [status EXCEPT ![n] = "Running"])
    BY <1>1 DEF TaskSoloStart, Commit, NoCommit
  <2>2. CASE status[n] = "Ready" /\ status' = [status EXCEPT ![n] = "Running"]
    BY <1>0, <2>2, TableStep
  <2>. QED  BY <2>1, <2>2
<1>2. CASE TaskCommit(n)
  <2>1. \/ status' = status
        \/ /\ status[n] = "Running" /\ status' = [status EXCEPT ![n] = outcome[n]]
           /\ outcome[n] \in LegalOutcomes
    BY <1>2 DEF TaskCommit, Commit, NoCommit, IInv, Reports
  <2>2. CASE /\ status[n] = "Running" /\ status' = [status EXCEPT ![n] = outcome[n]]
             /\ outcome[n] \in LegalOutcomes
    BY <1>0, <2>2, TableStep DEF LegalOutcomes, Terminal, Waiting
  <2>. QED  BY <2>1, <2>2
<1>3. CASE TaskFail(n)
  <2>. DEFINE to == FailureStatus(outcome[n])
  <2>1. /\ to \in {"Cancelled", "Blocked", "Failed"}
        /\ FailsFrom(outcome[n]) \subseteq {"Ready", "Running"}
    BY DEF FailureStatus, FailsFrom
  <2>2. \/ status' = status
        \/ status[n] \in FailsFrom(outcome[n]) /\ status' = [status EXCEPT ![n] = to]
    BY <1>3 DEF TaskFail, Commit, NoCommit
  <2>. HIDE DEF to
  <2>3. CASE status[n] \in {"Ready", "Running"} /\ status' = [status EXCEPT ![n] = to]
    BY <1>0, <2>1, <2>3, TableStep
  <2>. QED  BY <2>1, <2>2, <2>3
<1>. QED  BY <1>1, <1>2, <1>3

\* The one step that takes a node out of Planned but by a cancellation.
LEMMA AdvanceRefines ==
    ASSUME IInv, IInv', NEW n \in Nodes, AdvanceNode(n)
    PROVE  Lifecycle!Work
<1>0. status \in [Nodes -> Statuses]
  BY DEF IInv, TypeOK, DurableTypeOK
<1>1. PICK to \in {"Ready", "Blocked"} :
         /\ status[n] = "Planned" /\ status' = [status EXCEPT ![n] = to]
         /\ to = "Ready" => DependencyMet(n)
         /\ to = "Blocked" => DependencyLost(n)
  BY DEF AdvanceNode, DependencyTarget, Commit
<1>2. to = "Ready" => Lifecycle!Released(n)
  BY <1>1, MetIsReleased
<1>3. to = "Blocked" => Lifecycle!Hopeless(n)
  BY <1>1, LostIsHopeless
<1>4. status' \in [Nodes -> Lifecycle!Statuses]
  BY DEF IInv, TypeOK, DurableTypeOK, Statuses, Terminal, Waiting, Lifecycle!Statuses,
     Lifecycle!Terminal, Lifecycle!Waiting
<1>5. \A m \in Nodes \ {n} : status'[m] = status[m]
  BY <1>0, <1>1
<1>6. status'[n] = to
  BY <1>0, <1>1
<1>. QED  BY <1>1, <1>2, <1>3, <1>4, <1>5, <1>6 DEF Lifecycle!Work, Lifecycle!LegalTransition

\* The steps of several nodes at once.
LEMMA WaveRefines ==
    ASSUME IInv, IInv', PumpAdmit \/ CommitTerminalWave \/ CommandApply
    PROVE  status' = status \/ Lifecycle!Work
<1>. USE DEF Lifecycle!LegalTransition, Lifecycle!Terminal, Lifecycle!Waiting
<1>0. status \in [Nodes -> Statuses]
  BY DEF IInv, TypeOK, DurableTypeOK
<1>1. CASE PumpAdmit
  <2>1. PICK W \in Batches : \E r \in [W -> {"ok", "deferred"} \cup Failures] : Admission(W, r)
    BY <1>1 DEF PumpAdmit
  <2>2. PICK r : Admission(W, r)
    BY <2>1
  <2>. DEFINE A == {n \in W : r[n] = "ok" /\ status[n] = "Ready"}
  <2>3. \/ status' = status
        \/ status' = [n \in Nodes |-> IF n \in A THEN "Running" ELSE status[n]]
    BY <2>2 DEF Admission, Commit, NoCommit
  <2>4. \A n \in A : status[n] = "Ready"
    OBVIOUS
  <2>. HIDE DEF A
  <2>5. CASE status' = [n \in Nodes |-> IF n \in A THEN "Running" ELSE status[n]]
    BY <2>4, <2>5, TableStep
  <2>. QED  BY <2>3, <2>5
<1>2. CASE CommitTerminalWave
  <2>1. PICK E : /\ \A n \in Nodes \cap E : status[n] = "Running" /\ outcome[n] \in LegalOutcomes
                 /\ \/ status' = status
                    \/ status' = [n \in Nodes |-> IF n \in E THEN outcome[n] ELSE status[n]]
    <3>. DEFINE Ended(W) == {n \in W : status[n] = "Running"}
    <3>1. PICK W \in SUBSET {n \in Nodes : task[n] = "batch"} :
             IF Ended(W) = {} THEN NoCommit
             ELSE Commit([n \in Nodes |-> IF n \in Ended(W) THEN outcome[n] ELSE status[n]])
      BY <1>2 DEF CommitTerminalWave
    <3>. WITNESS Ended(W)
    <3>. QED  BY <3>1 DEF Commit, NoCommit, IInv, Reports
  <2>2. CASE status' = [n \in Nodes |-> IF n \in E THEN outcome[n] ELSE status[n]]
    BY <2>1, <2>2, TableStep DEF LegalOutcomes, Terminal, Waiting
  <2>. QED  BY <2>1, <2>2
<1>3. CASE CommandApply
  <2>1. status' = status \/ status' = [n \in Nodes |-> CommandStatus(n)]
    BY <1>3 DEF CommandApply, Commit, NoCommit
  <2>2. \A n \in Nodes : \/ CommandStatus(n) = status[n]
                         \/ CommandStatus(n) = "Paused" /\ status[n] \in {"Ready", "Running"}
                         \/ CommandStatus(n) = "Cancelled" /\ status[n] \in Statuses \ Terminal
    BY <1>0 DEF CommandStatus, IsTerminal
  <2>3. CASE status' = [n \in Nodes |-> CommandStatus(n)]
    <3>1. \A n \in Nodes : \/ status'[n] = status[n]
                           \/ status'[n] = "Paused" /\ status[n] \in {"Ready", "Running"}
                           \/ status'[n] = "Cancelled" /\ status[n] \in Statuses \ Terminal
      BY <2>2, <2>3, Zenon
    <3>. QED  BY <3>1, TableStep DEF Statuses, Terminal, Waiting
  <2>. QED  BY <2>1, <2>3
<1>. QED  BY <1>1, <1>2, <1>3

\* The commands of users, and recovery.
LEMMA UserRefines ==
    ASSUME IInv, IInv', NEW k \in Commands, UserCommand(k)
    PROVE  Lifecycle!Next
<1>. USE DEF Lifecycle!LegalTransition, Lifecycle!Terminal, Lifecycle!Waiting
<1>0. status \in [Nodes -> Statuses]
  BY DEF IInv, TypeOK, DurableTypeOK
<1>1. CASE status' = [n \in Nodes |-> IF status[n] = "Paused" THEN "Ready" ELSE status[n]]
  BY <1>1, TableStep DEF Lifecycle!Next
<1>2. CASE \E n \in Nodes : \E to \in {"Ready", "Cancelled"} :
             status[n] = "WaitingApproval" /\ status' = [status EXCEPT ![n] = to]
  BY <1>0, <1>2, TableStep DEF Lifecycle!Next
<1>3. CASE \E n \in Nodes : status[n] = "WaitingExternal" /\ status' = [status EXCEPT ![n] = "Completed"]
  BY <1>3 DEF Lifecycle!Next, Lifecycle!Resolve
<1>. QED  BY <1>1, <1>2, <1>3 DEF UserCommand, Commit

\* recover is the recovery step of the lifecycle.
LEMMA RecoverRefines ==
    ASSUME IInv, IInv', Recover
    PROVE  status' = status \/ Lifecycle!Next
<1>. DEFINE running == {n \in Nodes : status[n] = "Running"}
<1>1. PICK lost \in SUBSET running :
         \/ status' = status
         \/ status' = [n \in Nodes |-> IF n \in lost THEN "Blocked"
                                       ELSE IF n \in running THEN "Ready" ELSE status[n]]
  BY DEF Recover, Commit, NoCommit
<1>2. status' \in [Nodes -> Lifecycle!Statuses]
  BY DEF IInv, TypeOK, DurableTypeOK, Statuses, Terminal, Waiting, Lifecycle!Statuses,
     Lifecycle!Terminal, Lifecycle!Waiting
<1>. QED  BY <1>1, <1>2 DEF Lifecycle!Next, Lifecycle!Recovery

\* Every step of the graph is a step of the lifecycle or leaves it as it is.
LEMMA StepRefines == IInv /\ IInv' /\ [Next]_vars => [Lifecycle!Next]_status
<1>. SUFFICES ASSUME IInv, IInv', [Next]_vars PROVE status' = status \/ Lifecycle!Next
  OBVIOUS
<1>1. CASE PumpStep
  <2>1. PumpAdmit \/ status' = status
    BY <1>1 DEF PumpStep, Dispatch, PumpBeginAdvance, PumpEndAdvance, PumpLoadVictim, PumpInstall,
       PumpInstallRefused, PumpWave, PumpWaveSuperseded, PumpSettle, PumpNotified, PumpJoin,
       PumpJoinFatal, durable
  <2>. QED  BY <2>1, WaveRefines DEF Lifecycle!Next
<1>2. CASE SharedStep
  <2>1. CASE \E n \in Nodes : AdvanceNode(n)
    BY <2>1, AdvanceRefines DEF Lifecycle!Next
  <2>2. CASE CommitTerminalWave
    BY <2>2, WaveRefines DEF Lifecycle!Next
  <2>3. CASE BeginConverge \/ EndConverge
    BY <2>3 DEF BeginConverge, EndConverge, durable
  <2>. QED  BY <1>2, <2>1, <2>2, <2>3 DEF SharedStep
<1>3. CASE CommandStep
  <2>1. CommandApply \/ status' = status
    BY <1>3 DEF CommandStep, CommandEnter, durable
  <2>. QED  BY <2>1, WaveRefines DEF Lifecycle!Next
<1>4. CASE \E n \in Nodes : TaskStep(n)
  <2>1. PICK n \in Nodes : TaskStep(n)
    BY <1>4
  <2>2. \/ TaskSoloStart(n) \/ TaskCommit(n) \/ TaskFail(n)
        \/ status' = status
    BY <2>1 DEF TaskStep, TaskStart, TaskSuperseded, TaskSoloEnter, TaskGate, TaskPoll, TaskAnswer,
       TaskReceipt, TaskFinish, TaskCleanup, TaskDrop, durable
  <2>. QED  BY <2>2, NodeStepRefines DEF Lifecycle!Next
<1>5. CASE \E k \in Commands : UserInstall(k) \/ UserCommand(k)
  BY <1>5, UserRefines DEF UserInstall, durable
<1>6. CASE Crash \/ Recover
  BY <1>6, RecoverRefines DEF Crash, durable
<1>7. CASE UNCHANGED vars
  BY <1>7 DEF vars
<1>. QED  BY <1>1, <1>2, <1>3, <1>4, <1>5, <1>6, <1>7 DEF Next

\* The runner, its commands, crashes and recovery implement the contract of the
\* node statuses: what is proved of NodeLifecycle holds of every graph.
THEOREM GraphImplementsLifecycle == Spec => ImplementsLifecycle
<1>1. Init => Lifecycle!Init
  BY DEF Init, Lifecycle!Init
<1>2. IInv /\ IInv' /\ [Next]_vars => [Lifecycle!Next]_status
  BY StepRefines
<1>. QED  BY <1>1, <1>2, GraphInv, PTL DEF Spec, ImplementsLifecycle, Lifecycle!Spec
=============================================================================
