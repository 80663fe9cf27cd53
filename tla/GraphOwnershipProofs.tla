------------------------ MODULE GraphOwnershipProofs ------------------------
(***************************************************************************)
(* Who owns what while a graph is driven: the entry of the active map that *)
(* a task holds, the receipt behind a status, the group behind a tail      *)
(* cancellation and, under hypotheses that are stated with each theorem,   *)
(* the task behind a running node and the verdict of the driver.           *)
(***************************************************************************)
EXTENDS ExecutionGraphProofs

\* A task from its start to the commit of its report.
Working == {"start", "superseding", "gate", "gating", "gated", "solo", "solo_enter", "poll",
            "solo_poll", "executing", "solo_executing", "solo_receipt", "finish", "finishing",
            "report", "receipt", "commit", "batch"}
Ending  == {"finish", "finishing", "report", "receipt", "commit", "batch"}

\* The driver, its command and its tasks belong together.
Together ==
    /\ ~alive => pump = "off" /\ cmd = NoCommand
    /\ pump = "off" => NoTasks
    /\ (cmd.by = "pump") <=> (pump = "cancel")
    /\ (cmd.by = "pump") <=> (cmd.kind = "CancelNode")
    /\ cmd.by = "none" => cmd = NoCommand
    /\ cmd.by # "none" => cmd.stage # "none" /\ cmd.kind # "none"
    /\ pump \in {"loaded", "cancel"} => victim \in Nodes
    /\ cmd.stage = "cancelling" /\ cmd.kind = "CancelNode" => cmd.targets \subseteq {victim}
    /\ pump \in {"wave", "wave_wait", "wave_over", "admit"} => \A n \in snap.ready : task[n] = "none"

\* A running node whose task still works has its entry; what a command takes
\* the entry from it also takes out of Running, for the rest of the task.
Entry(n) ==
    /\ task[n] \in Working => status[n] \in {"Running", "Ready", "Paused", "Cancelled"}
    /\ task[n] = "solo" => status[n] # "Running"
    /\ status[n] = "Running" =>
          /\ task[n] \in {"start", "gate", "gating", "gated"} => active[n] \in WaveEntries
          /\ task[n] \in {"poll", "executing", "receipt"} => active[n] = "fresh"
          /\ task[n] \in {"solo_enter", "solo_poll", "solo_executing", "solo_receipt"} => active[n] = "solo"
          /\ task[n] \in Ending => active[n] \in {"fresh", "replay", "solo"}
          /\ task[n] = "batch" => active[n] # "solo"

\* The receipt of a node keyed by node says what its status says, and what its
\* report is about to make of it.
Receipt(n) ==
    Keying[n] = "node" =>
        /\ status[n] = "Running" =>
              /\ task[n] \in Ending /\ active[n] # "fresh" => effect[n] = outcome[n]
              /\ task[n] = "commit" => effect[n] = outcome[n]
        /\ status[n] = "WaitingExternal" => effect[n] = "WaitingExternal"
        /\ status[n] = "Completed" => effect[n] \in {"Completed", "WaitingExternal"}

Custody == \A n \in Nodes : Entry(n) /\ Receipt(n)

OInv == IInv /\ Together /\ Custody

-----------------------------------------------------------------------------
(***************************************************************************)
(* What the larger steps do, stated once                                   *)
(***************************************************************************)

\* A task's step concerns its own node only.
LEMMA TaskLocal ==
    ASSUME IInv, NEW n \in Nodes, TaskStep(n)
    PROVE  /\ UNCHANGED <<alive, wake, pump, snap, tail, victim, verdict, progress, coord, cmd,
                          issued, crashes>>
           /\ \A m \in Nodes \ {n} :
                 /\ status'[m] = status[m] /\ task'[m] = task[m] /\ active'[m] = active[m]
                 /\ outcome'[m] = outcome[m] /\ effect'[m] = effect[m]
<1>. USE DEF IInv, TypeOK, DurableTypeOK, TaskTypeOK, durable, driver, Goto, Report, DropEntry, Commit,
     NoCommit, RecordIntents, RecordReceipts
<1>1. CASE TaskStart(n) \/ TaskSuperseded(n) \/ TaskSoloStart(n)
  BY <1>1 DEF TaskStart, TaskSuperseded, TaskSoloStart
<1>2. CASE TaskSoloEnter(n) \/ TaskGate(n)
  BY <1>2 DEF TaskSoloEnter, TaskGate
<1>3. CASE TaskPoll(n) \/ TaskAnswer(n) \/ TaskReceipt(n)
  BY <1>3 DEF TaskPoll, TaskAnswer, TaskReceipt
<1>4. CASE TaskFinish(n) \/ TaskCommit(n) \/ TaskCleanup(n)
  BY <1>4 DEF TaskFinish, TaskCommit, TaskCleanup
<1>5. CASE TaskDrop(n) \/ TaskFail(n)
  BY <1>5 DEF TaskDrop, TaskFail
<1>. QED  BY <1>1, <1>2, <1>3, <1>4, <1>5 DEF TaskStep

\* prepare_ready_wave: A are the nodes it starts, W the batch it spawns for, r
\* what came of each admission.
Admits(W, A, r) ==
    /\ W \in Batches /\ W \subseteq snap.ready /\ W \subseteq Nodes
    /\ A = {n \in W : r[n] = "ok" /\ status[n] = "Ready"}
    /\ status' = [n \in Nodes |-> IF n \in A THEN "Running" ELSE status[n]]
    /\ effect' = [n \in Nodes |->
          IF n \in A /\ EffectState(n) = "fresh" /\ Keying[n] = "node" THEN "intent" ELSE effect[n]]
    /\ active' = [n \in Nodes |-> IF n \in A THEN EffectState(n) ELSE active[n]]
    /\ \A n \in A : task'[n] = "start"
    /\ \A n \in W \ A :
          \/ task'[n] = "superseded" /\ status[n] # "Ready" /\ outcome'[n] = outcome[n]
          \/ task'[n] = "deferred" /\ outcome'[n] = outcome[n]
          \/ task'[n] = "fail" /\ outcome'[n] = r[n] /\ r[n] \in Failures
    /\ \A n \in Nodes \ W : task'[n] = task[n] /\ outcome'[n] = outcome[n]
    /\ \A n \in W : r[n] \in StartResults(n) \cup
          (IF \E m \in W \cap Conflicts[n] : r[m] = "ok" THEN {"deferred"} ELSE {})
    /\ \A n, m \in W : n # m /\ r[n] = "ok" /\ r[m] = "ok" => m \notin Conflicts[n]

LEMMA AdmitEffects ==
    ASSUME IInv, PumpAdmit
    PROVE  \E W, A, r : Admits(W, A, r)
<1>. USE DEF IInv, TypeOK
<1>1. PICK W \in Batches : \E r \in [W -> {"ok", "deferred"} \cup Failures] :
         /\ \A n \in W : r[n] \in StartResults(n) \cup
                (IF \E m \in W \cap Conflicts[n] : r[m] = "ok" THEN {"deferred"} ELSE {})
         /\ AdmissionExclusive(r)
         /\ Admission(W, r)
  BY DEF PumpAdmit
<1>2. PICK r \in [W -> {"ok", "deferred"} \cup Failures] :
         /\ \A n \in W : r[n] \in StartResults(n) \cup
                (IF \E m \in W \cap Conflicts[n] : r[m] = "ok" THEN {"deferred"} ELSE {})
         /\ AdmissionExclusive(r)
         /\ Admission(W, r)
  BY <1>1
<1>. DEFINE A == {n \in W : r[n] = "ok" /\ status[n] = "Ready"}
<1>3. W \subseteq snap.ready /\ W \subseteq Nodes /\ A \in SUBSET W
  BY DEF Batches, DriverTypeOK
<1>4. status' = [n \in Nodes |-> IF n \in A THEN "Running" ELSE status[n]]
  <2>1. CASE A = {}
    <3>1. status' = status
      BY <1>2, <2>1 DEF Admission, NoCommit
    <3>. HIDE DEF A
    <3>. QED  BY <2>1, <3>1 DEF DurableTypeOK
  <2>2. CASE A # {}
    BY <1>2, <2>2 DEF Admission, Commit
  <2>. QED  BY <2>1, <2>2
<1>5. effect' = [n \in Nodes |->
        IF n \in A /\ EffectState(n) = "fresh" /\ Keying[n] = "node" THEN "intent" ELSE effect[n]]
  BY <1>2 DEF Admission, RecordIntents
<1>6. active' = [n \in Nodes |-> IF n \in A THEN EffectState(n) ELSE active[n]]
  BY <1>2 DEF Admission
<1>7. /\ \A n \in A : task'[n] = "start"
      /\ \A n \in W \ A :
            \/ task'[n] = "superseded" /\ status[n] # "Ready" /\ r[n] = "ok"
            \/ task'[n] = "deferred" /\ r[n] = "deferred"
            \/ task'[n] = "fail" /\ r[n] \in Failures
      /\ \A n \in Nodes \ W : task'[n] = task[n]
  <2>. DEFINE To(n) == CASE n \in A -> "start"
                         [] n \in {m \in W : r[m] = "ok" /\ status[m] # "Ready"} -> "superseded"
                         [] n \in W /\ r[n] = "deferred" -> "deferred"
                         [] n \in W /\ r[n] \in Failures -> "fail"
                         [] OTHER -> task[n]
  <2>1. task' = [n \in Nodes |-> To(n)]
    BY <1>2 DEF Admission
  <2>2. \A n \in A : To(n) = "start"
    BY DEF Failures
  <2>3. \A n \in W \ A : \/ To(n) = "superseded" /\ status[n] # "Ready" /\ r[n] = "ok"
                         \/ To(n) = "deferred" /\ r[n] = "deferred"
                         \/ To(n) = "fail" /\ r[n] \in Failures
    BY DEF Failures
  <2>4. \A n \in Nodes \ W : To(n) = task[n]
    OBVIOUS
  <2>. HIDE DEF To, A
  <2>. QED  BY <1>3, <2>1, <2>2, <2>3, <2>4
<1>8. outcome' = [n \in Nodes |-> IF n \in W /\ r[n] \in Failures THEN r[n] ELSE outcome[n]]
  BY <1>2 DEF Admission
<1>9. \A n \in W \ A :
            \/ task'[n] = "superseded" /\ status[n] # "Ready" /\ outcome'[n] = outcome[n]
            \/ task'[n] = "deferred" /\ outcome'[n] = outcome[n]
            \/ task'[n] = "fail" /\ outcome'[n] = r[n] /\ r[n] \in Failures
  BY <1>3, <1>7, <1>8 DEF Failures
<1>10. \A n \in Nodes \ W : outcome'[n] = outcome[n]
  BY <1>8
<1>. HIDE DEF A
<1>11. A = {n \in W : r[n] = "ok" /\ status[n] = "Ready"}
  BY DEF A
<1>12. \A n, m \in W : n # m /\ r[n] = "ok" /\ r[m] = "ok" => m \notin Conflicts[n]
  BY <1>2 DEF AdmissionExclusive
<1>13. Admits(W, A, r)
  BY <1>2, <1>3, <1>4, <1>5, <1>6, <1>7, <1>9, <1>10, <1>11, <1>12 DEF Admits
<1>. QED  BY <1>13

\* commit_terminal_wave: W are the tasks it gathers, E the nodes it ends, H
\* those whose hook fails.
Ends(W, E, H) ==
    /\ W \subseteq Nodes /\ (\A n \in W : task[n] = "batch") /\ E \subseteq W /\ H \subseteq W \ E
    /\ E = {n \in W : status[n] = "Running"}
    /\ "hook" \notin Faults => H = {}
    /\ status' = [n \in Nodes |-> IF n \in E THEN outcome[n] ELSE status[n]]
    /\ effect' = [n \in Nodes |-> IF n \in E /\ active[n] = "fresh" /\ Keying[n] = "node"
                                    THEN outcome[n] ELSE effect[n]]
    /\ active' = [n \in Nodes |-> IF n \in W \ (E \cup H) THEN "no" ELSE active[n]]
    /\ task' = [n \in Nodes |-> IF n \in E THEN "committed" ELSE IF n \in H THEN "fatal"
                                  ELSE IF n \in W THEN "done" ELSE task[n]]

LEMMA WaveEffects ==
    ASSUME IInv, CommitTerminalWave
    PROVE  \E W, E, H : Ends(W, E, H)
<1>. USE DEF IInv, TypeOK
<1>. DEFINE Ended(W) == {n \in W : status[n] = "Running"}
            Wave(W, H) ==
                /\ "hook" \notin Faults => H = {}
                /\ IF Ended(W) = {} THEN NoCommit
                   ELSE Commit([n \in Nodes |-> IF n \in Ended(W) THEN outcome[n] ELSE status[n]])
                /\ RecordReceipts({n \in Ended(W) : active[n] = "fresh"})
                /\ active' = [n \in Nodes |->
                      IF n \in W \ (Ended(W) \cup H) THEN "no" ELSE active[n]]
                /\ task' = [n \in Nodes |-> CASE n \in Ended(W) -> "committed"
                                              [] n \in H -> "fatal"
                                              [] n \in W \ (Ended(W) \cup H) -> "done"
                                              [] OTHER -> task[n]]
<1>0. PICK W \in SUBSET {n \in Nodes : task[n] = "batch"} : \E H \in SUBSET (W \ Ended(W)) : Wave(W, H)
  BY DEF CommitTerminalWave
<1>1. PICK H \in SUBSET (W \ Ended(W)) : Wave(W, H)
  BY <1>0
<1>. DEFINE E == Ended(W)
<1>2. E \in SUBSET W /\ W \subseteq Nodes /\ E = {n \in W : status[n] = "Running"}
  OBVIOUS
<1>3. status' = [n \in Nodes |-> IF n \in E THEN outcome[n] ELSE status[n]]
  <2>1. CASE E = {}
    <3>1. status' = status
      BY <1>1, <2>1 DEF NoCommit
    <3>. HIDE DEF E
    <3>. QED  BY <2>1, <3>1 DEF DurableTypeOK
  <2>2. CASE E # {}
    BY <1>1, <2>2 DEF Commit
  <2>. QED  BY <2>1, <2>2
<1>4. effect' = [n \in Nodes |-> IF n \in E /\ active[n] = "fresh" /\ Keying[n] = "node"
                                   THEN outcome[n] ELSE effect[n]]
  BY <1>1 DEF RecordReceipts
<1>5. active' = [n \in Nodes |-> IF n \in W \ (E \cup H) THEN "no" ELSE active[n]]
  BY <1>1
<1>6. task' = [n \in Nodes |-> IF n \in E THEN "committed" ELSE IF n \in H THEN "fatal"
                                 ELSE IF n \in W THEN "done" ELSE task[n]]
  BY <1>1
<1>7. "hook" \notin Faults => H = {}
  BY <1>1
<1>. HIDE DEF E
<1>8. H \in SUBSET (W \ E)
  BY DEF E
<1>9. Ends(W, E, H)
  BY <1>2, <1>3, <1>4, <1>5, <1>6, <1>7, <1>8 DEF Ends
<1>. QED  BY <1>9

-----------------------------------------------------------------------------
(***************************************************************************)
(* Custody, step by step                                                   *)
(***************************************************************************)

\* A newly registered graph owns nothing.
LEMMA InitOInv == Init => OInv
<1>. SUFFICES ASSUME Init PROVE OInv
  OBVIOUS
<1>1. IInv
  BY InitInv
<1>2. Together
  BY DEF Init, Together, NoTasks, NoCommand
<1>3. Custody
  BY DEF Init, Custody, Entry, Receipt, Working, Ending
<1>. QED  BY <1>1, <1>2, <1>3 DEF OInv

LEMMA FrameCustody ==
    ASSUME Custody, Frame
    PROVE  Custody'
BY DEF Custody, Frame, Entry, Receipt

\* A task that ends without a report leaves its node as it is.
LEMMA NoTaskCustody ==
    ASSUME OInv, UNCHANGED <<status, effect>>,
           \A n \in Nodes : \/ task'[n] \in {"none", "superseded"}
                            \/ task'[n] = task[n] /\ outcome'[n] = outcome[n] /\ active'[n] = active[n]
    PROVE  Custody'
BY DEF OInv, Custody, Entry, Receipt, Working, Ending

\* The steps of a task keep custody of its own node.
LEMMA TaskCustody ==
    ASSUME OInv, NEW n \in Nodes, TaskStep(n)
    PROVE  Custody'
<1>0. IInv /\ Entry(n) /\ Receipt(n) /\ status \in [Nodes -> Statuses] /\ TaskTypeOK /\ DurableTypeOK
  BY DEF OInv, Custody, IInv, TypeOK, DurableTypeOK
<1>1. Entry(n)' /\ Receipt(n)'
  <2>. USE <1>0 DEF Goto, Report, DropEntry, Commit, NoCommit, durable, driver,
       DurableTypeOK, TaskTypeOK, Entry, Receipt, Working, Ending
  <2>1. CASE TaskStart(n)
    BY <2>1 DEF TaskStart, WaveEntries
  <2>2. CASE TaskSuperseded(n)
    BY <2>2 DEF TaskSuperseded
  <2>3. CASE TaskSoloStart(n)
    BY <2>3 DEF TaskSoloStart
  <2>4. CASE TaskSoloEnter(n)
    BY <2>4, EffectStates DEF TaskSoloEnter, RecordIntents
  <2>5. CASE TaskGate(n)
    BY <2>5 DEF TaskGate, WaveEntries
  <2>6. CASE TaskPoll(n)
    BY <2>6 DEF TaskPoll
  <2>7. CASE TaskAnswer(n)
    BY <2>7 DEF TaskAnswer
  <2>8. CASE TaskReceipt(n)
    BY <2>8 DEF TaskReceipt, RecordReceipts
  <2>9. CASE TaskFinish(n)
    BY <2>9 DEF TaskFinish, Batchable, WaveEntries
  <2>10. CASE TaskCommit(n)
    BY <2>10 DEF TaskCommit
  <2>11. CASE TaskCleanup(n)
    BY <2>11 DEF TaskCleanup
  <2>12. CASE TaskDrop(n)
    BY <2>12 DEF TaskDrop
  <2>13. CASE TaskFail(n)
    BY <2>13 DEF TaskFail, FailureStatus
  <2>. QED  BY <2>1, <2>2, <2>3, <2>4, <2>5, <2>6, <2>7, <2>8, <2>9, <2>10, <2>11, <2>12, <2>13
            DEF TaskStep
<1>2. ASSUME NEW m \in Nodes \ {n} PROVE Entry(m)' /\ Receipt(m)'
  BY <1>0, TaskLocal DEF OInv, Custody, Entry, Receipt
<1>. QED  BY <1>1, <1>2 DEF Custody

\* A wave starts nodes that had no task, and with the entry it inspected.
LEMMA AdmitCustody ==
    ASSUME OInv, PumpAdmit
    PROVE  Custody'
<1>0. IInv /\ pump = "admit" /\ \A n \in snap.ready : task[n] = "none"
  BY DEF OInv, Together, PumpAdmit
<1>2. PICK W, A, r : Admits(W, A, r)
  BY <1>0, AdmitEffects
<1>3. \A n \in Nodes : EffectState(n) \in WaveEntries
  BY EffectStates
<1>4. ASSUME NEW n \in Nodes PROVE Entry(n)' /\ Receipt(n)'
  <2>1. CASE n \in A
    BY <1>2, <1>3, <2>1 DEF Admits, Entry, Receipt, Working, Ending
  <2>2. CASE n \in W \ A
    BY <1>2, <2>2 DEF Admits, OInv, Custody, Entry, Receipt, Working, Ending
  <2>3. CASE n \notin W
    BY <1>2, <2>3 DEF Admits, OInv, Custody, Entry, Receipt
  <2>. QED  BY <2>1, <2>2, <2>3
<1>. QED  BY <1>4 DEF Custody

\* A terminal wave writes the receipts that its statuses need.
LEMMA WaveCustody ==
    ASSUME OInv, CommitTerminalWave
    PROVE  Custody'
<1>0. IInv /\ UNCHANGED outcome
  BY DEF OInv, CommitTerminalWave
<1>3. PICK W, E, H : Ends(W, E, H)
  BY <1>0, WaveEffects
<1>4. ASSUME NEW n \in Nodes PROVE Entry(n)' /\ Receipt(n)'
  <2>1. CASE n \in E
    <3>1. /\ status[n] = "Running" /\ task[n] = "batch" /\ task'[n] = "committed"
          /\ status'[n] = outcome[n] /\ outcome[n] \in LegalOutcomes
          /\ effect'[n] = IF active[n] = "fresh" /\ Keying[n] = "node" THEN outcome[n] ELSE effect[n]
      BY <1>3, <2>1 DEF Ends, OInv, IInv, Reports
    <3>. QED  BY <3>1 DEF OInv, Custody, Entry, Receipt, Working, Ending, LegalOutcomes, Terminal, Waiting
  <2>2. CASE n \in W \ E
    BY <1>3, <2>2 DEF Ends, OInv, Custody, Entry, Receipt, Working, Ending
  <2>3. CASE n \notin W
    BY <1>0, <1>3, <2>3 DEF Ends, OInv, Custody, Entry, Receipt
  <2>. QED  BY <2>1, <2>2, <2>3
<1>. QED  BY <1>4 DEF Custody

\* The end of a command wakes tasks, and takes an entry only from a node that it
\* takes out of Running or that was not running.
LEMMA WokenCustody ==
    ASSUME OInv, UNCHANGED <<effect, outcome>>, task' = [n \in Nodes |-> WokenTask(task[n])],
           \A n \in Nodes : \/ status'[n] = status[n] /\ (active'[n] = active[n] \/ status[n] # "Running")
                            \/ status'[n] \in {"Paused", "Cancelled"}
    PROVE  Custody'
<1>1. ASSUME NEW n \in Nodes
      PROVE  /\ task'[n] \in Working => task[n] \in Working
             /\ task'[n] = "solo" => task[n] = "solo"
             /\ task'[n] \in {"start", "gate", "gating", "gated"}
                  => task[n] \in {"start", "gate", "gating", "gated"}
             /\ task'[n] \in {"poll", "executing", "receipt"} => task[n] \in {"poll", "executing", "receipt"}
             /\ task'[n] \in {"solo_enter", "solo_poll", "solo_executing", "solo_receipt"}
                  => task[n] \in {"solo_enter", "solo_poll", "solo_executing", "solo_receipt"}
             /\ task'[n] \in Ending => task[n] \in Ending
             /\ task'[n] = "batch" => task[n] = "batch"
             /\ task'[n] = "commit" => task[n] = "commit"
  BY DEF WokenTask, Working, Ending
<1>2. ASSUME NEW n \in Nodes PROVE Entry(n)' /\ Receipt(n)'
  BY <1>1 DEF OInv, Custody, Entry, Receipt
<1>. QED  BY <1>2 DEF Custody

\* What the second critical section of a command does to a node.
LEMMA AppliedStatuses ==
    ASSUME OInv, cmd.stage = "cancelling", NEW n \in Nodes,
           status'[n] = CommandStatus(n),
           active'[n] = IF n \in cmd.targets THEN "no" ELSE active[n]
    PROVE  \/ status'[n] = status[n] /\ (active'[n] = active[n] \/ status[n] # "Running")
           \/ status'[n] \in {"Paused", "Cancelled"}
<1>1. cmd.kind \in {"Pause", "Cancel", "CancelNode"}
  BY DEF OInv, IInv, TypeOK, CommandTypeOK, Together, NoCommand
<1>2. cmd.kind = "CancelNode" => cmd.targets \subseteq {victim}
  BY DEF OInv, Together
<1>. QED  BY <1>1, <1>2 DEF CommandStatus, IsTerminal, Terminal

\* Commands keep custody.
LEMMA CommandCustody ==
    ASSUME OInv, CommandStep
    PROVE  Custody'
<1>0. UNCHANGED effect
  BY DEF CommandStep, CommandEnter, CommandApply, durable
<1>a. ASSUME NEW v, EndDriver(v), NEW s, status' = s,
             \A n \in Nodes : \/ status'[n] = status[n] \/ status'[n] \in {"Paused", "Cancelled"}
      PROVE  Custody'
  BY <1>0, <1>a DEF EndDriver, OInv, Custody, Entry, Receipt, Working, Ending
<1>1. CASE CommandEnter
  <2>1. UNCHANGED <<status, active>>
    BY <1>1 DEF CommandEnter, durable
  <2>2. CASE EndCommand(FALSE)
    <3>1. CASE EndDriver("failed")
      BY <1>a, <2>1, <3>1
    <3>2. CASE task' = [n \in Nodes |-> WokenTask(task[n])] /\ UNCHANGED outcome
      BY <1>0, <2>1, <3>2, WokenCustody
    <3>. QED  BY <2>2, <3>1, <3>2 DEF EndCommand
  <2>3. CASE UNCHANGED <<driver, task, outcome, coord>>
    <3>1. Frame
      BY <1>1, <2>3 DEF CommandEnter, durable, Frame
    <3>. QED  BY <3>1, FrameCustody DEF OInv
  <2>. QED  BY <1>1, <2>2, <2>3 DEF CommandEnter
<1>2. CASE CommandApply
  <2>1. CASE EndCommand(FALSE) /\ NoCommit /\ UNCHANGED active
    <3>1. CASE EndDriver("failed")
      BY <1>a, <2>1, <3>1 DEF NoCommit
    <3>2. CASE task' = [n \in Nodes |-> WokenTask(task[n])] /\ UNCHANGED outcome
      BY <1>0, <2>1, <3>2, WokenCustody DEF NoCommit
    <3>. QED  BY <2>1, <3>1, <3>2 DEF EndCommand
  <2>2. CASE /\ Commit([n \in Nodes |-> CommandStatus(n)])
             /\ active' = [n \in Nodes |-> IF n \in cmd.targets THEN "no" ELSE active[n]]
             /\ EndCommand(TRUE)
    <3>1. \A n \in Nodes : status'[n] = CommandStatus(n)
      BY <2>2, Zenon DEF Commit
    <3>2. \A n \in Nodes : active'[n] = IF n \in cmd.targets THEN "no" ELSE active[n]
      BY <2>2
    <3>3. cmd.stage = "cancelling"
      BY <1>2 DEF CommandApply
    <3>4. \A n \in Nodes : \/ status'[n] = status[n] /\ (active'[n] = active[n] \/ status[n] # "Running")
                           \/ status'[n] \in {"Paused", "Cancelled"}
      BY <3>1, <3>2, <3>3, AppliedStatuses
    <3>5. task' = [n \in Nodes |-> WokenTask(task[n])] /\ UNCHANGED outcome
      BY <2>2 DEF EndCommand
    <3>. QED  BY <1>0, <3>4, <3>5, WokenCustody
  <2>. QED  BY <1>2, <2>1, <2>2 DEF CommandApply
<1>. QED  BY <1>1, <1>2 DEF CommandStep

\* The steps that change nothing but statuses.
LEMMA StatusCustody ==
    ASSUME OInv, UNCHANGED <<effect, task, outcome, active>>,
           \/ \E n \in Nodes : AdvanceNode(n)
           \/ \E k \in Commands : UserCommand(k)
           \/ Recover
    PROVE  Custody'
<1>0. status \in [Nodes -> Statuses]
  BY DEF OInv, IInv, TypeOK, DurableTypeOK
<1>1. CASE \E n \in Nodes : AdvanceNode(n)
  <2>1. PICK n \in Nodes : AdvanceNode(n)
    BY <1>1
  <2>2. status[n] = "Planned" /\ \E to \in {"Ready", "Blocked"} : status' = [status EXCEPT ![n] = to]
    BY <2>1 DEF AdvanceNode, Commit, DependencyTarget
  <2>. QED  BY <1>0, <2>2 DEF OInv, Custody, Entry, Receipt
<1>2. CASE \E k \in Commands : UserCommand(k)
  <2>1. PICK k \in Commands : UserCommand(k)
    BY <1>2
  <2>2. CASE status' = [n \in Nodes |-> IF status[n] = "Paused" THEN "Ready" ELSE status[n]]
    BY <2>2 DEF OInv, Custody, Entry, Receipt
  <2>3. CASE \E n \in Nodes : \E to \in {"Ready", "Cancelled"} :
               status[n] = "WaitingApproval" /\ status' = [status EXCEPT ![n] = to]
    BY <1>0, <2>3 DEF OInv, Custody, Entry, Receipt
  <2>4. CASE \E n \in Nodes : status[n] = "WaitingExternal" /\ status' = [status EXCEPT ![n] = "Completed"]
    BY <1>0, <2>4 DEF OInv, Custody, Entry, Receipt
  <2>. QED  BY <2>1, <2>2, <2>3, <2>4 DEF UserCommand, Commit
<1>3. CASE Recover
  <2>. DEFINE running == {n \in Nodes : status[n] = "Running"}
  <2>1. PICK lost \in SUBSET running :
           \/ status' = status
           \/ status' = [n \in Nodes |-> IF n \in lost THEN "Blocked"
                                         ELSE IF n \in running THEN "Ready" ELSE status[n]]
    BY <1>3 DEF Recover, Commit, NoCommit
  <2>2. \A n \in Nodes : task[n] = "none"
    BY <1>3 DEF Recover, OInv, Together, NoTasks
  <2>. QED  BY <2>1, <2>2 DEF OInv, Custody, Entry, Receipt, Working, Ending
<1>. QED  BY <1>1, <1>2, <1>3

\* Every step keeps custody.
LEMMA StepCustody == OInv /\ [Next]_vars => Custody'
<1>. SUFFICES ASSUME OInv, [Next]_vars PROVE Custody'
  OBVIOUS
<1>0. IInv /\ IInv' /\ Custody
  BY StepInv DEF OInv
<1>1. CASE PumpStep
  <2>1. CASE \/ Dispatch \/ PumpBeginAdvance \/ PumpEndAdvance \/ PumpLoadVictim \/ PumpInstall
             \/ PumpWave \/ PumpNotified
    <3>1. Frame
      BY <2>1 DEF Dispatch, PumpBeginAdvance, PumpEndAdvance, PumpLoadVictim, PumpInstall, PumpWave,
         PumpNotified, Frame, durable
    <3>. QED  BY <1>0, <3>1, FrameCustody
  <2>2. CASE PumpInstallRefused \/ PumpSettle \/ PumpJoinFatal
    <3>1. UNCHANGED <<status, effect, active>> /\ \A n \in Nodes : task'[n] = "none"
      BY <2>2 DEF PumpInstallRefused, PumpSettle, PumpJoinFatal, EndDriver, durable
    <3>. QED  BY <3>1, NoTaskCustody
  <2>3. CASE PumpWaveSuperseded \/ PumpJoin
    <3>1. UNCHANGED <<status, effect, active>>
      BY <2>3 DEF PumpWaveSuperseded, PumpJoin, durable
    <3>2. \A n \in Nodes : task'[n] \in {"none", "superseded"} \/ (task'[n] = task[n] /\ outcome'[n] = outcome[n])
      BY <2>3 DEF PumpWaveSuperseded, PumpJoin
    <3>. QED  BY <3>1, <3>2, NoTaskCustody
  <2>. QED  BY <1>1, <2>1, <2>2, <2>3, AdmitCustody DEF PumpStep
<1>2. CASE SharedStep
  <2>1. CASE \E n \in Nodes : AdvanceNode(n)
    BY <2>1, StatusCustody DEF AdvanceNode
  <2>2. CASE BeginConverge \/ EndConverge
    <3>1. /\ UNCHANGED <<status, effect, active, outcome>>
          /\ \A n \in Nodes : task'[n] \in {"converging", "done", "cleanup", task[n]}
      BY <2>2 DEF BeginConverge, EndConverge, durable
    <3>. QED  BY <1>0, <3>1 DEF Custody, Entry, Receipt, Working, Ending
  <2>. QED  BY <1>2, <2>1, <2>2, WaveCustody DEF SharedStep
<1>3. CASE CommandStep
  BY <1>3, CommandCustody
<1>4. CASE \E n \in Nodes : TaskStep(n)
  BY <1>4, TaskCustody
<1>5. CASE \E k \in Commands : UserInstall(k) \/ UserCommand(k)
  <2>1. CASE \E k \in Commands : UserInstall(k)
    <3>1. Frame
      BY <2>1 DEF UserInstall, Frame, durable
    <3>. QED  BY <1>0, <3>1, FrameCustody
  <2>2. CASE \E k \in Commands : UserCommand(k)
    BY <2>2, StatusCustody DEF UserCommand
  <2>. QED  BY <1>5, <2>1, <2>2
<1>6. CASE Crash
  <2>1. UNCHANGED <<status, effect>> /\ \A n \in Nodes : task'[n] = "none"
    BY <1>6 DEF Crash, EndDriver, durable
  <2>. QED  BY <2>1, NoTaskCustody
<1>7. CASE Recover
  BY <1>7, StatusCustody DEF Recover
<1>8. CASE UNCHANGED vars
  <2>1. Frame
    BY <1>8 DEF vars, Frame
  <2>. QED  BY <1>0, <2>1, FrameCustody
<1>. QED  BY <1>1, <1>2, <1>3, <1>4, <1>5, <1>6, <1>7, <1>8 DEF Next

-----------------------------------------------------------------------------
(***************************************************************************)
(* The driver, its command and its tasks                                   *)
(***************************************************************************)

\* Steps of tasks: no task appears, neither pump nor command changes.
LEMMA TasksKeepTogether ==
    ASSUME OInv, UNCHANGED <<alive, pump, snap, victim, cmd>>,
           \A n \in Nodes : task[n] = "none" => task'[n] = "none"
    PROVE  Together'
<1>1. snap \in [ready : SUBSET Nodes, waiting : BOOLEAN]
  BY DEF OInv, IInv, TypeOK, DriverTypeOK
<1>. QED  BY <1>1 DEF OInv, Together, NoTasks

\* The end of a driver.
LEMMA EndKeepsTogether ==
    ASSUME OInv, NEW v, EndDriver(v), ~alive' => cmd' = NoCommand,
           cmd' = NoCommand \/ (UNCHANGED cmd /\ cmd.by # "pump")
    PROVE  Together'
BY DEF OInv, Together, EndDriver, NoTasks, NoCommand

\* The pump's own steps.
LEMMA PumpTogether ==
    ASSUME OInv, PumpStep
    PROVE  Together'
<1>0. cmd \in [stage : {"none", "installed", "cancelling"}, by : {"none", "user", "pump"},
                kind : {"none", "Pause", "Cancel", "CancelNode"}, targets : SUBSET Nodes]
      /\ NoNode \notin Nodes
  BY ConstantsAssumption DEF OInv, IInv, TypeOK, CommandTypeOK
<1>1. CASE Dispatch \/ PumpBeginAdvance \/ PumpWave \/ PumpNotified
  BY <1>1 DEF Dispatch, PumpBeginAdvance, PumpWave, PumpNotified, OInv, Together, NoTasks
<1>2. CASE PumpEndAdvance
  <2>1. UNCHANGED <<alive, victim, task, cmd>> /\ pump \in {"advance", "readvance"}
    BY <1>2 DEF PumpEndAdvance
  <2>2. \/ pump' = "tail"
        \/ pump' = "wave" /\ \A n \in snap'.ready : task[n] = "none"
    BY <1>2 DEF PumpEndAdvance
  <2>. QED  BY <2>1, <2>2 DEF OInv, Together, NoTasks
<1>3. CASE PumpLoadVictim
  <2>1. /\ UNCHANGED <<alive, snap, task, cmd>> /\ pump = "tail" /\ tail \subseteq Nodes
        /\ pump' = "resnapshot" \/ (pump' = "loaded" /\ victim' \in Nodes) \/ pump' = "tail"
    BY <1>3 DEF PumpLoadVictim, OInv, IInv, TypeOK, DriverTypeOK
  <2>. QED  BY <2>1 DEF OInv, Together, NoTasks
<1>4. CASE PumpInstall
  <2>1. /\ cmd' = [stage |-> "installed", kind |-> "CancelNode", by |-> "pump", targets |-> {}]
        /\ UNCHANGED <<alive, snap, victim, task>> /\ pump = "loaded" /\ pump' = "cancel"
    BY <1>4 DEF PumpInstall
  <2>. QED  BY <2>1 DEF OInv, Together, NoTasks, NoCommand
<1>5. CASE PumpInstallRefused \/ PumpSettle \/ PumpJoinFatal
  <2>1. /\ \E v : EndDriver(v)
        /\ UNCHANGED <<cmd, alive>> /\ pump \in {"loaded", "select"}
    BY <1>5 DEF PumpInstallRefused, PumpSettle, PumpJoinFatal
  <2>2. cmd.by # "pump" /\ alive
    BY <2>1 DEF OInv, Together
  <2>. QED  BY <2>1, <2>2, EndKeepsTogether
<1>6. CASE PumpWaveSuperseded \/ PumpAdmit \/ PumpJoin
  <2>1. UNCHANGED <<alive, snap, victim, cmd>> /\ pump \in {"wave_over", "admit", "select"}
        /\ pump' \in {"select", "snapshot"}
    BY <1>6 DEF PumpWaveSuperseded, PumpAdmit, PumpJoin
  <2>. QED  BY <2>1 DEF OInv, Together
<1>. QED  BY <1>1, <1>2, <1>3, <1>4, <1>5, <1>6 DEF PumpStep

\* The end of a command.
LEMMA EndCommandTogether ==
    ASSUME OInv, NEW applied \in BOOLEAN, EndCommand(applied), UNCHANGED alive, cmd.stage # "none"
    PROVE  Together'
<1>0. snap \in [ready : SUBSET Nodes, waiting : BOOLEAN]
  BY DEF OInv, IInv, TypeOK, DriverTypeOK
<1>1. CASE EndDriver("failed")
  BY <1>1, EndKeepsTogether DEF EndCommand
<1>2. CASE ~EndDriver("failed")
  <2>1. /\ cmd' = NoCommand /\ UNCHANGED snap
        /\ task' = [n \in Nodes |-> WokenTask(task[n])]
        /\ \/ cmd.by = "pump" /\ pump' = "tail"
           \/ cmd.by # "pump" /\ pump' = (IF pump = "wave_wait" THEN "wave_over" ELSE pump) /\ UNCHANGED victim
    BY <1>2 DEF EndCommand
  <2>2. \A n \in Nodes : task[n] = "none" => task'[n] = "none"
    BY <2>1 DEF WokenTask
  <2>3. alive
    BY DEF OInv, Together, NoCommand
  <2>. QED  BY <1>0, <2>1, <2>2, <2>3 DEF OInv, Together, NoTasks, NoCommand
<1>. QED  BY <1>1, <1>2

\* The commands' steps.
LEMMA CommandTogether ==
    ASSUME OInv, CommandStep
    PROVE  Together'
<1>1. UNCHANGED alive /\ cmd.stage # "none"
  BY DEF CommandStep, CommandEnter, CommandApply
<1>2. CASE \E applied \in BOOLEAN : EndCommand(applied)
  BY <1>1, <1>2, EndCommandTogether
<1>3. CASE /\ CommandEnter /\ cmd' = [cmd EXCEPT !.stage = "cancelling", !.targets = Targets]
           /\ UNCHANGED <<driver, task, outcome, coord>>
  <2>1. /\ UNCHANGED <<alive, pump, snap, victim, task>>
        /\ cmd'.stage = "cancelling" /\ cmd'.targets = Targets /\ cmd'.by = cmd.by /\ cmd'.kind = cmd.kind
    BY <1>3 DEF driver, CommandEnter, OInv, IInv, TypeOK, CommandTypeOK
  <2>2. cmd.kind = "CancelNode" => Targets \subseteq {victim}
    BY DEF Targets
  <2>3. alive /\ cmd.by # "none"
    BY <1>1 DEF OInv, Together, NoCommand
  <2>. QED  BY <2>1, <2>2, <2>3 DEF OInv, Together, NoTasks
<1>. QED  BY <1>2, <1>3 DEF CommandStep, CommandEnter, CommandApply

\* Every step keeps driver, command and tasks together.
LEMMA StepTogether == OInv /\ [Next]_vars => Together'
<1>. SUFFICES ASSUME OInv, [Next]_vars PROVE Together'
  OBVIOUS
<1>1. CASE SharedStep
  <2>1. UNCHANGED <<alive, pump, snap, victim, cmd>>
    BY <1>1 DEF SharedStep, AdvanceNode, CommitTerminalWave, BeginConverge, EndConverge, driver
  <2>2. \A n \in Nodes : task[n] = "none" => task'[n] = "none"
    <3>1. CASE CommitTerminalWave
      BY <3>1, WaveEffects DEF Ends, OInv
    <3>2. CASE ~CommitTerminalWave
      BY <1>1, <3>2 DEF SharedStep, AdvanceNode, BeginConverge, EndConverge
    <3>. QED  BY <3>1, <3>2
  <2>. QED  BY <2>1, <2>2, TasksKeepTogether
<1>2. CASE \E n \in Nodes : TaskStep(n)
  <2>1. PICK n \in Nodes : TaskStep(n)
    BY <1>2
  <2>2. task[n] # "none"
    BY <2>1 DEF TaskStep, TaskStart, TaskSuperseded, TaskSoloStart, TaskSoloEnter, TaskGate, TaskPoll,
       TaskAnswer, TaskReceipt, TaskFinish, TaskCommit, TaskCleanup, TaskDrop, TaskFail
  <2>3. /\ UNCHANGED <<alive, pump, snap, victim, cmd>>
        /\ \A m \in Nodes \ {n} : task'[m] = task[m]
    BY <2>1, TaskLocal DEF OInv
  <2>. QED  BY <2>2, <2>3, TasksKeepTogether
<1>3. CASE \E k \in Commands : UserInstall(k)
  <2>1. PICK k \in {"Pause", "Cancel"} :
          cmd' = [stage |-> "installed", kind |-> k, by |-> "user", targets |-> {}]
    BY <1>3 DEF UserInstall
  <2>2. /\ UNCHANGED <<alive, pump, snap, victim, task>> /\ alive /\ cmd.stage = "none"
    BY <1>3 DEF UserInstall, driver, Intent
  <2>3. cmd.by = "none"
    BY <2>2 DEF OInv, IInv, TypeOK, CommandTypeOK, Together
  <2>. QED  BY <2>1, <2>2, <2>3 DEF OInv, Together, NoTasks
<1>4. CASE \E k \in Commands : UserCommand(k)
  <2>1. UNCHANGED <<alive, pump, snap, victim, cmd, task>>
    BY <1>4 DEF UserCommand, driver
  <2>. QED  BY <2>1, TasksKeepTogether
<1>5. CASE Crash
  <2>1. EndDriver("none") /\ cmd' = NoCommand
    BY <1>5 DEF Crash
  <2>. QED  BY <2>1, EndKeepsTogether
<1>6. CASE Recover
  <2>1. UNCHANGED <<pump, snap, victim, cmd, task>> /\ alive'
    BY <1>6 DEF Recover, driver
  <2>. QED  BY <2>1 DEF OInv, Together, NoTasks
<1>7. CASE UNCHANGED vars
  <2>1. UNCHANGED <<alive, pump, snap, victim, cmd, task>>
    BY <1>7 DEF vars
  <2>. QED  BY <2>1, TasksKeepTogether
<1>. QED  BY <1>1, <1>2, <1>3, <1>4, <1>5, <1>6, <1>7, PumpTogether, CommandTogether DEF Next

\* Custody holds in every state, for every graph, set of answers, faults,
\* commands and crashes.
THEOREM GraphCustody == Spec => []OInv
<1>1. OInv /\ [Next]_vars => OInv'
  BY StepInv, StepCustody, StepTogether DEF OInv
<1>. QED  BY <1>1, InitOInv, PTL DEF Spec

\* A node that completed left the receipt that a replay would confirm it by, in
\* every graph and whatever commands, faults and crashes come between the poll,
\* the receipt and the commit (commit_execution_effect, commit_terminal_wave).
THEOREM GraphReceiptConfirms == Spec => []ReceiptConfirms
<1>1. OInv => ReceiptConfirms
  BY DEF OInv, Custody, Receipt, ReceiptConfirms
<1>. QED  BY <1>1, GraphCustody, PTL

-----------------------------------------------------------------------------
(***************************************************************************)
(* Entries of conflicting nodes exclude each other                         *)
(***************************************************************************)

\* Whether two resource requests conflict does not depend on their order.
SymmetricConflicts == \A n \in Nodes : \A m \in Conflicts[n] : n \in Conflicts[m]

\* Of two conflicting nodes at most one holds an entry, and with it resources.
EntriesExclude == \A n \in Nodes : \A m \in Conflicts[n] : m # n => active[n] = "no" \/ active[m] = "no"

\* Only an admission, of a wave or of a node on its own, makes an entry.
LEMMA EntriesShrink ==
    ASSUME IInv, [Next]_vars, ~PumpAdmit, \A n \in Nodes : ~TaskSoloStart(n)
    PROVE  \A n \in Nodes : active'[n] \in {active[n], "no"}
<1>0. active \in [Nodes -> {"no", "solo"} \cup WaveEntries]
  BY DEF IInv, TypeOK, TaskTypeOK
<1>1. CASE PumpStep
  BY <1>1 DEF PumpStep, Dispatch, PumpBeginAdvance, PumpEndAdvance, PumpLoadVictim, PumpInstall,
     PumpInstallRefused, PumpWave, PumpWaveSuperseded, PumpSettle, PumpNotified, PumpJoin, PumpJoinFatal
<1>2. CASE SharedStep
  <2>1. CASE CommitTerminalWave
    BY <2>1, WaveEffects DEF Ends
  <2>2. CASE ~CommitTerminalWave
    BY <1>2, <2>2 DEF SharedStep, AdvanceNode, BeginConverge, EndConverge
  <2>. QED  BY <2>1, <2>2
<1>3. CASE CommandStep
  BY <1>3 DEF CommandStep, CommandEnter, CommandApply
<1>4. CASE \E n \in Nodes : TaskStep(n)
  <2>1. PICK n \in Nodes : TaskStep(n)
    BY <1>4
  <2>2. active' = active \/ DropEntry(n)
    <3>1. CASE TaskStart(n) \/ TaskSuperseded(n) \/ TaskSoloEnter(n) \/ TaskGate(n) \/ TaskPoll(n)
      BY <3>1 DEF TaskStart, TaskSuperseded, TaskSoloEnter, TaskGate, TaskPoll
    <3>2. CASE TaskAnswer(n) \/ TaskReceipt(n) \/ TaskFinish(n) \/ TaskCommit(n)
      BY <3>2 DEF TaskAnswer, TaskReceipt, TaskFinish, TaskCommit
    <3>3. CASE TaskCleanup(n) \/ TaskDrop(n) \/ TaskFail(n)
      BY <3>3 DEF TaskCleanup, TaskDrop, TaskFail
    <3>. QED  BY <2>1, <3>1, <3>2, <3>3 DEF TaskStep
  <2>. QED  BY <1>0, <2>2 DEF DropEntry
<1>5. CASE \E k \in Commands : UserInstall(k) \/ UserCommand(k)
  BY <1>5 DEF UserInstall, UserCommand
<1>6. CASE Crash \/ Recover \/ UNCHANGED vars
  BY <1>6 DEF Crash, Recover, vars
<1>. QED  BY <1>1, <1>2, <1>3, <1>4, <1>5, <1>6 DEF Next

LEMMA StepExcludes ==
    ASSUME SymmetricConflicts, IInv, EntriesExclude, [Next]_vars
    PROVE  EntriesExclude'
<1>0. active \in [Nodes -> {"no", "solo"} \cup WaveEntries] /\ Conflicts \in [Nodes -> SUBSET Nodes]
  BY ConstantsAssumption DEF IInv, TypeOK, TaskTypeOK
<1>1. CASE PumpAdmit
  <2>1. PICK W, A, r : Admits(W, A, r)
    BY <1>1, AdmitEffects
  <2>2. \A n \in A : n \in W /\ r[n] = "ok" /\ ~Deferred(n)
    <3>1. ASSUME NEW n \in A PROVE "ok" \in StartResults(n) => ~Deferred(n)
      BY DEF StartResults
    <3>. QED  BY <2>1, <3>1 DEF Admits
  <2>3. \A n \in Nodes : active'[n] # "no" => n \in A \/ active[n] # "no"
    BY <2>1 DEF Admits
  <2>4. ASSUME NEW n \in Nodes, NEW m \in Conflicts[n], m # n, active'[n] # "no", active'[m] # "no"
        PROVE  FALSE
    <3>1. m \in Nodes /\ n \in Conflicts[m]
      BY <1>0 DEF SymmetricConflicts
    <3>2. CASE n \in A /\ m \in A
      BY <2>1, <2>2, <2>4, <3>2 DEF Admits
    <3>3. CASE n \in A /\ m \notin A
      BY <2>2, <2>3, <2>4, <3>1, <3>3 DEF Deferred
    <3>4. CASE n \notin A /\ m \in A
      BY <2>2, <2>3, <2>4, <3>1, <3>4 DEF Deferred
    <3>5. CASE n \notin A /\ m \notin A
      BY <2>3, <2>4, <3>1, <3>5 DEF EntriesExclude
    <3>. QED  BY <3>2, <3>3, <3>4, <3>5
  <2>. QED  BY <2>4 DEF EntriesExclude
<1>2. CASE \E n \in Nodes : TaskSoloStart(n)
  <2>1. PICK n \in Nodes : TaskSoloStart(n)
    BY <1>2
  <2>2. active' = active \/ (~Deferred(n) /\ active' = [active EXCEPT ![n] = "solo"])
    BY <2>1 DEF TaskSoloStart
  <2>. QED  BY <1>0, <2>2 DEF EntriesExclude, SymmetricConflicts, Deferred
<1>3. CASE ~PumpAdmit /\ \A n \in Nodes : ~TaskSoloStart(n)
  BY <1>0, <1>3, EntriesShrink DEF EntriesExclude
<1>. QED  BY <1>1, <1>2, <1>3

\* Two nodes whose resources exclude each other are never both executed while
\* the graph shows both as running: every executor that is polled for a running
\* node has the node's entry, and acquire_all made the entries exclusive.  Only
\* an executor that a command has cancelled, and that has not yet returned, may
\* overlap with the next owner of its resources.
RunningExclusive ==
    \A n \in Nodes : \A m \in Conflicts[n] :
        m # n /\ Executing(n) /\ Executing(m) => status[n] # "Running" \/ status[m] # "Running"

\* This holds for every graph, answer, fault, command and crash.
THEOREM GraphRunningExclusive ==
    ASSUME SymmetricConflicts PROVE Spec => []RunningExclusive
<1>1. Init => EntriesExclude
  BY ConstantsAssumption DEF Init, EntriesExclude
<1>2. OInv /\ EntriesExclude /\ [Next]_vars => EntriesExclude'
  BY StepExcludes DEF OInv
<1>3. OInv /\ EntriesExclude => RunningExclusive
  BY ConstantsAssumption DEF OInv, Custody, Entry, EntriesExclude, RunningExclusive, Executing, WaveEntries
<1>. QED  BY <1>1, <1>2, <1>3, GraphCustody, PTL DEF Spec

-----------------------------------------------------------------------------
(***************************************************************************)
(* A graph that is left alone: users neither pause nor cancel it, and its  *)
(* policies have no quorum tail for the pump to cancel.  Answers, faults,  *)
(* deadlines, approvals, external results and crashes are as they may.     *)
(***************************************************************************)
NoTails     == \A n \in Nodes : Tail[n] \cap Preds[n] = {}
Undisturbed == NoTails /\ Commands \cap {"Pause", "Cancel"} = {}

Disturbed == {"superseding", "gating", "finishing", "dropping"}

\* No intent is ever published and nobody waits for one.
Calm ==
    /\ cmd = NoCommand /\ tail = {}
    /\ pump \notin {"loaded", "cancel", "wave_wait", "wave_over"}
    /\ \A n \in Nodes : task[n] \notin Disturbed

\* A task that works works for a running node.
Steady == \A n \in Nodes : task[n] \in Working => status[n] = "Running"

\* Without tails the pump never cancels anything.
LEMMA NoTailToCancel ==
    ASSUME NoTails PROVE QuorumTailCancellations = {}
BY DEF NoTails, QuorumTailCancellations

\* A task that is left alone goes its way without waiting, and its node runs
\* until the task's report is committed.
LEMMA CalmTask ==
    ASSUME OInv, Calm, Steady, NEW n \in Nodes, TaskStep(n)
    PROVE  task'[n] \notin Disturbed /\ (task'[n] \in Working => status'[n] = "Running")
<1>0. /\ ~Intent /\ Entry(n) /\ task \in [Nodes -> TaskPCs] /\ status \in [Nodes -> Statuses]
      /\ task[n] \in Working => status[n] = "Running"
  BY DEF OInv, IInv, TypeOK, TaskTypeOK, DurableTypeOK, Calm, Steady, Custody, Intent, NoCommand
<1>. USE <1>0 DEF Goto, Commit, NoCommit, durable, Disturbed, Working
<1>1. CASE TaskStart(n)
  BY <1>1 DEF TaskStart, Entry, WaveEntries
<1>2. CASE TaskSuperseded(n) \/ TaskCleanup(n)
  BY <1>2 DEF TaskSuperseded, TaskCleanup
<1>3. CASE TaskSoloStart(n)
  BY <1>3 DEF TaskSoloStart, Entry
<1>4. CASE TaskSoloEnter(n)
  BY <1>4 DEF TaskSoloEnter
<1>5. CASE TaskGate(n)
  BY <1>5 DEF TaskGate
<1>6. CASE TaskPoll(n) \/ TaskReceipt(n)
  BY <1>6 DEF TaskPoll, TaskReceipt
<1>7. CASE TaskAnswer(n)
  BY <1>7 DEF TaskAnswer
<1>8. CASE TaskFinish(n)
  BY <1>8 DEF TaskFinish
<1>9. CASE TaskCommit(n) \/ TaskDrop(n) \/ TaskFail(n)
  BY <1>9 DEF TaskCommit, TaskDrop, TaskFail
<1>. QED  BY <1>1, <1>2, <1>3, <1>4, <1>5, <1>6, <1>7, <1>8, <1>9 DEF TaskStep

\* Neither an intent nor its traces appear.
LEMMA StepCalm ==
    ASSUME Undisturbed, OInv, Calm, Steady, [Next]_vars
    PROVE  Calm' /\ Steady'
<1>0. /\ task \in [Nodes -> TaskPCs] /\ status \in [Nodes -> Statuses] /\ cmd.stage = "none"
      /\ ~Intent /\ IInv
  BY DEF OInv, IInv, TypeOK, TaskTypeOK, DurableTypeOK, Calm, Intent, NoCommand
<1>a. ASSUME UNCHANGED <<status, cmd>>, tail' = {}, pump' \notin {"loaded", "cancel", "wave_wait", "wave_over"},
             \A n \in Nodes : task'[n] \in {task[n], "none", "converging", "cleanup", "done"}
      PROVE  Calm' /\ Steady'
  BY <1>a DEF Calm, Steady, Disturbed, Working
<1>1. CASE PumpStep
  <2>1. CASE Dispatch \/ PumpBeginAdvance \/ PumpEndAdvance \/ PumpLoadVictim \/ PumpWave \/ PumpNotified
    <3>1. UNCHANGED <<status, cmd, task>>
      BY <2>1 DEF Dispatch, PumpBeginAdvance, PumpEndAdvance, PumpLoadVictim, PumpWave, PumpNotified, durable
    <3>2. tail' = {} /\ pump' \notin {"loaded", "cancel", "wave_wait", "wave_over"}
      BY <1>0, <2>1, NoTailToCancel DEF Dispatch, PumpBeginAdvance, PumpEndAdvance, PumpLoadVictim,
         PumpWave, PumpNotified, Calm, Undisturbed
    <3>. QED  BY <1>a, <3>1, <3>2
  <2>2. CASE PumpSettle \/ PumpJoinFatal
    BY <1>a, <2>2 DEF PumpSettle, PumpJoinFatal, EndDriver, durable
  <2>3. CASE PumpJoin
    BY <1>a, <2>3 DEF PumpJoin, durable, Calm
  <2>4. CASE PumpAdmit
    <3>1. PICK W, A, r : Admits(W, A, r)
      BY <1>0, <2>4, AdmitEffects
    <3>2. UNCHANGED <<cmd, tail>> /\ pump' = "select"
      BY <2>4 DEF PumpAdmit
    <3>3. ASSUME NEW n \in Nodes
          PROVE  task'[n] \notin Disturbed /\ (task'[n] \in Working => status'[n] = "Running")
      <4>1. CASE n \in A
        BY <3>1, <4>1 DEF Admits, Disturbed
      <4>2. CASE n \in W \ A
        BY <3>1, <4>2 DEF Admits, Disturbed, Working
      <4>3. CASE n \notin W
        BY <3>1, <4>3 DEF Admits, Calm, Steady
      <4>. QED  BY <4>1, <4>2, <4>3
    <3>. QED  BY <3>2, <3>3 DEF Calm, Steady
  <2>5. ~PumpInstall /\ ~PumpInstallRefused /\ ~PumpWaveSuperseded
    BY DEF Calm, PumpInstall, PumpInstallRefused, PumpWaveSuperseded
  <2>. QED  BY <1>1, <2>1, <2>2, <2>3, <2>4, <2>5 DEF PumpStep
<1>2. CASE SharedStep
  <2>0. UNCHANGED <<cmd, tail, pump>>
    BY <1>2 DEF SharedStep, AdvanceNode, CommitTerminalWave, BeginConverge, EndConverge, driver
  <2>1. CASE CommitTerminalWave
    <3>1. PICK W, E, H : Ends(W, E, H)
      BY <1>0, <2>1, WaveEffects
    <3>2. ASSUME NEW n \in Nodes
          PROVE  task'[n] \notin Disturbed /\ (task'[n] \in Working => status'[n] = "Running")
      BY <3>1 DEF Ends, Calm, Steady, Disturbed, Working
    <3>. QED  BY <2>0, <3>2 DEF Calm, Steady
  <2>2. CASE \E n \in Nodes : AdvanceNode(n)
    <3>1. PICK n \in Nodes : AdvanceNode(n)
      BY <2>2
    <3>2. UNCHANGED task /\ status[n] = "Planned" /\ \A m \in Nodes \ {n} : status'[m] = status[m]
      BY <1>0, <3>1 DEF AdvanceNode, Commit
    <3>. QED  BY <2>0, <3>2 DEF Calm, Steady
  <2>3. CASE BeginConverge \/ EndConverge
    BY <1>a, <2>0, <2>3 DEF BeginConverge, EndConverge, durable, Calm
  <2>. QED  BY <1>2, <2>1, <2>2, <2>3 DEF SharedStep
<1>3. CASE CommandStep
  BY <1>0, <1>3 DEF CommandStep, CommandEnter, CommandApply
<1>4. CASE \E n \in Nodes : TaskStep(n)
  <2>1. PICK n \in Nodes : TaskStep(n)
    BY <1>4
  <2>2. /\ UNCHANGED <<cmd, tail, pump>>
        /\ \A m \in Nodes \ {n} : status'[m] = status[m] /\ task'[m] = task[m]
    BY <1>0, <2>1, TaskLocal
  <2>3. task'[n] \notin Disturbed /\ (task'[n] \in Working => status'[n] = "Running")
    BY <2>1, CalmTask
  <2>. QED  BY <2>2, <2>3 DEF Calm, Steady
<1>5. CASE \E k \in Commands : UserInstall(k) \/ UserCommand(k)
  <2>1. PICK k \in Commands : UserCommand(k)
    BY <1>5 DEF UserInstall, Undisturbed
  <2>2. UNCHANGED <<cmd, tail, pump, task>>
    BY <2>1 DEF UserCommand, driver
  <2>3. \A n \in Nodes : status[n] = "Running" => status'[n] = "Running"
    BY <1>0, <2>1 DEF UserCommand, Commit
  <2>. QED  BY <2>2, <2>3 DEF Calm, Steady
<1>6. CASE Crash
  BY <1>6 DEF Crash, EndDriver, Calm, Steady, Disturbed, Working
<1>7. CASE Recover
  <2>1. UNCHANGED <<cmd, tail, pump, task>> /\ \A n \in Nodes : task[n] = "none"
    BY <1>7 DEF Recover, driver, OInv, Together, NoTasks
  <2>. QED  BY <2>1 DEF Calm, Steady, Working
<1>8. CASE UNCHANGED vars
  BY <1>8 DEF vars, Calm, Steady
<1>. QED  BY <1>1, <1>2, <1>3, <1>4, <1>5, <1>6, <1>7, <1>8 DEF Next

\* A graph that is left alone stays calm.
THEOREM GraphCalm ==
    ASSUME Undisturbed PROVE Spec => [](Calm /\ Steady)
<1>1. Init => Calm /\ Steady
  BY DEF Init, Calm, Steady, Disturbed, Working
<1>2. OInv /\ Calm /\ Steady /\ [Next]_vars => Calm' /\ Steady'
  BY StepCalm
<1>. QED  BY <1>1, <1>2, GraphCustody, PTL DEF Spec

\* In a graph that is left alone, executors of conflicting nodes never overlap
\* at all, whatever the wave they were admitted by and whatever crashed since.
THEOREM GraphExclusiveExecution ==
    ASSUME Undisturbed, SymmetricConflicts PROVE Spec => []ExclusiveExecution
<1>1. Steady /\ RunningExclusive => ExclusiveExecution
  BY ConstantsAssumption DEF Steady, RunningExclusive, ExclusiveExecution, Executing, Working
<1>. QED  BY <1>1, GraphCalm, GraphRunningExclusive, PTL

-----------------------------------------------------------------------------
(***************************************************************************)
(* A driver that nothing fatal befalls: no executor answers what           *)
(* validate_outcome refuses, and no hook of an executor fails.             *)
(***************************************************************************)
NothingFatal == "hook" \notin Faults /\ \A n \in Nodes : "illegal" \notin Outcomes[n]

Legal == \A n \in Nodes : outcome[n] # "illegal" /\ effect[n] # "illegal" /\ task[n] # "fatal"

\* What a task reports, replays and records.
LEMMA LegalTask ==
    ASSUME NothingFatal, OInv, Legal, NEW n \in Nodes, TaskStep(n)
    PROVE  outcome'[n] # "illegal" /\ effect'[n] # "illegal" /\ task'[n] # "fatal"
<1>0. /\ outcome[n] # "illegal" /\ effect[n] # "illegal" /\ task[n] # "fatal" /\ TaskTypeOK
      /\ DurableTypeOK
  BY DEF Legal, OInv, IInv, TypeOK
<1>. USE <1>0 DEF Goto, Report, durable, TaskTypeOK, DurableTypeOK
<1>1. CASE TaskStart(n) \/ TaskSuperseded(n)
  BY <1>1 DEF TaskStart, TaskSuperseded
<1>2. CASE TaskSoloStart(n)
  <2>1. SoloFailures(n) \subseteq Failures
    BY DEF SoloFailures, Failures
  <2>. QED  BY <1>2, <2>1 DEF TaskSoloStart, Failures
<1>3. CASE TaskSoloEnter(n)
  BY <1>3 DEF TaskSoloEnter, RecordIntents
<1>4. CASE TaskGate(n)
  BY <1>4 DEF TaskGate
<1>5. CASE TaskPoll(n) \/ TaskCommit(n) \/ TaskDrop(n) \/ TaskFail(n)
  BY <1>5 DEF TaskPoll, TaskCommit, TaskDrop, TaskFail
<1>6. CASE TaskAnswer(n)
  BY <1>6 DEF TaskAnswer, NothingFatal
<1>7. CASE TaskReceipt(n)
  BY <1>7 DEF TaskReceipt, RecordReceipts
<1>8. CASE TaskFinish(n) \/ TaskCleanup(n)
  BY <1>8 DEF TaskFinish, TaskCleanup, NothingFatal
<1>. QED  BY <1>1, <1>2, <1>3, <1>4, <1>5, <1>6, <1>7, <1>8 DEF TaskStep

\* Every step, commands included, keeps reports and receipts legal.
LEMMA StepLegal ==
    ASSUME NothingFatal, OInv, Legal, [Next]_vars
    PROVE  Legal'
<1>0. IInv /\ TaskTypeOK /\ DurableTypeOK
  BY DEF OInv, IInv, TypeOK
<1>a. ASSUME UNCHANGED effect,
             \A n \in Nodes : /\ outcome'[n] \in {outcome[n], "none"}
                              /\ task'[n] # "fatal" \/ task'[n] = task[n]
      PROVE  Legal'
  BY <1>a DEF Legal
<1>1. CASE PumpStep
  <2>1. CASE PumpAdmit
    <3>1. PICK W, A, r : Admits(W, A, r)
      BY <1>0, <2>1, AdmitEffects
    <3>2. ASSUME NEW n \in Nodes PROVE outcome'[n] # "illegal" /\ effect'[n] # "illegal" /\ task'[n] # "fatal"
      <4>1. CASE n \in A
        <5>1. PICK B, q : Admission(B, q)
          BY <2>1 DEF PumpAdmit
        <5>2. outcome'[n] \in {outcome[n]} \cup Failures
          BY <5>1 DEF Admission
        <5>. QED  BY <3>1, <4>1, <5>2 DEF Admits, Legal, Failures
      <4>2. CASE n \in W \ A
        BY <3>1, <4>2 DEF Admits, Legal, Failures
      <4>3. CASE n \notin W
        BY <3>1, <4>3 DEF Admits, Legal
      <4>. QED  BY <4>1, <4>2, <4>3
    <3>. QED  BY <3>2 DEF Legal
  <2>2. CASE PumpInstallRefused \/ PumpSettle \/ PumpJoinFatal
    BY <1>a, <2>2 DEF PumpInstallRefused, PumpSettle, PumpJoinFatal, EndDriver, durable
  <2>3. CASE PumpWaveSuperseded \/ PumpJoin
    BY <1>a, <2>3 DEF PumpWaveSuperseded, PumpJoin, durable
  <2>4. CASE \/ Dispatch \/ PumpBeginAdvance \/ PumpEndAdvance \/ PumpLoadVictim \/ PumpInstall
             \/ PumpWave \/ PumpNotified
    BY <1>a, <2>4 DEF Dispatch, PumpBeginAdvance, PumpEndAdvance, PumpLoadVictim, PumpInstall, PumpWave,
       PumpNotified, durable
  <2>. QED  BY <1>1, <2>1, <2>2, <2>3, <2>4 DEF PumpStep
<1>2. CASE SharedStep
  <2>1. CASE CommitTerminalWave
    <3>1. PICK W, E, H : Ends(W, E, H)
      BY <1>0, <2>1, WaveEffects
    <3>2. UNCHANGED outcome
      BY <2>1 DEF CommitTerminalWave
    <3>. QED  BY <3>1, <3>2 DEF Ends, Legal, NothingFatal
  <2>2. CASE ~CommitTerminalWave
    BY <1>a, <1>2, <2>2 DEF SharedStep, AdvanceNode, BeginConverge, EndConverge, durable
  <2>. QED  BY <2>1, <2>2
<1>3. CASE CommandStep
  <2>1. UNCHANGED effect
    BY <1>3 DEF CommandStep, CommandEnter, CommandApply, durable
  <2>2. \/ \E v : EndDriver(v)
        \/ UNCHANGED outcome /\ task' = [n \in Nodes |-> WokenTask(task[n])]
        \/ UNCHANGED <<outcome, task>>
    BY <1>3 DEF CommandStep, CommandEnter, CommandApply, EndCommand
  <2>3. \A n \in Nodes : outcome'[n] \in {outcome[n], "none"} /\ (task'[n] # "fatal" \/ task'[n] = task[n])
    BY <2>2 DEF EndDriver, WokenTask
  <2>. QED  BY <1>a, <2>1, <2>3
<1>4. CASE \E n \in Nodes : TaskStep(n)
  <2>1. PICK n \in Nodes : TaskStep(n)
    BY <1>4
  <2>2. \A m \in Nodes \ {n} : task'[m] = task[m] /\ outcome'[m] = outcome[m] /\ effect'[m] = effect[m]
    BY <1>0, <2>1, TaskLocal
  <2>. QED  BY <2>1, <2>2, LegalTask DEF Legal
<1>5. CASE \E k \in Commands : UserInstall(k) \/ UserCommand(k)
  BY <1>a, <1>5 DEF UserInstall, UserCommand, durable
<1>6. CASE Crash \/ Recover \/ UNCHANGED vars
  BY <1>a, <1>6 DEF Crash, Recover, vars, EndDriver, durable
<1>. QED  BY <1>1, <1>2, <1>3, <1>4, <1>5, <1>6 DEF Next

-----------------------------------------------------------------------------
(***************************************************************************)
(* Running nodes are owned                                                 *)
(***************************************************************************)
Failing == {"drop", "dropped", "fail"}

\* The task of a running node works on it or is about to report its failure,
\* as a failure that FailsFrom lets end a running node.
Owned ==
    \A n \in Nodes :
        /\ alive /\ status[n] = "Running" => task[n] \in Working \cup Failing
        /\ status[n] = "Running" /\ task[n] = "fail" => outcome[n] # "resource"
        /\ task[n] \in {"drop", "dropped"} => outcome[n] \in {"error", "uncertain"}
        /\ task[n] = "fail" => outcome[n] \in Failures

\* A task gives its node up only in the commit that ends it.
LEMMA OwnedTask ==
    ASSUME OInv, Calm, Steady, Legal, Owned, NEW n \in Nodes, TaskStep(n)
    PROVE  /\ alive /\ status'[n] = "Running" => task'[n] \in Working \cup Failing
           /\ status'[n] = "Running" /\ task'[n] = "fail" => outcome'[n] # "resource"
           /\ task'[n] \in {"drop", "dropped"} => outcome'[n] \in {"error", "uncertain"}
           /\ task'[n] = "fail" => outcome'[n] \in Failures
<1>0. /\ ~Intent /\ Entry(n) /\ TaskTypeOK /\ DurableTypeOK /\ outcome[n] # "illegal"
      /\ task[n] \in Working => status[n] = "Running"
      /\ alive /\ status[n] = "Running" => task[n] \in Working \cup Failing
      /\ status[n] = "Running" /\ task[n] = "fail" => outcome[n] # "resource"
      /\ task[n] \in {"drop", "dropped"} => outcome[n] \in {"error", "uncertain"}
      /\ task[n] = "fail" => outcome[n] \in Failures
  BY DEF OInv, IInv, TypeOK, Calm, Steady, Legal, Owned, Custody, Intent, NoCommand
<1>. USE <1>0 DEF Goto, Report, Commit, NoCommit, durable, TaskTypeOK, DurableTypeOK, Working, Failing, Failures
<1>1. CASE TaskStart(n)
  BY <1>1 DEF TaskStart
<1>2. CASE TaskSuperseded(n) \/ TaskCleanup(n)
  BY <1>2 DEF TaskSuperseded, TaskCleanup
<1>3. CASE TaskSoloStart(n)
  BY <1>3 DEF TaskSoloStart, Entry
<1>4. CASE TaskSoloEnter(n)
  BY <1>4 DEF TaskSoloEnter
<1>5. CASE TaskGate(n)
  BY <1>5 DEF TaskGate, Entry, WaveEntries
<1>6. CASE TaskPoll(n) \/ TaskReceipt(n)
  BY <1>6 DEF TaskPoll, TaskReceipt
<1>7. CASE TaskAnswer(n)
  BY <1>7 DEF TaskAnswer
<1>8. CASE TaskFinish(n)
  BY <1>8 DEF TaskFinish
<1>9. CASE TaskCommit(n)
  <2>1. outcome[n] \in LegalOutcomes \/ task[n] # "commit"
    BY DEF OInv, IInv, Reports
  <2>. QED  BY <1>9, <2>1 DEF TaskCommit, LegalOutcomes, Terminal, Waiting
<1>10. CASE TaskDrop(n)
  BY <1>10 DEF TaskDrop
<1>11. CASE TaskFail(n)
  BY <1>11 DEF TaskFail, FailsFrom, FailureStatus
<1>. QED  BY <1>1, <1>2, <1>3, <1>4, <1>5, <1>6, <1>7, <1>8, <1>9, <1>10, <1>11 DEF TaskStep

\* Every step of a graph that is left alone keeps its running nodes owned.
LEMMA StepOwned ==
    ASSUME Undisturbed, OInv, Calm, Steady, Legal, Owned, [Next]_vars
    PROVE  Owned'
<1>0. /\ IInv /\ task \in [Nodes -> TaskPCs] /\ status \in [Nodes -> Statuses] /\ cmd.stage = "none"
      /\ outcome \in [Nodes -> LegalOutcomes \cup Failures \cup {"none", "illegal"}]
  BY DEF OInv, IInv, TypeOK, TaskTypeOK, DurableTypeOK, Calm, NoCommand
<1>1. CASE PumpStep
  <2>1. CASE PumpAdmit
    <3>1. PICK W, A, r : Admits(W, A, r)
      BY <1>0, <2>1, AdmitEffects
    <3>2. UNCHANGED alive /\ pump = "admit" /\ alive /\ \A n \in W : task[n] = "none"
      BY <2>1, <3>1 DEF PumpAdmit, Admits, OInv, Together
    <3>3. ASSUME NEW n \in Nodes
          PROVE  /\ status'[n] = "Running" => task'[n] \in Working \cup Failing
                 /\ status'[n] = "Running" /\ task'[n] = "fail" => outcome'[n] # "resource"
                 /\ task'[n] \in {"drop", "dropped"} => outcome'[n] \in {"error", "uncertain"}
                 /\ task'[n] = "fail" => outcome'[n] \in Failures
      <4>1. CASE n \in A
        BY <3>1, <4>1 DEF Admits, Working
      <4>2. CASE n \in W \ A
        BY <3>1, <3>2, <4>2 DEF Admits, Owned, Working, Failing
      <4>3. CASE n \notin W
        BY <3>1, <3>2, <4>3 DEF Admits, Owned
      <4>. QED  BY <4>1, <4>2, <4>3
    <3>. QED  BY <3>3 DEF Owned
  <2>2. CASE PumpSettle
    BY <2>2 DEF PumpSettle, EndDriver, NoTasks, durable, Owned, Working, Failing
  <2>3. CASE PumpJoin
    BY <2>3 DEF PumpJoin, durable, Owned, Working, Failing
  <2>4. CASE Dispatch \/ PumpBeginAdvance \/ PumpEndAdvance \/ PumpLoadVictim \/ PumpWave \/ PumpNotified
    BY <2>4 DEF Dispatch, PumpBeginAdvance, PumpEndAdvance, PumpLoadVictim, PumpWave, PumpNotified,
       durable, Owned
  <2>5. ~PumpInstall /\ ~PumpInstallRefused /\ ~PumpWaveSuperseded /\ ~PumpJoinFatal
    BY DEF Calm, Legal, PumpInstall, PumpInstallRefused, PumpWaveSuperseded, PumpJoinFatal
  <2>. QED  BY <1>1, <2>1, <2>2, <2>3, <2>4, <2>5 DEF PumpStep
<1>2. CASE SharedStep
  <2>0. UNCHANGED <<alive, outcome>>
    BY <1>2 DEF SharedStep, AdvanceNode, CommitTerminalWave, BeginConverge, EndConverge
  <2>1. CASE CommitTerminalWave
    <3>1. PICK W, E, H : Ends(W, E, H)
      BY <1>0, <2>1, WaveEffects
    <3>2. \A n \in E : status'[n] # "Running"
      BY <3>1 DEF Ends, OInv, IInv, Reports, LegalOutcomes, Terminal, Waiting
    <3>3. \A n \in W \ E : status'[n] # "Running" /\ task'[n] \in {"done", "fatal"}
      BY <3>1 DEF Ends
    <3>4. \A n \in E : task'[n] = "committed"
      BY <3>1 DEF Ends
    <3>5. \A n \in Nodes \ W : status'[n] = status[n] /\ task'[n] = task[n]
      BY <3>1 DEF Ends
    <3>. QED  BY <2>0, <3>1, <3>2, <3>3, <3>4, <3>5 DEF Ends, Owned
  <2>2. CASE \E n \in Nodes : AdvanceNode(n)
    <3>1. PICK n \in Nodes : AdvanceNode(n)
      BY <2>2
    <3>2. UNCHANGED task /\ status'[n] # "Running" /\ \A m \in Nodes \ {n} : status'[m] = status[m]
      BY <1>0, <3>1 DEF AdvanceNode, Commit, DependencyTarget
    <3>. QED  BY <2>0, <3>2 DEF Owned
  <2>3. CASE BeginConverge \/ EndConverge
    <3>1. UNCHANGED status
      BY <2>3 DEF BeginConverge, EndConverge, durable
    <3>2. \A n \in Nodes : \/ task'[n] = task[n]
                           \/ task[n] \in {"committed", "converging"}
                              /\ task'[n] \in {"converging", "done", "cleanup"}
      BY <2>3 DEF BeginConverge, EndConverge
    <3>. QED  BY <2>0, <3>1, <3>2 DEF Owned, Working, Failing
  <2>. QED  BY <1>2, <2>1, <2>2, <2>3 DEF SharedStep
<1>3. CASE CommandStep
  BY <1>0, <1>3 DEF CommandStep, CommandEnter, CommandApply
<1>4. CASE \E n \in Nodes : TaskStep(n)
  <2>1. PICK n \in Nodes : TaskStep(n)
    BY <1>4
  <2>2. /\ UNCHANGED alive
        /\ \A m \in Nodes \ {n} : status'[m] = status[m] /\ task'[m] = task[m] /\ outcome'[m] = outcome[m]
    BY <1>0, <2>1, TaskLocal
  <2>3. /\ alive /\ status'[n] = "Running" => task'[n] \in Working \cup Failing
        /\ status'[n] = "Running" /\ task'[n] = "fail" => outcome'[n] # "resource"
        /\ task'[n] \in {"drop", "dropped"} => outcome'[n] \in {"error", "uncertain"}
        /\ task'[n] = "fail" => outcome'[n] \in Failures
    BY <2>1, OwnedTask
  <2>. QED  BY <2>2, <2>3 DEF Owned
<1>5. CASE \E k \in Commands : UserInstall(k) \/ UserCommand(k)
  <2>1. PICK k \in Commands : UserCommand(k)
    BY <1>5 DEF UserInstall, Undisturbed
  <2>2. UNCHANGED <<alive, task, outcome>>
    BY <2>1 DEF UserCommand
  <2>3. \A n \in Nodes : status'[n] = "Running" => status[n] = "Running"
    BY <1>0, <2>1 DEF UserCommand, Commit
  <2>. QED  BY <2>2, <2>3 DEF Owned
<1>6. CASE Crash
  BY <1>6 DEF Crash, EndDriver, Owned
<1>7. CASE Recover
  <2>1. UNCHANGED <<task, outcome>> /\ \A n \in Nodes : task[n] = "none"
    BY <1>7 DEF Recover, OInv, Together, NoTasks
  <2>. DEFINE running == {n \in Nodes : status[n] = "Running"}
  <2>2. PICK lost \in SUBSET running :
           \/ status' = status /\ running = {}
           \/ status' = [n \in Nodes |-> IF n \in lost THEN "Blocked"
                                         ELSE IF n \in running THEN "Ready" ELSE status[n]]
    BY <1>7 DEF Recover, Commit, NoCommit
  <2>3. \A n \in Nodes : status'[n] # "Running"
    BY <2>2
  <2>. QED  BY <2>1, <2>3 DEF Owned
<1>8. CASE UNCHANGED vars
  BY <1>8 DEF vars, Owned
<1>. QED  BY <1>1, <1>2, <1>3, <1>4, <1>5, <1>6, <1>7, <1>8 DEF Next

\* In a graph that is left alone, and that nothing fatal befalls, the tasks own
\* the running nodes; faults of admissions, errors, panics, deadlines and
\* crashes included.
THEOREM GraphOwned ==
    ASSUME Undisturbed, NothingFatal PROVE Spec => [](Legal /\ Owned)
<1>1. Init => Legal /\ Owned
  BY DEF Init, Legal, Owned
<1>2. OInv /\ Calm /\ Steady /\ Legal /\ Owned /\ [Next]_vars => Legal' /\ Owned'
  BY StepLegal, StepOwned
<1>. QED  BY <1>1, <1>2, GraphCustody, GraphCalm, PTL DEF Spec

\* While the process lives, a running node has a task that will report on it
\* and a driver to hear it: no commit, isolation, convergence or end of the pump
\* leaves a node Running behind.
THEOREM GraphRunningIsOwned ==
    ASSUME Undisturbed, NothingFatal PROVE Spec => []RunningIsOwned
<1>1. OInv /\ Owned => RunningIsOwned
  BY DEF OInv, Together, NoTasks, Owned, RunningIsOwned, Working, Failing
<1>. QED  BY <1>1, GraphCustody, GraphOwned, PTL

-----------------------------------------------------------------------------
(***************************************************************************)
(* Entries are owned, pauses and cancellations included.  A task that      *)
(* panicked and one that was started past its deadline report without      *)
(* dropping their entry: the theorem is about graphs without these two.    *)
(***************************************************************************)
NothingAbandoned == Deadlined = {} /\ \A n \in Nodes : "panic" \notin Outcomes[n]

\* The pump has no command of its own under way.
Unforced == tail = {} /\ pump \notin {"loaded", "cancel"}

Spent == {"none", "done", "deferred", "fail", "solo"}

\* The tasks that will not look at their entry again have none.
Spare ==
    \A n \in Nodes :
        /\ task[n] \in Spent => active[n] = "no"
        /\ task[n] \in {"committed", "converging"} /\ outcome[n] \in Failures => active[n] = "no"

\* A task drops its entry before it leaves it out of sight.
LEMMA SpareTask ==
    ASSUME NothingAbandoned, NothingFatal, OInv, Legal, Spare, NEW n \in Nodes, TaskStep(n)
    PROVE  /\ task'[n] \in Spent => active'[n] = "no"
           /\ task'[n] \in {"committed", "converging"} /\ outcome'[n] \in Failures => active'[n] = "no"
<1>0. /\ task[n] \in Spent => active[n] = "no"
      /\ task[n] \in {"committed", "converging"} /\ outcome[n] \in Failures => active[n] = "no"
      /\ TaskTypeOK /\ outcome[n] # "illegal" /\ n \notin Deadlined
      /\ task[n] = "commit" => outcome[n] \in LegalOutcomes
  BY DEF Spare, OInv, IInv, TypeOK, Legal, Reports, NothingAbandoned
<1>. USE <1>0 DEF Goto, Report, DropEntry, TaskTypeOK, Spent
<1>1. CASE TaskStart(n)
  BY <1>1 DEF TaskStart
<1>2. CASE TaskSuperseded(n) \/ TaskCleanup(n) \/ TaskDrop(n)
  BY <1>2 DEF TaskSuperseded, TaskCleanup, TaskDrop
<1>3. CASE TaskSoloStart(n)
  BY <1>3 DEF TaskSoloStart
<1>4. CASE TaskSoloEnter(n)
  BY <1>4 DEF TaskSoloEnter
<1>5. CASE TaskGate(n)
  BY <1>5 DEF TaskGate
<1>6. CASE TaskPoll(n) \/ TaskReceipt(n)
  BY <1>6 DEF TaskPoll, TaskReceipt
<1>7. CASE TaskAnswer(n)
  BY <1>7 DEF TaskAnswer, NothingAbandoned
<1>8. CASE TaskFinish(n)
  BY <1>8 DEF TaskFinish
<1>9. CASE TaskCommit(n)
  BY <1>9 DEF TaskCommit, LegalOutcomes, Terminal, Waiting, Failures
<1>10. CASE TaskFail(n)
  BY <1>10 DEF TaskFail
<1>. QED  BY <1>1, <1>2, <1>3, <1>4, <1>5, <1>6, <1>7, <1>8, <1>9, <1>10 DEF TaskStep

\* Every step, also of a command that takes entries away, keeps entries owned.
LEMMA StepSpare ==
    ASSUME NoTails, NothingAbandoned, NothingFatal, OInv, Legal, Unforced, Spare, [Next]_vars
    PROVE  Unforced' /\ Spare'
<1>0. IInv /\ TaskTypeOK /\ cmd.by # "pump"
  BY DEF OInv, IInv, TypeOK, Together, Unforced
<1>a. ASSUME NEW n \in Nodes, task'[n] = task[n] \/ task'[n] \notin Spent \cup {"committed", "converging"},
             outcome'[n] = outcome[n], active'[n] \in {active[n], "no"}
      PROVE  /\ task'[n] \in Spent => active'[n] = "no"
             /\ task'[n] \in {"committed", "converging"} /\ outcome'[n] \in Failures => active'[n] = "no"
  BY <1>a DEF Spare
<1>1. CASE PumpStep
  <2>1. CASE PumpAdmit
    <3>1. PICK W, A, r : Admits(W, A, r)
      BY <1>0, <2>1, AdmitEffects
    <3>2. UNCHANGED tail /\ pump' = "select" /\ pump = "admit"
      BY <2>1 DEF PumpAdmit
    <3>3. \A n \in W : task[n] = "none" /\ active[n] = "no"
      BY <3>1, <3>2 DEF Admits, OInv, Together, Spare, Spent
    <3>4. ASSUME NEW n \in Nodes
          PROVE  /\ task'[n] \in Spent => active'[n] = "no"
                 /\ task'[n] \in {"committed", "converging"} /\ outcome'[n] \in Failures => active'[n] = "no"
      <4>1. CASE n \in A
        BY <3>1, <4>1 DEF Admits, Spent
      <4>2. CASE n \in W \ A
        BY <3>1, <3>3, <4>2 DEF Admits
      <4>3. CASE n \notin W
        BY <3>1, <4>3 DEF Admits, Spare
      <4>. QED  BY <4>1, <4>2, <4>3
    <3>. QED  BY <3>2, <3>4 DEF Unforced, Spare
  <2>2. CASE PumpSettle
    BY <2>2 DEF PumpSettle, EndDriver, NoTasks, Unforced, Spare, Spent
  <2>3. CASE PumpJoin
    BY <2>3 DEF PumpJoin, Unforced, Spare, Spent
  <2>4. CASE PumpWaveSuperseded
    BY <2>4 DEF PumpWaveSuperseded, Unforced, Spare, Spent
  <2>5. CASE Dispatch \/ PumpBeginAdvance \/ PumpEndAdvance \/ PumpLoadVictim \/ PumpWave \/ PumpNotified
    <3>1. UNCHANGED <<task, outcome, active>>
      BY <2>5 DEF Dispatch, PumpBeginAdvance, PumpEndAdvance, PumpLoadVictim, PumpWave, PumpNotified
    <3>2. Unforced'
      BY <2>5, NoTailToCancel DEF Dispatch, PumpBeginAdvance, PumpEndAdvance, PumpLoadVictim, PumpWave,
         PumpNotified, Unforced
    <3>. QED  BY <3>1, <3>2 DEF Spare
  <2>6. ~PumpInstall /\ ~PumpInstallRefused /\ ~PumpJoinFatal
    BY DEF Unforced, Legal, PumpInstall, PumpInstallRefused, PumpJoinFatal
  <2>. QED  BY <1>1, <2>1, <2>2, <2>3, <2>4, <2>5, <2>6 DEF PumpStep
<1>2. CASE SharedStep
  <2>0. UNCHANGED <<tail, pump, outcome>>
    BY <1>2 DEF SharedStep, AdvanceNode, CommitTerminalWave, BeginConverge, EndConverge, driver
  <2>1. CASE CommitTerminalWave
    <3>1. PICK W, E, H : Ends(W, E, H)
      BY <1>0, <2>1, WaveEffects
    <3>2. \A n \in E : task'[n] = "committed" /\ outcome[n] \notin Failures
      BY <3>1 DEF Ends, OInv, IInv, Reports, LegalOutcomes, Terminal, Waiting, Failures
    <3>3. \A n \in W \ E : task'[n] = "done" /\ active'[n] = "no"
      BY <3>1 DEF Ends, NothingFatal
    <3>4. \A n \in Nodes \ W : task'[n] = task[n] /\ active'[n] = active[n]
      BY <3>1 DEF Ends
    <3>. QED  BY <2>0, <3>1, <3>2, <3>3, <3>4 DEF Ends, Unforced, Spare, Spent
  <2>2. CASE \E n \in Nodes : AdvanceNode(n)
    BY <2>0, <2>2 DEF AdvanceNode, Unforced, Spare
  <2>3. CASE BeginConverge
    BY <2>0, <2>3 DEF BeginConverge, Unforced, Spare, Spent
  <2>4. CASE EndConverge
    BY <2>0, <2>4 DEF EndConverge, Unforced, Spare, Spent
  <2>. QED  BY <1>2, <2>1, <2>2, <2>3, <2>4 DEF SharedStep
<1>3. CASE CommandStep
  <2>1. /\ UNCHANGED <<tail, outcome>> /\ pump' \in {pump, "wave_over"}
        /\ task' = [n \in Nodes |-> WokenTask(task[n])] \/ UNCHANGED task
        /\ \A n \in Nodes : active'[n] \in {active[n], "no"}
    BY <1>0, <1>3 DEF CommandStep, CommandEnter, CommandApply, EndCommand, driver
  <2>2. \A n \in Nodes : task'[n] = task[n] \/ task'[n] \notin Spent \cup {"committed", "converging"}
    BY <2>1 DEF WokenTask, Spent
  <2>. QED  BY <1>a, <2>1, <2>2 DEF Unforced, Spare
<1>4. CASE \E n \in Nodes : TaskStep(n)
  <2>1. PICK n \in Nodes : TaskStep(n)
    BY <1>4
  <2>2. /\ UNCHANGED <<tail, pump>>
        /\ \A m \in Nodes \ {n} : task'[m] = task[m] /\ outcome'[m] = outcome[m] /\ active'[m] = active[m]
    BY <1>0, <2>1, TaskLocal
  <2>3. /\ task'[n] \in Spent => active'[n] = "no"
        /\ task'[n] \in {"committed", "converging"} /\ outcome'[n] \in Failures => active'[n] = "no"
    BY <2>1, SpareTask
  <2>. QED  BY <2>2, <2>3 DEF Unforced, Spare
<1>5. CASE \E k \in Commands : UserInstall(k) \/ UserCommand(k)
  BY <1>5 DEF UserInstall, UserCommand, driver, Unforced, Spare
<1>6. CASE Crash
  BY <1>6 DEF Crash, EndDriver, Unforced, Spare
<1>7. CASE Recover \/ UNCHANGED vars
  BY <1>7 DEF Recover, vars, driver, Unforced, Spare
<1>. QED  BY <1>1, <1>2, <1>3, <1>4, <1>5, <1>6, <1>7 DEF Next

\* No entry, and with it no scope lock, outlives the task of its node, whatever
\* commands, errors, refused admissions and crashes come.
THEOREM GraphEntriesAreOwned ==
    ASSUME NoTails, NothingAbandoned, NothingFatal PROVE Spec => []EntriesAreOwned
<1>1. Init => Legal /\ Unforced /\ Spare
  BY DEF Init, Legal, Unforced, Spare
<1>2. OInv /\ Legal /\ Unforced /\ Spare /\ [Next]_vars => Legal' /\ Unforced' /\ Spare'
  BY StepLegal, StepSpare
<1>3. Spare => EntriesAreOwned
  BY DEF Spare, Spent, EntriesAreOwned
<1>. QED  BY <1>1, <1>2, <1>3, GraphCustody, PTL DEF Spec

-----------------------------------------------------------------------------
(***************************************************************************)
(* The driver keeps up: with nothing to run it finds every node over, or   *)
(* waiting for somebody.                                                   *)
(***************************************************************************)

\* What validation of the definition rejects is a cycle of DependsOn edges, and
\* the supervisor never runs with a limit below one.
Acyclic  == \A S \in SUBSET Nodes : S # {} => \E n \in S : Preds[n] \cap S = {}
HasSlots == MaxActive > 0

\* A node that is over stays as it is.
LEMMA OverStays ==
    ASSUME IInv, [Next]_vars, NEW n \in Nodes, IsTerminal(status[n])
    PROVE  status'[n] = status[n]
<1>1. status' = status \/ Lifecycle!Next
  BY StepInv, StepRefines
<1>2. CASE Lifecycle!Work
  BY <1>2 DEF Lifecycle!Work, Lifecycle!LegalTransition, Lifecycle!Terminal, Lifecycle!Waiting,
     IsTerminal, Terminal
<1>3. CASE Lifecycle!Recovery
  BY <1>3 DEF Lifecycle!Recovery, IsTerminal, Terminal
<1>4. CASE \E m \in Nodes : Lifecycle!Resolve(m)
  BY <1>4 DEF Lifecycle!Resolve, IsTerminal, Terminal, IInv, TypeOK, DurableTypeOK
<1>. QED  BY <1>1, <1>2, <1>3, <1>4 DEF Lifecycle!Next

\* Once all its predecessors are over, a node is released or lost.
LEMMA DecidedByPredecessors ==
    ASSUME NEW n \in Nodes, \A p \in Preds[n] : IsTerminal(status[p])
    PROVE  DependencyTarget(n) # "Planned"
<1>1. \A p \in Preds[n] : IsTerminal(VerifiedStatus(n, p))
  BY DEF VerifiedStatus, IsTerminal, Terminal
<1>2. Possible(n) = Satisfied(n)
  BY <1>1 DEF Possible, Satisfied
<1>3. IsFiniteSet(Preds[n]) /\ Satisfied(n) \subseteq Preds[n]
  BY PredecessorSets
<1>4. Cardinality(Satisfied(n)) \in Nat /\ Cardinality(Preds[n]) \in Nat
  BY <1>3, FS_Subset, FS_CardinalityType
<1>5. Required(n) \in Nat
  BY <1>4, ConstantsAssumption DEF Required
<1>. QED  BY <1>1, <1>2, <1>4, <1>5 DEF DependencyTarget, DependencyMet, DependencyLost

\* Where advance_dependencies has nothing left to do and no node is ready,
\* running or waiting, all nodes are over.
LEMMA NothingLeftToRun ==
    ASSUME Acyclic, IInv, Advanced, \A n \in Nodes : status[n] \notin {"Ready", "Running"} \cup Waiting
    PROVE  \A n \in Nodes : IsTerminal(status[n])
<1>. DEFINE S == {n \in Nodes : status[n] = "Planned"}
<1>1. \A n \in Nodes \ S : IsTerminal(status[n])
  BY DEF IInv, TypeOK, DurableTypeOK, Statuses, IsTerminal
<1>2. CASE S = {}
  BY <1>1, <1>2
<1>3. CASE S # {}
  <2>1. PICK n \in S : Preds[n] \cap S = {}
    BY <1>3 DEF Acyclic
  <2>2. \A p \in Preds[n] : IsTerminal(status[p])
    BY <1>1, <2>1, ConstantsAssumption
  <2>. QED  BY <2>1, <2>2, DecidedByPredecessors DEF Advanced
<1>. QED  BY <1>2, <1>3

InWave == {"wave", "admit", "select"}
AllOver == \A n \in Nodes : IsTerminal(status[n])

\* While the pump works on a wave, what its snapshot says of the waiting nodes
\* holds of a graph that has neither tasks nor ready nodes.
Keeps ==
    /\ pump \in InWave /\ NoTasks /\ snap.ready = {} => snap.waiting \/ AllOver
    /\ pump = "select" /\ NoTasks => snap.ready = {}
    /\ verdict # "failed"

\* A wave takes up at least one node where it can.
LEMMA WaveIsNotEmpty ==
    ASSUME HasSlots, IInv, NoTasks, {} \in Batches
    PROVE  snap.ready = {}
<1>1. snap.ready \in SUBSET Nodes
  BY DEF IInv, TypeOK, DriverTypeOK
<1>2. IsFiniteSet(snap.ready) /\ Cardinality(snap.ready) \in Nat
  BY <1>1, ConstantsAssumption, FS_Subset, FS_CardinalityType
<1>3. {n \in Nodes : task[n] # "none"} = {}
  BY DEF NoTasks
<1>4. Cardinality({}) = 0
  BY FS_EmptySet
<1>5. Cardinality({}) = Smaller(Cardinality(snap.ready), MaxActive - Cardinality({n \in Nodes : task[n] # "none"}))
  BY DEF Batches
<1>6. 0 = Smaller(Cardinality(snap.ready), MaxActive - 0)
  BY <1>3, <1>4, <1>5
<1>7. Cardinality(snap.ready) = 0
  BY <1>2, <1>6, ConstantsAssumption DEF HasSlots, Smaller
<1>. QED  BY <1>2, <1>7, FS_EmptySet

\* The pump's steps.
LEMMA PumpKeepsUp ==
    ASSUME Undisturbed, Acyclic, HasSlots, OInv, Calm, Legal, Owned, Keeps, PumpStep
    PROVE  Keeps'
<1>0. IInv
  BY DEF OInv
<1>1. CASE Dispatch \/ PumpBeginAdvance \/ PumpLoadVictim \/ PumpNotified \/ PumpJoin
  BY <1>1 DEF Dispatch, PumpBeginAdvance, PumpLoadVictim, PumpNotified, PumpJoin, Keeps, InWave, Calm
<1>2. CASE PumpEndAdvance
  <2>1. UNCHANGED <<status, task, alive, verdict>> /\ Advanced /\ pump \in {"advance", "readvance"}
    BY <1>2 DEF PumpEndAdvance, durable
  <2>2. CASE pump = "advance"
    BY <1>2, <2>1, <2>2 DEF PumpEndAdvance, Keeps, InWave
  <2>3. CASE pump = "readvance"
    <3>1. /\ pump' = "wave"
          /\ snap'.ready = {n \in Nodes : status[n] = "Ready" /\ task[n] = "none"}
          /\ snap'.waiting <=> \E n \in Nodes : status[n] \in Waiting
      <4>. DEFINE R == {n \in Nodes : status[n] = "Ready" /\ task[n] = "none"}
                  B == \E n \in Nodes : status[n] \in Waiting
      <4>1. pump' = "wave" /\ snap' = [ready |-> R, waiting |-> B]
        BY <1>2, <2>3 DEF PumpEndAdvance
      <4>. HIDE DEF R, B
      <4>2. snap'.ready = R /\ snap'.waiting = B
        BY <4>1
      <4>. QED  BY <4>1, <4>2, Zenon DEF R, B
    <3>2. ASSUME NoTasks, snap'.ready = {}, ~snap'.waiting PROVE AllOver
      <4>1. alive
        BY <2>3 DEF OInv, Together
      <4>2. \A n \in Nodes : status[n] \notin {"Ready", "Running"} \cup Waiting
        BY <3>1, <3>2, <4>1 DEF NoTasks, Owned, Working, Failing
      <4>. QED  BY <1>0, <2>1, <4>2, NothingLeftToRun DEF AllOver
    <3>3. verdict' # "failed"
      BY <2>1 DEF Keeps
    <3>. QED  BY <2>1, <3>1, <3>2, <3>3 DEF Keeps, NoTasks, AllOver
  <2>. QED  BY <2>1, <2>2, <2>3
<1>3. CASE PumpWave
  <2>1. /\ UNCHANGED <<status, task, snap, verdict>> /\ pump = "wave"
        /\ pump' = IF snap.ready = {} THEN "select" ELSE IF Intent THEN "wave_wait" ELSE "admit"
    BY <1>3 DEF PumpWave, durable
  <2>. QED  BY <2>1 DEF Keeps, InWave, NoTasks, AllOver
<1>4. CASE PumpAdmit
  <2>1. PICK W, A, r : Admits(W, A, r)
    BY <1>0, <1>4, AdmitEffects
  <2>2. UNCHANGED <<snap, verdict>> /\ pump = "admit" /\ pump' = "select"
    BY <1>4 DEF PumpAdmit
  <2>3. CASE W = {}
    <3>1. A = {} /\ UNCHANGED <<status>>
      BY <1>0, <2>1, <2>3 DEF Admits, IInv, TypeOK, DurableTypeOK
    <3>2. \A n \in Nodes : task'[n] = task[n]
      BY <2>1, <2>3 DEF Admits
    <3>3. NoTasks => snap.ready = {}
      BY <1>0, <2>1, <2>3, WaveIsNotEmpty DEF Admits
    <3>. QED  BY <2>2, <3>1, <3>2, <3>3 DEF Keeps, NoTasks, InWave, AllOver
  <2>4. CASE W # {}
    <3>1. PICK n \in W : task'[n] # "none" /\ n \in Nodes
      BY <2>1, <2>4 DEF Admits
    <3>. QED  BY <2>2, <3>1 DEF Keeps, NoTasks
  <2>. QED  BY <2>3, <2>4
<1>5. CASE PumpSettle
  <2>1. AllOver \/ snap.waiting
    BY <1>5 DEF PumpSettle, Keeps, InWave
  <2>. QED  BY <1>5, <2>1 DEF PumpSettle, EndDriver, Keeps, InWave, AllOver
<1>6. ~PumpInstall /\ ~PumpInstallRefused /\ ~PumpWaveSuperseded /\ ~PumpJoinFatal
  BY DEF Calm, Legal, PumpInstall, PumpInstallRefused, PumpWaveSuperseded, PumpJoinFatal
<1>. QED  BY <1>1, <1>2, <1>3, <1>4, <1>5, <1>6 DEF PumpStep

\* Every step.
LEMMA StepKeepsUp ==
    ASSUME Undisturbed, Acyclic, HasSlots, OInv, Calm, Legal, Owned, Keeps, [Next]_vars
    PROVE  Keeps'
<1>0. IInv /\ cmd.stage = "none"
  BY DEF OInv, Calm, NoCommand
<1>1. AllOver => AllOver'
  BY <1>0, OverStays DEF AllOver
<1>a. ASSUME UNCHANGED <<pump, snap, verdict>>, \A n \in Nodes : task[n] # "none" => task'[n] # "none"
      PROVE  Keeps'
  BY <1>1, <1>a DEF Keeps, NoTasks
<1>2. CASE SharedStep
  <2>1. UNCHANGED <<pump, snap, verdict>>
    BY <1>2 DEF SharedStep, AdvanceNode, CommitTerminalWave, BeginConverge, EndConverge, driver
  <2>2. \A n \in Nodes : task[n] # "none" => task'[n] # "none"
    <3>1. CASE CommitTerminalWave
      BY <1>0, <3>1, WaveEffects DEF Ends
    <3>2. CASE ~CommitTerminalWave
      BY <1>2, <3>2 DEF SharedStep, AdvanceNode, BeginConverge, EndConverge
    <3>. QED  BY <3>1, <3>2
  <2>. QED  BY <1>a, <2>1, <2>2
<1>3. CASE CommandStep
  BY <1>0, <1>3 DEF CommandStep, CommandEnter, CommandApply
<1>4. CASE \E n \in Nodes : TaskStep(n)
  <2>1. PICK n \in Nodes : TaskStep(n)
    BY <1>4
  <2>2. UNCHANGED <<pump, snap, verdict>> /\ \A m \in Nodes \ {n} : task'[m] = task[m]
    BY <1>0, <2>1, TaskLocal
  <2>3. task'[n] # "none"
    BY <1>0, <2>1 DEF TaskStep, TaskStart, TaskSuperseded, TaskSoloStart, TaskSoloEnter, TaskGate, TaskPoll,
       TaskAnswer, TaskReceipt, TaskFinish, TaskCommit, TaskCleanup, TaskDrop, TaskFail, Goto, IInv, TypeOK,
       TaskTypeOK
  <2>. QED  BY <1>a, <2>2, <2>3
<1>5. CASE \E k \in Commands : UserInstall(k) \/ UserCommand(k)
  BY <1>a, <1>5 DEF UserInstall, UserCommand, driver
<1>6. CASE Crash
  BY <1>6 DEF Crash, EndDriver, Keeps, InWave
<1>7. CASE Recover \/ UNCHANGED vars
  BY <1>a, <1>7 DEF Recover, vars, driver
<1>. QED  BY <1>2, <1>3, <1>4, <1>5, <1>6, <1>7, PumpKeepsUp DEF Next

\* No driver of such a graph ends with an error: whenever it has no task left
\* and nothing to start, every node is over or one waits, although reports were
\* committed and dependencies advanced between its snapshot and its look at the
\* tasks.
THEOREM GraphDriverKeepsUp ==
    ASSUME Undisturbed, NothingFatal, Acyclic, HasSlots PROVE Spec => []DriverKeepsUp
<1>1. Init => Keeps
  BY DEF Init, Keeps, InWave
<1>2. OInv /\ Calm /\ Legal /\ Owned /\ Keeps /\ [Next]_vars => Keeps'
  BY StepKeepsUp
<1>3. Keeps => DriverKeepsUp
  BY DEF Keeps, DriverKeepsUp
<1>. QED  BY <1>1, <1>2, <1>3, GraphCustody, GraphCalm, GraphOwned, PTL DEF Spec

-----------------------------------------------------------------------------
(***************************************************************************)
(* The pump cancels the tail of decided groups only                        *)
(***************************************************************************)
Live == {"Ready", "Running"} \cup Waiting

\* n is optional work of a group that has what it asked for.
Decided(n) == \E m \in Nodes : n \in Tail[m] \cap Preds[m] /\ DependencyMet(m)

\* The pump's list and the node it is about to cancel are such work, however
\* long ago the list was made; a list is made of the predecessors of nodes that
\* are ready, and those were released.
TailIsDecided ==
    /\ \A n \in tail : Decided(n)
    /\ pump \in {"loaded", "cancel"} => Decided(victim)
    /\ \A n \in Nodes : status[n] \in Live => DependencyMet(n)

\* A dependency that was met stays so: completions are not taken back.
LEMMA MetStays ==
    ASSUME IInv, [Next]_vars, NEW n \in Nodes, DependencyMet(n)
    PROVE  DependencyMet(n)'
<1>1. Preds[n] \subseteq Nodes /\ IsFiniteSet(Preds[n])
  BY ConstantsAssumption, PredecessorSets
<1>2. \A p \in Preds[n] : IsTerminal(VerifiedStatus(n, p)) => VerifiedStatus(n, p)' = VerifiedStatus(n, p)
  BY <1>1, OverStays DEF VerifiedStatus, IsTerminal, Terminal
<1>3. Satisfied(n) \subseteq Satisfied(n)' /\ Satisfied(n)' \subseteq Preds[n]
  BY <1>2 DEF Satisfied, IsTerminal, Terminal
<1>4. /\ Cardinality(Satisfied(n)) \in Nat /\ Cardinality(Satisfied(n)') \in Nat
      /\ Cardinality(Satisfied(n)) <= Cardinality(Satisfied(n)')
  BY <1>1, <1>3, FS_Subset, FS_CardinalityType
<1>5. Required(n) \in Nat
  BY <1>1, FS_CardinalityType, ConstantsAssumption DEF Required
<1>6. CASE Policy[n].mode = "Finally"
  BY <1>2, <1>6 DEF DependencyMet
<1>7. CASE Policy[n].mode # "Finally"
  <2>1. Cardinality(Satisfied(n)) >= Required(n)
    BY <1>7 DEF DependencyMet
  <2>2. Cardinality(Satisfied(n)') >= Required(n)
    BY <1>4, <1>5, <2>1
  <2>. QED  BY <1>7, <2>2 DEF DependencyMet
<1>. QED  BY <1>6, <1>7

\* What the contract calls released has its dependency met.
LEMMA ReleasedIsMet ==
    ASSUME NEW n \in Nodes, Lifecycle!Released(n)
    PROVE  DependencyMet(n)
<1>1. Satisfied(n) = Lifecycle!Standing(n) /\ Satisfied(n) \subseteq Preds[n] /\ IsFiniteSet(Preds[n])
  BY PredecessorSets
<1>2. IsFiniteSet(Satisfied(n)) /\ Cardinality(Satisfied(n)) \in Nat /\ Cardinality(Preds[n]) \in Nat
  BY <1>1, FS_Subset, FS_CardinalityType
<1>3. CASE Policy[n].mode = "All"
  <2>1. Satisfied(n) = Preds[n]
    BY <1>1, <1>3 DEF Lifecycle!Released
  <2>. QED  BY <1>2, <1>3, <2>1 DEF DependencyMet, Required
<1>4. CASE Policy[n].mode = "Any"
  <2>1. Satisfied(n) # {}
    BY <1>1, <1>4 DEF Lifecycle!Released
  <2>2. Cardinality(Satisfied(n)) >= 1
    BY <1>2, <2>1, FS_EmptySet
  <2>. QED  BY <1>4, <2>2 DEF DependencyMet, Required
<1>5. CASE Policy[n].mode = "Quorum"
  <2>1. Lifecycle!Cardinality(Lifecycle!Standing(n)) >= Policy[n].minimum
    BY <1>5, Zenon DEF Lifecycle!Released
  <2>2. Cardinality(Satisfied(n)) >= Policy[n].minimum
    BY <1>1, <2>1, SameCardinality, Zenon
  <2>. QED  BY <1>5, <2>2 DEF DependencyMet, Required
<1>6. CASE Policy[n].mode = "Finally"
  BY <1>6 DEF DependencyMet, Lifecycle!Released, VerifiedStatus, IsTerminal, Terminal, Lifecycle!Terminal
<1>. QED  BY <1>3, <1>4, <1>5, <1>6, ConstantsAssumption

\* A live node was released, and still is.
LEMMA LiveIsMet ==
    ASSUME IInv, [Next]_vars, \A n \in Nodes : status[n] \in Live => DependencyMet(n)
    PROVE  \A n \in Nodes : status'[n] \in Live => DependencyMet(n)'
<1>. SUFFICES ASSUME NEW n \in Nodes, status'[n] \in Live PROVE DependencyMet(n)
  BY MetStays
<1>0. status[n] \in Live \/ status[n] = "Planned"
  BY OverStays DEF IInv, TypeOK, DurableTypeOK, Statuses, Live, IsTerminal, Terminal, Waiting
<1>1. status' = status \/ Lifecycle!Next
  BY StepInv, StepRefines
<1>2. CASE status[n] = "Planned"
  <2>1. Lifecycle!Released(n)
    <3>1. CASE Lifecycle!Work
      BY <1>2, <3>1 DEF Lifecycle!Work, Lifecycle!LegalTransition, Lifecycle!Waiting, Live, Waiting
    <3>2. CASE Lifecycle!Recovery \/ (\E m \in Nodes : Lifecycle!Resolve(m)) \/ status' = status
      BY <1>2, <3>2 DEF Lifecycle!Recovery, Lifecycle!Resolve, IInv, TypeOK, DurableTypeOK, Live, Waiting
    <3>. QED  BY <1>1, <3>1, <3>2 DEF Lifecycle!Next
  <2>. QED  BY <2>1, ReleasedIsMet
<1>. QED  BY <1>0, <1>2

\* The pump's list and its victim come from an advance that is over.
LEMMA TailMoves ==
    ASSUME OInv, [Next]_vars
    PROVE  /\ tail' \subseteq tail \/ tail' = QuorumTailCancellations
           /\ pump' \in {"loaded", "cancel"} =>
                 \/ pump \in {"loaded", "cancel"} /\ victim' = victim
                 \/ victim' \in tail
<1>1. CASE PumpStep
  BY <1>1 DEF PumpStep, Dispatch, PumpBeginAdvance, PumpEndAdvance, PumpLoadVictim, PumpInstall,
     PumpInstallRefused, PumpWave, PumpWaveSuperseded, PumpAdmit, PumpSettle, PumpNotified, PumpJoin,
     PumpJoinFatal, EndDriver
<1>2. CASE SharedStep
  BY <1>2 DEF SharedStep, AdvanceNode, CommitTerminalWave, BeginConverge, EndConverge, driver
<1>3. CASE CommandStep
  BY <1>3 DEF CommandStep, CommandEnter, CommandApply, EndCommand, EndDriver, driver
<1>4. CASE \E n \in Nodes : TaskStep(n)
  BY <1>4, TaskLocal DEF OInv
<1>5. CASE \E k \in Commands : UserInstall(k) \/ UserCommand(k)
  BY <1>5 DEF UserInstall, UserCommand, driver
<1>6. CASE Crash \/ Recover \/ UNCHANGED vars
  BY <1>6 DEF Crash, Recover, vars, driver, EndDriver
<1>. QED  BY <1>1, <1>2, <1>3, <1>4, <1>5, <1>6 DEF Next

\* Every step.
LEMMA StepTail == OInv /\ TailIsDecided /\ [Next]_vars => TailIsDecided'
<1>. SUFFICES ASSUME OInv, TailIsDecided, [Next]_vars PROVE TailIsDecided'
  OBVIOUS
<1>0. IInv
  BY DEF OInv
<1>1. \A n : Decided(n) => Decided(n)'
  BY <1>0, MetStays DEF Decided
<1>2. \A n \in QuorumTailCancellations : Decided(n)
  BY DEF QuorumTailCancellations, TailIsDecided, Decided, Live
<1>3. \A n \in Nodes : status'[n] \in Live => DependencyMet(n)'
  BY <1>0, LiveIsMet DEF TailIsDecided
<1>4. /\ \A n \in tail' : Decided(n)
      /\ pump' \in {"loaded", "cancel"} => Decided(victim')
  BY <1>2, TailMoves DEF TailIsDecided
<1>5. pump' \in {"loaded", "cancel"} => Decided(victim)'
  BY <1>1, <1>4 DEF Decided
<1>6. \A n \in tail' : Decided(n)'
  BY <1>1, <1>4
<1>. QED  BY <1>3, <1>5, <1>6 DEF TailIsDecided

\* While the pump's command is under way, nobody but it cancels a node.
LEMMA OnlyVictimIsCancelled ==
    ASSUME OInv, [Next]_vars, cmd.by = "pump", NEW n \in Nodes,
           status[n] # "Cancelled", status'[n] = "Cancelled"
    PROVE  n = victim /\ pump = "cancel"
<1>0. /\ pump = "cancel" /\ cmd.kind = "CancelNode" /\ Intent /\ alive
      /\ status \in [Nodes -> Statuses]
  BY DEF OInv, Together, IInv, TypeOK, DurableTypeOK, Intent, NoCommand
<1>1. CASE PumpStep
  BY <1>0, <1>1 DEF PumpStep, Dispatch, PumpBeginAdvance, PumpEndAdvance, PumpLoadVictim, PumpInstall,
     PumpInstallRefused, PumpWave, PumpWaveSuperseded, PumpAdmit, PumpSettle, PumpNotified, PumpJoin,
     PumpJoinFatal
<1>2. CASE SharedStep
  BY <1>0, <1>2 DEF SharedStep, AdvanceNode, CommitTerminalWave, BeginConverge, EndConverge, Commit,
     DependencyTarget, CoordWithoutCommand, durable
<1>3. CASE CommandStep
  <2>1. status' = status \/ status' = [m \in Nodes |-> CommandStatus(m)]
    BY <1>3 DEF CommandStep, CommandEnter, CommandApply, Commit, NoCommit, durable
  <2>2. status'[n] = CommandStatus(n)
    BY <2>1, Zenon
  <2>. QED  BY <1>0, <2>2 DEF CommandStatus
<1>4. CASE \E m \in Nodes : TaskStep(m)
  <2>1. PICK m \in Nodes : TaskStep(m)
    BY <1>4
  <2>2. status' = status
    BY <1>0, <2>1 DEF TaskStep, TaskStart, TaskSuperseded, TaskSoloStart, TaskSoloEnter, TaskGate, TaskPoll,
       TaskAnswer, TaskReceipt, TaskFinish, TaskCommit, TaskCleanup, TaskDrop, TaskFail, CoordWithoutCommand,
       NoCommit, durable
  <2>. QED  BY <2>2
<1>5. CASE \E k \in Commands : UserInstall(k) \/ UserCommand(k)
  BY <1>0, <1>5 DEF UserInstall, UserCommand, CoordWithoutCommand, durable
<1>6. CASE Crash \/ Recover \/ UNCHANGED vars
  BY <1>0, <1>6 DEF Crash, Recover, vars, durable
<1>. QED  BY <1>1, <1>2, <1>3, <1>4, <1>5, <1>6 DEF Next

\* The pump lists the tail in one critical section and cancels it, node by node,
\* in others: whatever is committed in between, and however many groups share
\* the node, it ends only work of a group that is decided when it ends it.
THEOREM GraphTailAfterQuorum == Spec => TailAfterQuorum
<1>1. Init => TailIsDecided
  BY DEF Init, TailIsDecided, Live, Waiting
<1>2. OInv /\ TailIsDecided /\ [Next]_vars => TailIsDecided'
  BY StepTail
<1>3. OInv /\ TailIsDecided /\ [Next]_vars =>
        [cmd.by = "pump" =>
            \A n \in Nodes :
               status[n] # "Cancelled" /\ status'[n] = "Cancelled" =>
                   \E m \in Nodes : n \in Tail[m] \cap Preds[m] /\ DependencyMet(m)]_vars
  BY OnlyVictimIsCancelled DEF TailIsDecided, Decided
<1>. QED  BY <1>1, <1>2, <1>3, GraphCustody, PTL DEF Spec, TailAfterQuorum
=============================================================================
