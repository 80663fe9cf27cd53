--------------------------- MODULE ExecutionGraph ---------------------------
(***************************************************************************)
(* The life of one execution graph: the completion pump of its driver, one *)
(* task per node it has spawned, the graph commands of users and of the    *)
(* pump itself, process death and start-up recovery.  Node states, attempt *)
(* counters and effect records are durable, everything else is in memory.  *)
(*                                                                         *)
(* Source: crates/runtime/src/execution_core/graph/runner.rs,              *)
(* commit_service.rs, recovery.rs; execution_core/supervisor.rs;           *)
(* crates/harness-contract/src/execution_graph/state.rs                    *)
(***************************************************************************)
EXTENDS Integers, FiniteSets

CONSTANTS
    Nodes,        \* the nodes of the graph
    Preds,        \* the predecessors of a node along DependsOn edges
    Policy,       \* its ExecutionDependencyPolicy
    Unverified,   \* predecessors whose result lacks evidence the node requires
    Tail,         \* optional predecessors of its cancellation group, if the
                  \* policy says cancel_remaining
    Keying,       \* what its effect key names: "node", "attempt", "leaf"
    Presenting,   \* nodes whose Completed outcome carries a presentation
    Conflicts,    \* nodes whose resources exclude the node's
    Outcomes,     \* what its executor may answer
    Resumable,    \* nodes whose executor supports a resumable pause
    Deadlined,    \* nodes whose deadline may pass at any moment
    Faults,       \* which of the node-local faults below may happen
    Commands,     \* commands users may send
    MaxActive,    \* max_active_nodes_per_graph
    MaxCommands,  \* bound: commands sent by users
    MaxCrashes,   \* bound: process deaths
    NoNode

Terminal == {"Completed", "Failed", "Blocked", "Cancelled"}
Waiting  == {"WaitingInput", "WaitingApproval", "WaitingExternal", "Paused"}
Statuses == {"Planned", "Ready", "Running"} \cup Terminal \cup Waiting

\* What validate_outcome lets an executor answer.
LegalOutcomes == Terminal \cup (Waiting \ {"Paused"})

\* Failures that resolve_pump_result turns into a status: of an admission
\* ("deadline", "resource", "start"), of an executor ("error", "uncertain"),
\* and the panic of a task.
Failures == {"deadline", "resource", "start", "error", "uncertain", "panic"}

ASSUME ConstantsAssumption ==
    /\ IsFiniteSet(Nodes) /\ NoNode \notin Nodes
    /\ Preds \in [Nodes -> SUBSET Nodes]
    /\ Unverified \in [Nodes -> SUBSET Nodes]
    /\ Tail \in [Nodes -> SUBSET Nodes]
    /\ \A n \in Nodes : Policy[n].mode \in {"All", "Any", "Quorum", "Finally"}
    /\ \A n \in Nodes : Policy[n].mode = "Quorum" => Policy[n].minimum \in Nat
    /\ Keying \in [Nodes -> {"node", "attempt", "leaf"}]
    /\ Presenting \subseteq Nodes /\ Resumable \subseteq Nodes /\ Deadlined \subseteq Nodes
    /\ Conflicts \in [Nodes -> SUBSET Nodes]
    /\ Outcomes \in [Nodes -> SUBSET (LegalOutcomes \cup {"error", "panic", "illegal"})]
    /\ Faults \subseteq {"resource", "start", "hook", "cancel", "unavailable"}
    /\ Commands \subseteq {"Pause", "Cancel", "Resume", "Approve", "Deny", "ResolveExternal"}
    /\ MaxActive \in Nat /\ MaxCommands \in Nat /\ MaxCrashes \in Nat

VARIABLES
    status,    \* durable: node_statuses
    attempts,  \* durable: recovery_cursor.node_attempts
    effect,    \* durable: "fresh", "intent" or the outcome in the receipt, of
               \* the effect stream of a node keyed by node
    runs,      \* history: polls of the executor under the node's effect key
    alive,     \* the process runs
    wake,      \* the supervisor has a request to drive the graph
    pump,      \* where the driver's completion pump stands
    snap,      \* pump_snapshot: the ready nodes and whether some node waits
    tail,      \* quorum_tail_cancellations still to do
    victim,    \* the node of the CancelNode the pump is about to issue
    progress,  \* a permit of durable_progress
    task,      \* per node: where the task the pump spawned for it stands
    outcome,   \* per node: what its task has to report
    active,    \* per node: its entry in the runner's active map
    coord,     \* the graph's coordination mutex: "free", "pump" or "task"
    cmd,       \* the command that has published its intent
    fresh,     \* per issuer: its expected revision is the current one
    verdict,   \* how the last driver ended
    issued,    \* commands users have sent
    crashes    \* process deaths

durable == <<status, attempts, effect, runs>>
driver  == <<pump, snap, tail, victim, verdict>>
vars    == <<status, attempts, effect, runs, alive, wake, pump, snap, tail, victim,
             progress, task, outcome, active, coord, cmd, fresh, verdict, issued, crashes>>

PumpPCs == {"off", "snapshot", "advance", "tail", "loaded", "cancel", "resnapshot",
            "readvance", "wave", "wave_wait", "wave_over", "admit", "select"}
TaskPCs == {"none", "start", "superseding", "superseded", "solo", "solo_enter", "gate",
            "gating", "gated", "poll", "solo_poll", "executing", "solo_executing",
            "solo_receipt", "finish", "finishing", "report", "receipt", "commit", "batch",
            "drop", "dropping", "dropped", "fail", "committed", "converging", "cleanup",
            "done", "deferred", "fatal"}
\* An entry made by a wave holds the effect state the wave inspected.
WaveEntries == {"fresh", "replay", "uncertain"}
NoCommand   == [stage |-> "none", kind |-> "none", by |-> "none", targets |-> {}]

IsTerminal(s) == s \in Terminal
Intent        == cmd.stage # "none"

Init ==
    /\ status = [n \in Nodes |-> "Planned"]
    /\ attempts = [n \in Nodes |-> 0]
    /\ effect = [n \in Nodes |-> "fresh"]
    /\ runs = [n \in Nodes |-> 0]
    /\ alive = TRUE /\ wake = TRUE
    /\ pump = "off" /\ snap = [ready |-> {}, waiting |-> FALSE]
    /\ tail = {} /\ victim = NoNode /\ progress = FALSE
    /\ task = [n \in Nodes |-> "none"]
    /\ outcome = [n \in Nodes |-> "none"]
    /\ active = [n \in Nodes |-> "no"]
    /\ coord = "free" /\ cmd = NoCommand
    /\ fresh = [b \in {"user", "pump"} |-> FALSE]
    /\ verdict = "none" /\ issued = 0 /\ crashes = 0

-----------------------------------------------------------------------------
(***************************************************************************)
(* Dependencies                                                            *)
(***************************************************************************)

\* Variant: a completion counts without the evidence it was to bring.
EvidenceIgnored(n, p) == status[p]

VerifiedStatus(n, p) ==
    IF status[p] = "Completed" /\ p \in Unverified[n] THEN "Failed" ELSE status[p]

Satisfied(n) == {p \in Preds[n] : VerifiedStatus(n, p) = "Completed"}
Possible(n)  == {p \in Preds[n] : VerifiedStatus(n, p) = "Completed"
                                    \/ ~IsTerminal(VerifiedStatus(n, p))}

Required(n) ==
    CASE Policy[n].mode = "Any"    -> 1
      [] Policy[n].mode = "Quorum" -> Policy[n].minimum
      [] OTHER                     -> Cardinality(Preds[n])

\* Variant: Finally is taken for All.
FinallyNeedsSuccess(n) == Cardinality(Satisfied(n)) >= Required(n)

DependencyMet(n) ==
    IF Policy[n].mode = "Finally"
      THEN \A p \in Preds[n] : IsTerminal(VerifiedStatus(n, p))
      ELSE Cardinality(Satisfied(n)) >= Required(n)

\* Variant: a node waits for ever for what can no longer come.
NeverLost(n) == FALSE

DependencyLost(n) ==
    Policy[n].mode # "Finally" /\ Cardinality(Possible(n)) < Required(n)

\* dependency_target: the status a planned node moves to, or "Planned".
DependencyTarget(n) ==
    IF DependencyMet(n) THEN "Ready" ELSE IF DependencyLost(n) THEN "Blocked" ELSE "Planned"

\* Variant: the tail goes while the group is still undecided.
EagerTail ==
    {p \in Nodes : ~IsTerminal(status[p]) /\ \E n \in Nodes : p \in Tail[n] \cap Preds[n]}

QuorumTailCancellations ==
    {p \in Nodes : ~IsTerminal(status[p])
                     /\ \E n \in Nodes : status[n] = "Ready" /\ p \in Tail[n] \cap Preds[n]}

-----------------------------------------------------------------------------
(***************************************************************************)
(* Commits.  Every graph commit is one new revision: a command that was    *)
(* issued against an older one is stale.                                   *)
(***************************************************************************)

Commit(s) == status' = s /\ fresh' = [b \in {"user", "pump"} |-> FALSE]
NoCommit  == UNCHANGED <<status, fresh>>

\* graph_coordination_without_command.
CoordWithoutCommand == coord = "free" /\ ~Intent

\* Variant: an intent without a receipt is taken for an effect not yet begun.
EffectStateOptimistic(n) ==
    IF Keying[n] = "node" /\ effect[n] \notin {"fresh", "intent"} THEN "replay" ELSE "fresh"

\* inspect_execution_effect.  A key that names the attempt is new in every
\* attempt, and a leaf has no effect stream of its own.
EffectState(n) ==
    CASE Keying[n] # "node"     -> "fresh"
      [] effect[n] = "fresh"    -> "fresh"
      [] effect[n] = "intent"   -> "uncertain"
      [] OTHER                  -> "replay"

RecordIntents(W) ==
    effect' = [n \in Nodes |-> IF n \in W /\ Keying[n] = "node" THEN "intent" ELSE effect[n]]

\* Variant: nothing is recorded when the outcome is committed.
NoReceipts(W) == UNCHANGED effect

\* The receipts of the nodes in W, each with the outcome its task reports.
RecordReceipts(W) ==
    effect' = [n \in Nodes |-> IF n \in W /\ Keying[n] = "node" THEN outcome[n] ELSE effect[n]]

-----------------------------------------------------------------------------
(***************************************************************************)
(* The driver                                                              *)
(***************************************************************************)

\* Variant: a request while a driver is active is taken as served.
DispatchForgets ==
    /\ alive /\ wake
    /\ wake' = FALSE
    /\ IF pump = "off" THEN pump' = "snapshot" /\ progress' = FALSE ELSE UNCHANGED <<pump, progress>>
    /\ UNCHANGED <<durable, alive, snap, tail, victim, task, outcome, active, coord, cmd,
                   fresh, verdict, issued, crashes>>

\* dispatch_loop: a request while a driver is active waits for its end.
Dispatch ==
    /\ alive /\ wake /\ pump = "off"
    /\ wake' = FALSE /\ pump' = "snapshot" /\ progress' = FALSE
    /\ UNCHANGED <<durable, alive, snap, tail, victim, task, outcome, active, coord, cmd,
                   fresh, verdict, issued, crashes>>

\* advance_dependencies takes the mutex and keeps it over its commits.
PumpBeginAdvance ==
    /\ pump \in {"snapshot", "resnapshot"} /\ CoordWithoutCommand
    /\ coord' = "pump"
    /\ pump' = IF pump = "snapshot" THEN "advance" ELSE "readvance"
    /\ UNCHANGED <<durable, alive, wake, snap, tail, victim, progress, task, outcome, active,
                   cmd, fresh, verdict, issued, crashes>>

\* One commit of advance_dependencies, of the pump or of a converging task.
AdvanceNode(n) ==
    /\ coord # "free"
    /\ status[n] = "Planned" /\ DependencyTarget(n) # "Planned"
    /\ Commit([status EXCEPT ![n] = DependencyTarget(n)])
    /\ UNCHANGED <<attempts, effect, runs, alive, wake, driver, progress, task, outcome, active,
                   coord, cmd, issued, crashes>>

Advanced == \A n \in Nodes : status[n] = "Planned" => DependencyTarget(n) = "Planned"

PumpEndAdvance ==
    /\ coord = "pump" /\ Advanced
    /\ coord' = "free"
    /\ \/ /\ pump = "advance"
          /\ pump' = "tail" /\ tail' = QuorumTailCancellations
          /\ UNCHANGED snap
       \/ /\ pump = "readvance"
          /\ pump' = "wave"
          /\ snap' = [ready   |-> {n \in Nodes : status[n] = "Ready" /\ task[n] = "none"},
                      waiting |-> \E n \in Nodes : status[n] \in Waiting]
          /\ UNCHANGED tail
    /\ UNCHANGED <<durable, alive, wake, victim, progress, task, outcome, active, cmd, fresh,
                   verdict, issued, crashes>>

\* The pump reads the revision it will expect, or skips a terminal node.
PumpLoadVictim ==
    /\ pump = "tail"
    /\ \/ /\ tail = {} /\ pump' = "resnapshot"
          /\ UNCHANGED <<tail, victim, fresh>>
       \/ \E n \in tail :
            /\ tail' = tail \ {n}
            /\ IF IsTerminal(status[n])
                 THEN UNCHANGED <<pump, victim, fresh>>
                 ELSE /\ pump' = "loaded" /\ victim' = n
                      /\ fresh' = [fresh EXCEPT !["pump"] = TRUE]
    /\ UNCHANGED <<durable, alive, wake, snap, progress, task, outcome, active, coord, cmd,
                   verdict, issued, crashes>>

\* CommandIntentOwner::install for the pump's CancelNode.
PumpInstall ==
    /\ pump = "loaded" /\ ~Intent
    /\ cmd' = [stage |-> "installed", kind |-> "CancelNode", by |-> "pump", targets |-> {}]
    /\ pump' = "cancel"
    /\ UNCHANGED <<durable, alive, wake, snap, tail, victim, progress, task, outcome, active,
                   coord, fresh, verdict, issued, crashes>>

\* run_completion_pump returns: the tasks are aborted where they stand; the
\* active map is not cleaned.
EndDriver(v) ==
    /\ pump' = "off" /\ verdict' = v
    /\ task' = [n \in Nodes |-> "none"] /\ outcome' = [n \in Nodes |-> "none"]
    /\ tail' = {} /\ victim' = NoNode /\ snap' = [ready |-> {}, waiting |-> FALSE]
    /\ coord' = "free"

\* The user's command is in flight: the pump's is refused, and with it the
\* snapshot and the driver.
PumpInstallRefused ==
    /\ pump = "loaded" /\ Intent
    /\ EndDriver("failed")
    /\ UNCHANGED <<durable, alive, wake, progress, active, cmd, fresh, issued, crashes>>

\* prepare_ready_wave: with no node it returns, with an intent it waits and
\* gives the wave up, else it goes for the mutex without looking again.
PumpWave ==
    /\ pump = "wave"
    /\ pump' = IF snap.ready = {} THEN "select" ELSE IF Intent THEN "wave_wait" ELSE "admit"
    /\ UNCHANGED <<durable, alive, wake, snap, tail, victim, progress, task, outcome, active,
                   coord, cmd, fresh, verdict, issued, crashes>>

Smaller(a, b) == IF a <= b THEN a ELSE b

\* The first nodes of the snapshot, as many as the graph may still run.
Batches ==
    {W \in SUBSET snap.ready :
        Cardinality(W) = Smaller(Cardinality(snap.ready),
                             MaxActive - Cardinality({n \in Nodes : task[n] # "none"}))}

PumpWaveSuperseded ==
    /\ pump = "wave_over"
    /\ \E W \in Batches : task' = [n \in Nodes |-> IF n \in W THEN "superseded" ELSE task[n]]
    /\ pump' = "select"
    /\ UNCHANGED <<durable, alive, wake, snap, tail, victim, progress, outcome, active, coord,
                   cmd, fresh, verdict, issued, crashes>>

Deferred(n) == \E m \in Conflicts[n] : active[m] # "no"

\* What the admission of a node may come to; acquiring its resources does not
\* wait, so a conflict with an active node defers it.
StartResults(n) ==
    (IF Deferred(n) THEN {"deferred"} ELSE {"ok"} \cup (Faults \cap {"start"}))
      \cup (Faults \cap {"resource"})
      \cup (IF n \in Deadlined THEN {"deadline"} ELSE {})

\* Variant: the nodes of a wave are admitted without regard to each other.
AdmittedTogether(r) == TRUE

\* Of two conflicting nodes of a wave only the first gets its resources.
AdmissionExclusive(r) ==
    \A n, m \in DOMAIN r : n # m /\ r[n] = "ok" /\ r[m] = "ok" => m \notin Conflicts[n]

\* The admitted nodes start in one commit, together with their effect intents;
\* the others of the batch get a task that only reports what came of them.
Admission(W, r) ==
    LET admitted == {n \in W : r[n] = "ok" /\ status[n] = "Ready"}
        missed   == {n \in W : r[n] = "ok" /\ status[n] # "Ready"}
    IN  /\ IF admitted = {} THEN NoCommit
           ELSE Commit([n \in Nodes |-> IF n \in admitted THEN "Running" ELSE status[n]])
        /\ attempts' = [n \in Nodes |-> IF n \in admitted THEN attempts[n] + 1 ELSE attempts[n]]
        /\ RecordIntents({n \in admitted : EffectState(n) = "fresh"})
        /\ active' = [n \in Nodes |-> IF n \in admitted THEN EffectState(n) ELSE active[n]]
        /\ task' = [n \in Nodes |->
                CASE n \in admitted -> "start"
                  [] n \in missed -> "superseded"
                  [] n \in W /\ r[n] = "deferred" -> "deferred"
                  [] n \in W /\ r[n] \in Failures -> "fail"
                  [] OTHER -> task[n]]
        /\ outcome' = [n \in Nodes |-> IF n \in W /\ r[n] \in Failures THEN r[n] ELSE outcome[n]]

\* prepare_ready_wave, once it has the mutex.
PumpAdmit ==
    /\ pump = "admit" /\ coord = "free"
    /\ \E W \in Batches : \E r \in [W -> {"ok", "deferred"} \cup Failures] :
         /\ \A n \in W : r[n] \in StartResults(n) \cup
                (IF \E m \in W \cap Conflicts[n] : r[m] = "ok" THEN {"deferred"} ELSE {})
         /\ AdmissionExclusive(r)
         /\ Admission(W, r)
    /\ pump' = "select"
    /\ UNCHANGED <<runs, alive, wake, snap, tail, victim, progress, coord, cmd, verdict, issued,
                   crashes>>

NoTasks == \A n \in Nodes : task[n] = "none"

\* Nothing runs: the driver ends.
PumpSettle ==
    /\ pump = "select" /\ NoTasks
    /\ EndDriver(IF (\A n \in Nodes : IsTerminal(status[n])) \/ snap.waiting
                   THEN "completed" ELSE "failed")
    /\ UNCHANGED <<durable, alive, wake, progress, active, cmd, fresh, issued, crashes>>

PumpNotified ==
    /\ pump = "select" /\ ~NoTasks /\ progress
    /\ progress' = FALSE /\ pump' = "snapshot"
    /\ UNCHANGED <<durable, alive, wake, snap, tail, victim, task, outcome, active, coord, cmd,
                   fresh, verdict, issued, crashes>>

\* Some of the tasks that have ended are joined.
PumpJoin ==
    /\ pump = "select"
    /\ \E J \in SUBSET {n \in Nodes : task[n] \in {"done", "deferred"}} :
         /\ J # {}
         /\ task' = [n \in Nodes |-> IF n \in J THEN "none" ELSE task[n]]
         /\ outcome' = [n \in Nodes |-> IF n \in J THEN "none" ELSE outcome[n]]
    /\ pump' = "snapshot"
    /\ UNCHANGED <<durable, alive, wake, snap, tail, victim, progress, active, coord, cmd,
                   fresh, verdict, issued, crashes>>

\* An error that is not the node's own fails the driver.
PumpJoinFatal ==
    /\ pump = "select" /\ \E n \in Nodes : task[n] = "fatal"
    /\ EndDriver("failed")
    /\ UNCHANGED <<durable, alive, wake, progress, active, cmd, fresh, issued, crashes>>

-----------------------------------------------------------------------------
(***************************************************************************)
(* A node's task, up to the executor's answer: start_and_execute_node      *)
(***************************************************************************)
Goto(n, pc)   == task' = [task EXCEPT ![n] = pc]
Report(n, o)  == outcome' = [outcome EXCEPT ![n] = o]
DropEntry(n)  == active' = [active EXCEPT ![n] = "no"]

\* The deadline and the first look at the command intent.
TaskStart(n) ==
    /\ task[n] = "start"
    /\ \/ n \in Deadlined /\ Goto(n, "fail") /\ Report(n, "deadline")
       \/ /\ Goto(n, IF Intent THEN "superseding" ELSE IF active[n] # "no" THEN "gate" ELSE "solo")
          /\ UNCHANGED outcome
    /\ UNCHANGED <<durable, alive, wake, driver, progress, active, coord, cmd, fresh, issued, crashes>>

\* The result CommandSuperseded: the entry goes, the node keeps its status.
TaskSuperseded(n) ==
    /\ task[n] = "superseded"
    /\ DropEntry(n) /\ Goto(n, "done")
    /\ UNCHANGED <<durable, alive, wake, driver, progress, outcome, coord, cmd, fresh, issued, crashes>>

\* How the admission of a node on its own may fail.
SoloFailures(n) ==
    (Faults \cap {"resource"}) \cup (IF n \in Deadlined THEN {"deadline"} ELSE {})
      \cup (IF status[n] = "Ready" /\ CoordWithoutCommand THEN Faults \cap {"start"} ELSE {})

\* A command has taken the entry away: the node is started on its own, if it
\* is Ready again, and waits for its resources.
TaskSoloStart(n) ==
    /\ task[n] = "solo"
    /\ \/ /\ CoordWithoutCommand /\ ~Deferred(n)
          /\ status[n] # "Ready" /\ Goto(n, "done")
          /\ NoCommit /\ UNCHANGED <<attempts, active, outcome>>
       \/ /\ CoordWithoutCommand /\ ~Deferred(n)
          /\ status[n] = "Ready" /\ Goto(n, "solo_enter")
          /\ active' = [active EXCEPT ![n] = "solo"]
          /\ Commit([status EXCEPT ![n] = "Running"])
          /\ attempts' = [attempts EXCEPT ![n] = @ + 1]
          /\ UNCHANGED outcome
       \/ \E f \in SoloFailures(n) :
            /\ Report(n, f) /\ Goto(n, "fail")
            /\ NoCommit /\ UNCHANGED <<attempts, active>>
    /\ UNCHANGED <<effect, runs, alive, wake, driver, progress, coord, cmd, issued, crashes>>

\* A node started on its own commits its effect intent by itself.
TaskSoloEnter(n) ==
    /\ task[n] = "solo_enter" /\ CoordWithoutCommand
    /\ \/ /\ status[n] # "Running"
          /\ DropEntry(n) /\ Report(n, "Cancelled") /\ Goto(n, "finish")
          /\ UNCHANGED effect
       \/ /\ status[n] = "Running" /\ EffectState(n) = "fresh"
          /\ RecordIntents({n}) /\ Goto(n, "solo_poll")
          /\ UNCHANGED <<active, outcome>>
       \/ /\ status[n] = "Running" /\ EffectState(n) = "replay"
          /\ Report(n, effect[n]) /\ Goto(n, "finish")
          /\ UNCHANGED <<effect, active>>
       \/ /\ status[n] = "Running" /\ EffectState(n) = "uncertain"
          /\ Report(n, "uncertain") /\ Goto(n, "drop")
          /\ UNCHANGED <<effect, active>>
    /\ UNCHANGED <<status, attempts, runs, alive, wake, driver, progress, coord, cmd, fresh,
                   issued, crashes>>

\* The second look at the intent, and whether the wave's entry is still there.
\* A receipt is replayed and an intent without one is not retried.
TaskGate(n) ==
    /\ task[n] \in {"gate", "gated"}
    /\ \/ /\ task[n] = "gate" /\ Intent /\ Goto(n, "gating")
          /\ UNCHANGED outcome
       \/ /\ task[n] = "gated" \/ ~Intent
          /\ CASE active[n] = "fresh"     -> Goto(n, "poll") /\ UNCHANGED outcome
               [] active[n] = "replay"    -> Goto(n, "finish") /\ Report(n, effect[n])
               [] active[n] = "uncertain" -> Goto(n, "drop") /\ Report(n, "uncertain")
               [] OTHER                   -> Goto(n, "superseded") /\ UNCHANGED outcome
    /\ UNCHANGED <<durable, alive, wake, driver, progress, active, coord, cmd, fresh, issued, crashes>>

\* poll_or_await begins: from here on the effect may have happened.
TaskPoll(n) ==
    /\ task[n] \in {"poll", "solo_poll"}
    /\ Goto(n, IF task[n] = "poll" THEN "executing" ELSE "solo_executing")
    /\ runs' = [runs EXCEPT ![n] = @ + 1]
    /\ UNCHANGED <<status, attempts, effect, alive, wake, driver, progress, outcome, active,
                   coord, cmd, fresh, issued, crashes>>

\* The executor answers, panics, or the deadline passes.
TaskAnswer(n) ==
    /\ task[n] \in {"executing", "solo_executing"}
    /\ \E o \in Outcomes[n] \cup (IF n \in Deadlined THEN {"Cancelled"} ELSE {}) :
         /\ Report(n, o)
         /\ Goto(n, CASE o = "panic" -> "fail"
                      [] o = "error" -> "drop"
                      [] OTHER -> IF task[n] = "executing" THEN "finish" ELSE "solo_receipt")
    /\ UNCHANGED <<durable, alive, wake, driver, progress, active, coord, cmd, fresh, issued, crashes>>

\* commit_execution_effect, of a node on its own or before a single commit.
TaskReceipt(n) ==
    /\ task[n] \in {"solo_receipt", "receipt"}
    /\ RecordReceipts({n})
    /\ Goto(n, IF task[n] = "solo_receipt" THEN "finish" ELSE "commit")
    /\ UNCHANGED <<status, attempts, runs, alive, wake, driver, progress, outcome, active,
                   coord, cmd, fresh, issued, crashes>>

-----------------------------------------------------------------------------
(***************************************************************************)
(* The end of a node's task: finish_pump_node and resolve_pump_result      *)
(***************************************************************************)
Batchable(n) ==
    active[n] \in WaveEntries /\ ~(n \in Presenting /\ outcome[n] = "Completed")

\* Variant: without validate_outcome.
TaskFinishUnvalidated(n) ==
    /\ task[n] \in {"finish", "report"}
    /\ Goto(n, IF task[n] = "finish" /\ Intent THEN "finishing"
                ELSE IF Batchable(n) THEN "batch" ELSE "commit")
    /\ UNCHANGED <<durable, alive, wake, driver, progress, outcome, active, coord, cmd, fresh,
                   issued, crashes>>

\* The third look at the intent, and the way the outcome will be committed.
TaskFinish(n) ==
    /\ task[n] \in {"finish", "report"}
    /\ \/ /\ task[n] = "finish" /\ outcome[n] = "illegal"
          /\ DropEntry(n) /\ Goto(n, "fatal")
       \/ /\ task[n] = "finish" /\ outcome[n] # "illegal" /\ Intent
          /\ Goto(n, "finishing") /\ UNCHANGED active
       \/ /\ outcome[n] # "illegal" /\ (task[n] = "report" \/ ~Intent)
          /\ Goto(n, CASE Batchable(n) -> "batch"
                       [] ~Batchable(n) /\ active[n] = "fresh" /\ Keying[n] # "leaf" -> "receipt"
                       [] OTHER -> "commit")
          /\ UNCHANGED active
    /\ UNCHANGED <<durable, alive, wake, driver, progress, outcome, coord, cmd, fresh, issued, crashes>>

\* commit_terminal_wave: the tasks its leader has gathered commit as one
\* revision, with their receipts; a node that no longer runs is superseded,
\* and a failure of its after_abort fails the driver.  Any set of the waiting
\* tasks may be a wave; the choice of its leader and the leader's hand-over to
\* the others are not in the model.
CommitTerminalWave ==
    /\ CoordWithoutCommand
    /\ \E W \in SUBSET {n \in Nodes : task[n] = "batch"} :
         LET admitted == {n \in W : status[n] = "Running"}
         IN  /\ W # {}
             /\ IF admitted = {} THEN NoCommit
                ELSE Commit([n \in Nodes |-> IF n \in admitted THEN outcome[n] ELSE status[n]])
             /\ RecordReceipts({n \in admitted : active[n] = "fresh"})
             /\ \E hooked \in (IF "hook" \in Faults THEN SUBSET (W \ admitted) ELSE {{}}) :
                  /\ active' = [n \in Nodes |->
                        IF n \in W \ (admitted \cup hooked) THEN "no" ELSE active[n]]
                  /\ task' = [n \in Nodes |-> CASE n \in admitted -> "committed"
                                                [] n \in hooked -> "fatal"
                                                [] n \in W \ (admitted \cup hooked) -> "done"
                                                [] OTHER -> task[n]]
    /\ UNCHANGED <<attempts, runs, alive, wake, driver, progress, outcome, coord, cmd, issued, crashes>>

\* Variant: a report is committed whatever became of the node meanwhile.
TaskCommitLate(n) ==
    /\ task[n] = "commit" /\ CoordWithoutCommand
    /\ Commit([status EXCEPT ![n] = outcome[n]]) /\ Goto(n, "committed")
    /\ UNCHANGED <<attempts, effect, runs, alive, wake, driver, progress, outcome, active, coord,
                   cmd, issued, crashes>>

TaskCommit(n) ==
    /\ task[n] = "commit" /\ CoordWithoutCommand
    /\ \/ /\ status[n] = "Running"
          /\ Commit([status EXCEPT ![n] = outcome[n]]) /\ Goto(n, "committed")
          /\ UNCHANGED active
       \/ /\ status[n] # "Running"
          /\ DropEntry(n) /\ Goto(n, "done") /\ NoCommit
    /\ UNCHANGED <<attempts, effect, runs, alive, wake, driver, progress, outcome, coord, cmd,
                   issued, crashes>>

\* converge_after_terminal_commit, once for the tasks whose commits it sees.
BeginConverge ==
    /\ CoordWithoutCommand /\ \E n \in Nodes : task[n] = "committed"
    /\ coord' = "task"
    /\ task' = [n \in Nodes |-> IF task[n] = "committed" THEN "converging" ELSE task[n]]
    /\ UNCHANGED <<durable, alive, wake, driver, progress, outcome, active, cmd, fresh, issued, crashes>>

EndConverge ==
    /\ coord = "task" /\ Advanced
    /\ coord' = "free" /\ progress' = TRUE
    /\ task' = [n \in Nodes |->
            IF task[n] # "converging" THEN task[n]
            ELSE IF outcome[n] \in Failures THEN "done" ELSE "cleanup"]
    /\ UNCHANGED <<durable, alive, wake, driver, outcome, active, cmd, fresh, issued, crashes>>

\* after_commit, then the entry goes; a hook that fails fails the driver.
TaskCleanup(n) ==
    /\ task[n] = "cleanup"
    /\ DropEntry(n)
    /\ Goto(n, "done") \/ ("hook" \in Faults /\ Goto(n, "fatal"))
    /\ UNCHANGED <<durable, alive, wake, driver, progress, outcome, coord, cmd, fresh, issued, crashes>>

\* Variant: the entry of a failed execution stays.
TaskDropKeepsEntry(n) ==
    /\ task[n] \in {"drop", "dropped"}
    /\ Goto(n, IF task[n] = "drop" /\ Intent THEN "dropping" ELSE "fail")
    /\ UNCHANGED <<durable, alive, wake, driver, progress, outcome, active, coord, cmd, fresh,
                   issued, crashes>>

\* An executor error waits for the intent and drops the entry first.
TaskDrop(n) ==
    /\ task[n] \in {"drop", "dropped"}
    /\ \/ /\ task[n] = "drop" /\ Intent /\ Goto(n, "dropping")
          /\ UNCHANGED active
       \/ /\ task[n] = "dropped" \/ ~Intent
          /\ DropEntry(n) /\ Goto(n, "fail")
    /\ UNCHANGED <<durable, alive, wake, driver, progress, outcome, coord, cmd, fresh, issued, crashes>>

FailureStatus(f) ==
    CASE f = "deadline"                 -> "Cancelled"
      [] f \in {"resource", "uncertain"} -> "Blocked"
      [] OTHER                          -> "Failed"

\* isolate_node_failure also accepts Planned, which a spawned node never is.
FailsFrom(f) ==
    CASE f = "resource"               -> {"Ready"}
      [] f \in {"error", "uncertain"} -> {"Running"}
      [] OTHER                        -> {"Ready", "Running"}

\* terminalize_deadline_node, block_unstarted_resource_node, and
\* isolate_node_failure; after a panic nobody converges.
TaskFail(n) ==
    /\ task[n] = "fail" /\ CoordWithoutCommand
    /\ \/ /\ status[n] \in FailsFrom(outcome[n])
          /\ Commit([status EXCEPT ![n] = FailureStatus(outcome[n])])
          /\ Goto(n, IF outcome[n] = "panic" THEN "done" ELSE "committed")
       \/ /\ status[n] \notin FailsFrom(outcome[n])
          /\ Goto(n, IF outcome[n] \in {"deadline", "resource", "start"} THEN "committed" ELSE "done")
          /\ NoCommit
    /\ UNCHANGED <<attempts, effect, runs, alive, wake, driver, progress, outcome, active, coord,
                   cmd, issued, crashes>>

-----------------------------------------------------------------------------
(***************************************************************************)
(* Graph commands                                                          *)
(***************************************************************************)

\* command, for Pause and Cancel: the intent is published first.  The caller
\* may expect the current revision or an old one.
UserInstall(k) ==
    /\ alive /\ k \in Commands \cap {"Pause", "Cancel"} /\ issued < MaxCommands /\ ~Intent
    /\ cmd' = [stage |-> "installed", kind |-> k, by |-> "user", targets |-> {}]
    /\ \E current \in BOOLEAN : fresh' = [fresh EXCEPT !["user"] = current]
    /\ issued' = issued + 1
    /\ UNCHANGED <<durable, alive, wake, driver, progress, task, outcome, active, coord, crashes>>

\* CommandIntentOwner::drop wakes everyone who waits for the intent.
WokenTask(pc) ==
    CASE pc = "superseding" -> "superseded"
      [] pc = "gating"      -> "gated"
      [] pc = "finishing"   -> "report"
      [] pc = "dropping"    -> "dropped"
      [] OTHER              -> pc

\* The command ends; a refused command of the pump fails its driver.
EndCommand(applied) ==
    /\ cmd' = NoCommand
    /\ IF cmd.by = "pump" /\ ~applied
         THEN EndDriver("failed")
         ELSE /\ task' = [n \in Nodes |-> WokenTask(task[n])]
              /\ IF cmd.by = "pump"
                   THEN pump' = "tail" /\ victim' = NoNode
                   ELSE pump' = (IF pump = "wave_wait" THEN "wave_over" ELSE pump) /\ UNCHANGED victim
              /\ UNCHANGED <<snap, tail, verdict, outcome, coord>>

Targets == {n \in Nodes : active[n] # "no" /\ (cmd.kind = "CancelNode" => n = victim)}

CommandRefused == ~fresh[cmd.by] \/ (cmd.kind = "Pause" /\ ~(Targets \subseteq Resumable))

\* The first critical section checks the revision and collects the executors
\* to cancel, outside of it.
CommandEnter ==
    /\ cmd.stage = "installed" /\ coord = "free"
    /\ \/ /\ CommandRefused /\ EndCommand(FALSE)
       \/ /\ ~CommandRefused
          /\ cmd' = [cmd EXCEPT !.stage = "cancelling", !.targets = Targets]
          /\ UNCHANGED <<driver, task, outcome, coord>>
    /\ UNCHANGED <<durable, alive, wake, progress, active, fresh, issued, crashes>>

\* apply_command.
CommandStatus(n) ==
    CASE cmd.kind = "Pause" /\ status[n] \in {"Ready", "Running"} -> "Paused"
      [] cmd.kind = "Cancel" /\ ~IsTerminal(status[n]) -> "Cancelled"
      [] cmd.kind = "CancelNode" /\ n = victim /\ ~IsTerminal(status[n]) -> "Cancelled"
      [] OTHER -> status[n]

\* The second critical section compares the revision again and applies.
CommandApply ==
    /\ cmd.stage = "cancelling" /\ coord = "free"
    /\ \/ /\ \/ ~fresh[cmd.by]
             \/ "cancel" \in Faults /\ \E n \in cmd.targets : ~IsTerminal(status[n])
          /\ EndCommand(FALSE) /\ NoCommit /\ UNCHANGED active
       \/ /\ fresh[cmd.by]
          /\ Commit([n \in Nodes |-> CommandStatus(n)])
          /\ active' = [n \in Nodes |-> IF n \in cmd.targets THEN "no" ELSE active[n]]
          /\ EndCommand(TRUE)
    /\ UNCHANGED <<attempts, effect, runs, alive, wake, progress, issued, crashes>>

\* The commands that publish no intent; all but a refusal wake the driver.
UserCommand(k) ==
    /\ alive /\ k \in Commands /\ issued < MaxCommands /\ CoordWithoutCommand
    /\ \/ /\ k = "Resume"
          /\ Commit([n \in Nodes |-> IF status[n] = "Paused" THEN "Ready" ELSE status[n]])
          /\ wake' = TRUE
       \/ \E n \in Nodes :
            /\ k = "Approve" /\ status[n] = "WaitingApproval"
            /\ Commit([status EXCEPT ![n] = "Ready"]) /\ wake' = TRUE
       \/ \E n \in Nodes :
            /\ k = "Deny" /\ status[n] = "WaitingApproval"
            /\ Commit([status EXCEPT ![n] = "Cancelled"]) /\ UNCHANGED wake
       \/ \E n \in Nodes :
            /\ k = "ResolveExternal" /\ status[n] = "WaitingExternal"
            /\ Commit([status EXCEPT ![n] = "Completed"]) /\ wake' = TRUE
    /\ issued' = issued + 1
    /\ UNCHANGED <<attempts, effect, runs, alive, driver, progress, task, outcome, active, coord,
                   cmd, crashes>>

-----------------------------------------------------------------------------
(***************************************************************************)
(* Process death and start-up recovery                                     *)
(***************************************************************************)
Crash ==
    /\ alive /\ crashes < MaxCrashes
    /\ alive' = FALSE /\ wake' = FALSE /\ progress' = FALSE /\ crashes' = crashes + 1
    /\ EndDriver("none")
    /\ active' = [n \in Nodes |-> "no"]
    /\ cmd' = NoCommand
    /\ UNCHANGED <<durable, fresh, issued>>

\* Variant: recovery restores the graphs and leaves the nodes as they are.
RecoverKeepsRunning ==
    /\ ~alive /\ alive' = TRUE
    /\ wake' = (\E n \in Nodes : status[n] \in {"Planned", "Ready"})
    /\ UNCHANGED <<durable, driver, progress, task, outcome, active, coord, cmd, fresh, issued,
                   crashes>>

\* Variant: recovery makes nodes ready and wakes nobody.
RecoverSilently ==
    /\ ~alive /\ alive' = TRUE
    /\ Commit([n \in Nodes |-> IF status[n] = "Running" THEN "Ready" ELSE status[n]])
    /\ UNCHANGED <<attempts, effect, runs, wake, driver, progress, task, outcome, active, coord,
                   cmd, issued, crashes>>

\* recover: nodes that were running are ready again, in one commit, or blocked
\* when their executor is gone; then a graph that can advance is driven.  The
\* graph is one that no managed agent owns and whose executors are bound at
\* start-up: the start-up leaves the others to the agent's reconciliation and to
\* the session's next turn.
Recover ==
    /\ ~alive /\ alive' = TRUE
    /\ LET running == {n \in Nodes : status[n] = "Running"}
       IN  \E lost \in (IF "unavailable" \in Faults THEN SUBSET running ELSE {{}}) :
             IF running = {} THEN NoCommit
             ELSE Commit([n \in Nodes |-> IF n \in lost THEN "Blocked"
                                          ELSE IF n \in running THEN "Ready" ELSE status[n]])
    /\ wake' = (\E n \in Nodes : status'[n] \in {"Planned", "Ready"})
    /\ UNCHANGED <<attempts, effect, runs, driver, progress, task, outcome, active, coord, cmd,
                   issued, crashes>>

-----------------------------------------------------------------------------
PumpStep ==
    \/ Dispatch \/ PumpBeginAdvance \/ PumpEndAdvance \/ PumpLoadVictim \/ PumpInstall
    \/ PumpInstallRefused \/ PumpWave \/ PumpWaveSuperseded \/ PumpAdmit \/ PumpSettle
    \/ PumpNotified \/ PumpJoin \/ PumpJoinFatal

TaskStep(n) ==
    \/ TaskStart(n) \/ TaskSuperseded(n) \/ TaskSoloStart(n) \/ TaskSoloEnter(n) \/ TaskGate(n)
    \/ TaskPoll(n) \/ TaskAnswer(n) \/ TaskReceipt(n) \/ TaskFinish(n) \/ TaskCommit(n)
    \/ TaskCleanup(n) \/ TaskDrop(n) \/ TaskFail(n)

SharedStep == (\E n \in Nodes : AdvanceNode(n)) \/ CommitTerminalWave \/ BeginConverge \/ EndConverge

CommandStep == CommandEnter \/ CommandApply

Next ==
    \/ PumpStep \/ SharedStep \/ CommandStep
    \/ \E n \in Nodes : TaskStep(n)
    \/ \E k \in Commands : UserInstall(k) \/ UserCommand(k)
    \/ Crash \/ Recover

Spec == Init /\ [][Next]_vars

(***************************************************************************)
(* Tasks of the runtime are scheduled, executors answer, the coordination  *)
(* mutex is granted in the order of its waiters, so nobody who waits for   *)
(* it is passed over for ever, and a dead process is restarted.  Users and *)
(* crashes are free to do nothing.                                         *)
(***************************************************************************)
Fairness ==
    /\ SF_vars(PumpStep) /\ SF_vars(SharedStep) /\ SF_vars(CommandStep)
    /\ \A n \in Nodes : SF_vars(TaskStep(n))
    /\ WF_vars(Recover)

FairSpec == Spec /\ Fairness

-----------------------------------------------------------------------------
(***************************************************************************)
(* Properties                                                              *)
(***************************************************************************)

DurableTypeOK ==
    /\ status \in [Nodes -> Statuses]
    /\ attempts \in [Nodes -> Nat]
    /\ effect \in [Nodes -> {"fresh", "intent", "illegal"} \cup LegalOutcomes]
    /\ runs \in [Nodes -> Nat]

DriverTypeOK ==
    /\ alive \in BOOLEAN /\ wake \in BOOLEAN /\ progress \in BOOLEAN
    /\ pump \in PumpPCs
    /\ snap \in [ready : SUBSET Nodes, waiting : BOOLEAN]
    /\ tail \subseteq Nodes /\ victim \in Nodes \cup {NoNode}
    /\ verdict \in {"none", "completed", "failed"}

TaskTypeOK ==
    /\ task \in [Nodes -> TaskPCs]
    /\ outcome \in [Nodes -> LegalOutcomes \cup Failures \cup {"none", "illegal"}]
    /\ active \in [Nodes -> {"no", "solo"} \cup WaveEntries]

CommandTypeOK ==
    /\ coord \in {"free", "pump", "task"}
    /\ cmd \in [stage : {"none", "installed", "cancelling"}, by : {"none", "user", "pump"},
                kind : {"none", "Pause", "Cancel", "CancelNode"}, targets : SUBSET Nodes]
    /\ fresh \in [{"user", "pump"} -> BOOLEAN]
    /\ issued \in 0..MaxCommands /\ crashes \in 0..MaxCrashes

\* Every variable has its type; no executor puts a status into the graph that
\* is none.
TypeOK == DurableTypeOK /\ DriverTypeOK /\ TaskTypeOK /\ CommandTypeOK

\* Whatever tasks, commands, crashes and recoveries do to the statuses of the
\* nodes, they do it along NodeLifecycle: no late report reopens a node that is
\* over, and no node is released or blocked but by its predecessors.
Lifecycle == INSTANCE NodeLifecycle
               WITH Nodes <- Nodes, Preds <- Preds, Policy <- Policy, Unverified <- Unverified,
                    status <- status
ImplementsLifecycle == Lifecycle!Spec

\* The executor of a node whose effect key names the node is polled at most
\* once, over any number of waves, pauses, resumes, crashes and recoveries.
EffectAtMostOnce == \A n \in Nodes : Keying[n] = "node" => runs[n] <= 1

\* A node that completed left its receipt, and the receipt is of the outcome
\* the graph shows: a replay after a crash can only confirm it.
ReceiptConfirms ==
    \A n \in Nodes :
        Keying[n] = "node" /\ status[n] = "Completed" => effect[n] \in {"Completed", "WaitingExternal"}

Executing(n) == task[n] \in {"executing", "solo_executing"}

\* Two nodes whose resources exclude each other are never executed at once.
ExclusiveExecution ==
    \A n \in Nodes : \A m \in Conflicts[n] : m # n /\ Executing(n) => ~Executing(m)

\* While the process lives, a node the graph shows as running has a task that
\* will report on it, and a driver to hear the report.
RunningIsOwned ==
    \A n \in Nodes : alive /\ status[n] = "Running" => task[n] # "none" /\ pump # "off"

\* An entry of the active map, and with it the resources of a node, belongs to
\* a task: nothing keeps the scope locks of a node that is over.
EntriesAreOwned == \A n \in Nodes : active[n] # "no" => task[n] # "none"

\* The driver never finds itself with nothing to run while nodes are neither
\* over nor waiting for somebody.
DriverKeepsUp == verdict # "failed"

\* Every node that the pump's CancelNode command ends is optional work of a
\* group that its other members have decided, although the pump chose it in an
\* earlier critical section and other reports have been committed since.
TailAfterQuorum ==
    [][cmd.by = "pump" =>
         \A n \in Nodes :
            status[n] # "Cancelled" /\ status'[n] = "Cancelled" =>
                \E m \in Nodes : n \in Tail[m] \cap Preds[m] /\ DependencyMet(m)]_vars

Settled ==
    \/ \A n \in Nodes : IsTerminal(status[n])
    \/ \E n \in Nodes : status[n] \in Waiting

\* Every graph comes to rest: all its nodes are over, or it waits for input.
Settles == <>[]Settled

\* A node that is ready does not stay so: it is run, or refused, in the end.
ReadyIsServed == \A n \in Nodes : (status[n] = "Ready") ~> (status[n] # "Ready")

ClosingNodes == {n \in Nodes : Policy[n].mode = "Finally"}

\* A node with the Finally policy is released once its predecessors are over.
FinallyCloses ==
    \A n \in ClosingNodes : (\A p \in Preds[n] : IsTerminal(status[p])) ~> (status[n] # "Planned")
=============================================================================
