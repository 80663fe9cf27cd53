--------------------------- MODULE NodeLifecycle ---------------------------
(***************************************************************************)
(* What an execution graph promises of the statuses of its nodes, whoever  *)
(* changes them: the legal transitions, the release of a node by its       *)
(* predecessors, and the two steps outside the table, the resolution of an *)
(* external wait and start-up recovery.                                    *)
(*                                                                         *)
(* Source: crates/harness-contract/src/execution_graph/state.rs and        *)
(* contract.rs                                                             *)
(***************************************************************************)
EXTENDS Integers, FiniteSets

CONSTANTS
    Nodes,       \* the nodes of the graph
    Preds,       \* the predecessors of a node along DependsOn edges
    Policy,      \* its ExecutionDependencyPolicy
    Unverified   \* predecessors whose result lacks evidence the node requires

ASSUME LifecycleAssumption ==
    /\ IsFiniteSet(Nodes)
    /\ Preds \in [Nodes -> SUBSET Nodes]
    /\ Unverified \in [Nodes -> SUBSET Nodes]
    /\ \A n \in Nodes : Policy[n].mode \in {"All", "Any", "Quorum", "Finally"}
    /\ \A n \in Nodes : Policy[n].mode = "Quorum" => Policy[n].minimum \in Nat

VARIABLE status

Terminal == {"Completed", "Failed", "Blocked", "Cancelled"}
Waiting  == {"WaitingInput", "WaitingApproval", "WaitingExternal", "Paused"}
Statuses == {"Planned", "Ready", "Running"} \cup Terminal \cup Waiting

\* Variant: a node that failed may be made ready again.
TransitionWithRetry(from, to) ==
    \/ from = "Planned" /\ to \in {"Ready", "Cancelled", "Blocked"}
    \/ from = "Ready" /\ to \in {"Running", "Paused", "Cancelled", "Blocked", "Failed"}
    \/ from = "Running" /\ to \in Terminal \cup Waiting
    \/ from \in Waiting \cup {"Failed"} /\ to \in {"Ready", "Running", "Failed", "Cancelled"}
    \/ from = to

LegalTransition(from, to) ==
    \/ from = "Planned" /\ to \in {"Ready", "Cancelled", "Blocked"}
    \/ from = "Ready" /\ to \in {"Running", "Paused", "Cancelled", "Blocked", "Failed"}
    \/ from = "Running" /\ to \in Terminal \cup Waiting
    \/ from \in Waiting /\ to \in {"Ready", "Running", "Failed", "Cancelled"}
    \/ from = to

\* The predecessors that stand for n, and those that can no longer do so.
Standing(n) == {p \in Preds[n] \ Unverified[n] : status[p] = "Completed"}
Fallen(n)   == {p \in Preds[n] : status[p] \in Terminal} \ Standing(n)

\* What the policy asks before n may run.
Released(n) ==
    /\ Policy[n].mode = "All"     => Standing(n) = Preds[n]
    /\ Policy[n].mode = "Any"     => Standing(n) # {}
    /\ Policy[n].mode = "Quorum"  => Cardinality(Standing(n)) >= Policy[n].minimum
    /\ Policy[n].mode = "Finally" => \A p \in Preds[n] : status[p] \in Terminal

\* The policy can no longer be met.
Hopeless(n) ==
    \/ Policy[n].mode = "All"    /\ Fallen(n) # {}
    \/ Policy[n].mode = "Any"    /\ Fallen(n) = Preds[n]
    \/ Policy[n].mode = "Quorum" /\ Cardinality(Preds[n] \ Fallen(n)) < Policy[n].minimum

Init == status = [n \in Nodes |-> "Planned"]

\* Variant: a planned node is taken up without a look at its predecessors.
WorkUnreleased ==
    /\ status' \in [Nodes -> Statuses]
    /\ \A n \in Nodes :
          /\ LegalTransition(status[n], status'[n])
          /\ status[n] = "Planned" /\ status'[n] = "Blocked" => Hopeless(n)

\* One commit moves any number of nodes along the table.
Work ==
    /\ status' \in [Nodes -> Statuses]
    /\ \A n \in Nodes :
          /\ LegalTransition(status[n], status'[n])
          /\ status[n] = "Planned" /\ status'[n] = "Ready" => Released(n)
          /\ status[n] = "Planned" /\ status'[n] = "Blocked" => Hopeless(n)

\* An external result completes the node that waits for it.
Resolve(n) ==
    /\ status[n] = "WaitingExternal"
    /\ status' = [status EXCEPT ![n] = "Completed"]

\* After a crash the nodes that were running are ready again, or blocked.
Recovery ==
    /\ status' \in [Nodes -> Statuses]
    /\ \A n \in Nodes :
          IF status[n] = "Running" THEN status'[n] \in {"Ready", "Blocked"}
                                   ELSE status'[n] = status[n]

Next == Work \/ Recovery \/ \E n \in Nodes : Resolve(n)

Spec == Init /\ [][Next]_status

-----------------------------------------------------------------------------
\* Every node has a status.
TypeOK == status \in [Nodes -> Statuses]

\* A status that says the node is over is never changed again, by no report
\* that comes late, no command, no dependency step and no recovery.
TerminalStable == [][\A n \in Nodes : status[n] \in Terminal => status'[n] = status[n]]_status

\* A node that runs, waits, or ended by itself had been released by its
\* predecessors, and they still stand for it.
DependenciesHold ==
    \A n \in Nodes :
        status[n] \in {"Ready", "Running", "Completed", "Failed"} \cup Waiting => Released(n)
=============================================================================
