------------------------- MODULE NodeLifecycleProofs -------------------------
(***************************************************************************)
(* TypeOK, TerminalStable and DependenciesHold for every graph: any set of *)
(* nodes, dependencies and policies.  The argument for DependenciesHold is *)
(* that terminal statuses are stable, so the predecessors that stand for a *)
(* node only grow, and every policy is monotone in them.                   *)
(***************************************************************************)
EXTENDS NodeLifecycle, FiniteSetTheorems, TLAPS

\* No step of the graph leaves the statuses, and none changes a terminal one.
LEMMA StepIsTyped ==
    ASSUME TypeOK, [Next]_status
    PROVE  TypeOK' /\ \A n \in Nodes : status[n] \in Terminal => status'[n] = status[n]
<1>1. CASE Work
  BY <1>1 DEF TypeOK, Work, LegalTransition, Statuses, Terminal, Waiting
<1>2. CASE Recovery
  BY <1>2 DEF TypeOK, Recovery, Terminal
<1>3. CASE \E n \in Nodes : Resolve(n)
  <2>1. PICK m \in Nodes : Resolve(m)
    BY <1>3
  <2>. QED  BY <2>1 DEF TypeOK, Resolve, Statuses, Terminal, Waiting
<1>4. CASE UNCHANGED status
  BY <1>4 DEF TypeOK
<1>. QED  BY <1>1, <1>2, <1>3, <1>4 DEF Next

\* Every node always has one of the statuses of the contract.
THEOREM LifecycleTypeCorrect == Spec => []TypeOK
<1>1. Init => TypeOK
  BY DEF Init, TypeOK, Statuses
<1>2. TypeOK /\ [Next]_status => TypeOK'
  BY StepIsTyped
<1>. QED  BY <1>1, <1>2, PTL DEF Spec

\* The end of a node is final.
THEOREM LifecycleTerminalStable == Spec => TerminalStable
<1>1. TypeOK /\ [Next]_status
        => [\A n \in Nodes : status[n] \in Terminal => status'[n] = status[n]]_status
  BY StepIsTyped
<1>. QED  BY <1>1, LifecycleTypeCorrect, PTL DEF Spec, TerminalStable

\* The predecessors that stand for a node are finitely many.
LEMMA StandingIsFinite ==
    ASSUME NEW n \in Nodes
    PROVE  IsFiniteSet(Preds[n]) /\ IsFiniteSet(Standing(n)) /\ Standing(n) \subseteq Preds[n]
<1>1. Preds[n] \subseteq Nodes
  BY LifecycleAssumption
<1>2. IsFiniteSet(Preds[n])
  BY <1>1, LifecycleAssumption, FS_Subset
<1>3. Standing(n) \subseteq Preds[n]
  BY DEF Standing
<1>. QED  BY <1>2, <1>3, FS_Subset

\* A policy that is met stays met.
LEMMA ReleasedIsStable ==
    ASSUME TypeOK, [Next]_status, NEW n \in Nodes, Released(n)
    PROVE  Released(n)'
<1>1. \A m \in Nodes : status[m] \in Terminal => status'[m] = status[m]
  BY StepIsTyped
<1>2. Preds[n] \subseteq Nodes
  BY LifecycleAssumption
<1>3. Standing(n) \subseteq Standing(n)' /\ Standing(n)' \subseteq Preds[n]
  BY <1>1, <1>2 DEF Standing, Terminal
<1>4. IsFiniteSet(Standing(n)')
  BY <1>3, StandingIsFinite, FS_Subset
<1>5. Cardinality(Standing(n)) \in Nat /\ Cardinality(Standing(n)') \in Nat
  BY <1>4, StandingIsFinite, FS_CardinalityType
<1>6. Cardinality(Standing(n)) <= Cardinality(Standing(n)')
  BY <1>3, <1>4, FS_Subset
<1>7. CASE Policy[n].mode = "All"
  BY <1>7, <1>3 DEF Released
<1>8. CASE Policy[n].mode = "Any"
  BY <1>8, <1>3 DEF Released
<1>9. CASE Policy[n].mode = "Quorum"
  <2>1. Policy[n].minimum \in Nat
    BY <1>9, LifecycleAssumption
  <2>. QED  BY <1>9, <1>5, <1>6, <2>1 DEF Released
<1>10. CASE Policy[n].mode = "Finally"
  BY <1>10, <1>1, <1>2 DEF Released
<1>. QED  BY <1>7, <1>8, <1>9, <1>10, LifecycleAssumption

\* No node gets past Planned but by its policy, and it never stands there
\* without it later on.
THEOREM LifecycleDependenciesHold == Spec => []DependenciesHold
<1>1. Init => DependenciesHold
  BY DEF Init, DependenciesHold, Waiting
<1>2. TypeOK /\ DependenciesHold /\ [Next]_status => DependenciesHold'
  <2>. SUFFICES ASSUME TypeOK, DependenciesHold, [Next]_status, NEW n \in Nodes,
                       status'[n] \in {"Ready", "Running", "Completed", "Failed"} \cup Waiting
                PROVE  Released(n)'
    BY DEF DependenciesHold
  <2>1. SUFFICES Released(n)
    BY ReleasedIsStable
  <2>2. CASE status[n] \in {"Ready", "Running", "Completed", "Failed"} \cup Waiting
    BY <2>2 DEF DependenciesHold
  <2>3. CASE status[n] \in {"Blocked", "Cancelled"}
    BY <2>3, StepIsTyped DEF Terminal, Waiting
  <2>4. CASE status[n] = "Planned"
    <3>1. CASE Work
      BY <2>4, <3>1 DEF Work, LegalTransition, Waiting
    <3>2. CASE Recovery
      BY <2>4, <3>2 DEF Recovery, Waiting
    <3>3. CASE \E m \in Nodes : Resolve(m)
      BY <2>4, <3>3 DEF Resolve, TypeOK, Waiting
    <3>4. CASE UNCHANGED status
      BY <2>4, <3>4 DEF Waiting
    <3>. QED  BY <3>1, <3>2, <3>3, <3>4 DEF Next
  <2>. QED  BY <2>2, <2>3, <2>4 DEF TypeOK, Statuses, Terminal
<1>. QED  BY <1>1, <1>2, LifecycleTypeCorrect, PTL DEF Spec
=============================================================================
