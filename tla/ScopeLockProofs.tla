------------------------- MODULE ScopeLockProofs -------------------------
(***************************************************************************)
(* Mutual exclusion of ScopeLock for any set of processes, callers and     *)
(* request sets.                                                           *)
(***************************************************************************)
EXTENDS ScopeLock, SequenceTheorems, TLAPS

WellFormed(R) == \A r \in R : IsRequest(r)

TargetsConflict(t, u) == t.key = u.key /\ (t.mode = "Write" \/ u.mode = "Write")

-----------------------------------------------------------------------------
(***************************************************************************)
(* The coarse lock files are conservative.                                 *)
(***************************************************************************)

\* Paths of which one is a prefix of the other lie in one zone, which is why
\* try_process_locks may lock the first path component instead of the path.
LEMMA PrefixSameZone ==
    ASSUME NEW p \in Seq(STRING), NEW q \in Seq(STRING), PathIsPrefix(p, q)
    PROVE  Zone(p) = Zone(q)
<1>1. CASE p = q
  BY <1>1
<1>2. CASE p # <<>> /\ Len(p) < Len(q) /\ \A i \in 1..Len(p) : p[i] = q[i]
  <2>1. Len(p) >= 1 /\ q # <<>>
    BY <1>2
  <2> QED
    BY <1>2, <2>1 DEF Zone
<1> QED
  BY <1>1, <1>2 DEF PathIsPrefix

\* Two single requests that conflict ask for one lock file in incompatible modes.
LEMMA RequestsMeet ==
    ASSUME NEW r, NEW s, IsRequest(r), IsRequest(s), Overlaps(r.scope, s.scope),
           r.mode = "Write" \/ s.mode = "Write"
    PROVE  \E t \in RequestTargets(r), u \in RequestTargets(s) : TargetsConflict(t, u)
<1> USE DEF RequestTargets, TargetsConflict, Target, IsWorkspace, IsObject, IsResource,
            IsRequest, Modes
<1>1. CASE IsWorkspace(r.scope) /\ IsWorkspace(s.scope) /\ r.scope.ws = s.scope.ws
  <2>1. /\ Target(AllKey(r.scope.ws), r.mode) \in RequestTargets(r)
        /\ Target(AllKey(s.scope.ws), s.mode) \in RequestTargets(s)
    BY <1>1
  <2> QED
    BY <1>1, <2>1
<1>2. CASE IsObject(r.scope) /\ IsObject(s.scope)
  <2>1. /\ Target(ObjectKey(r.scope), r.mode) \in RequestTargets(r)
        /\ Target(ObjectKey(s.scope), s.mode) \in RequestTargets(s)
    BY <1>2
  <2>2. r.scope.ws = s.scope.ws /\ r.scope.repo = s.scope.repo
    BY <1>2 DEF Overlaps
  <2>3. Zone(r.scope.path) = Zone(s.scope.path)
    BY <1>2, PrefixSameZone DEF Overlaps
  <2> QED
    BY <2>1, <2>2, <2>3 DEF ObjectKey
<1>3. CASE IsWorkspace(r.scope) /\ IsObject(s.scope) /\ r.scope.ws = s.scope.ws
  <2>1. CASE r.mode = "Write"
    <3>1. /\ Target(AllKey(r.scope.ws), "Write") \in RequestTargets(r)
          /\ Target(AllKey(s.scope.ws), "Read") \in RequestTargets(s)
      BY <1>3, <2>1
    <3> QED
      BY <1>3, <3>1
  <2>2. CASE r.mode = "Read" /\ s.mode = "Write"
    <3>1. /\ Target(WritersKey(r.scope.ws), "Write") \in RequestTargets(r)
          /\ Target(WritersKey(s.scope.ws), "Read") \in RequestTargets(s)
      BY <1>3, <2>2
    <3> QED
      BY <1>3, <3>1
  <2> QED
    BY <2>1, <2>2
<1>4. CASE IsObject(r.scope) /\ IsWorkspace(s.scope) /\ r.scope.ws = s.scope.ws
  <2>1. CASE s.mode = "Write"
    <3>1. /\ Target(AllKey(r.scope.ws), "Read") \in RequestTargets(r)
          /\ Target(AllKey(s.scope.ws), "Write") \in RequestTargets(s)
      BY <1>4, <2>1
    <3> QED
      BY <1>4, <3>1
  <2>2. CASE s.mode = "Read" /\ r.mode = "Write"
    <3>1. /\ Target(WritersKey(r.scope.ws), "Read") \in RequestTargets(r)
          /\ Target(WritersKey(s.scope.ws), "Write") \in RequestTargets(s)
      BY <1>4, <2>2
    <3> QED
      BY <1>4, <3>1
  <2> QED
    BY <2>1, <2>2
<1>5. CASE /\ IsResource(r.scope) /\ IsResource(s.scope)
           /\ r.scope.ns = s.scope.ns /\ r.scope.key = s.scope.key
  <2>1. /\ Target(ResourceKey(r.scope), r.mode) \in RequestTargets(r)
        /\ Target(ResourceKey(s.scope), s.mode) \in RequestTargets(s)
    BY <1>5
  <2> QED
    BY <1>5, <2>1 DEF ResourceKey
<1> QED
  BY <1>1, <1>2, <1>3, <1>4, <1>5 DEF Overlaps

\* Merging keeps every key, in a mode at least as strong.
LEMMA MergeKeepsStrongest ==
    ASSUME Persistent, NEW R, NEW r \in R, NEW t \in RequestTargets(r)
    PROVE  \E u \in ProcessTargets(R) : u.key = t.key /\ (t.mode = "Write" => u.mode = "Write")
<1>1. t \in RawTargets(R)
  BY DEF RawTargets
<1>2. CASE t.mode = "Write" \/ Target(t.key, "Write") \notin RawTargets(R)
  BY <1>1, <1>2 DEF ProcessTargets
<1>3. CASE Target(t.key, "Write") \in RawTargets(R)
  BY <1>3 DEF ProcessTargets, Target
<1> QED
  BY <1>2, <1>3

\* Conservativeness: calls that conflict need one lock file in incompatible modes.
LEMMA FilesAreConservative ==
    ASSUME Persistent, NEW R, NEW S, WellFormed(R), WellFormed(S), RequestsConflict(R, S)
    PROVE  \E t \in ProcessTargets(R), u \in ProcessTargets(S) : TargetsConflict(t, u)
<1>1. PICK r \in R, s \in S : /\ Overlaps(r.scope, s.scope)
                              /\ r.mode = "Write" \/ s.mode = "Write"
  BY DEF RequestsConflict
<1>2. PICK t \in RequestTargets(r), u \in RequestTargets(s) : TargetsConflict(t, u)
  BY <1>1, RequestsMeet DEF WellFormed
<1>3. PICK t1 \in ProcessTargets(R) : t1.key = t.key /\ (t.mode = "Write" => t1.mode = "Write")
  BY MergeKeepsStrongest
<1>4. PICK u1 \in ProcessTargets(S) : u1.key = u.key /\ (u.mode = "Write" => u1.mode = "Write")
  BY MergeKeepsStrongest
<1> QED
  BY <1>2, <1>3, <1>4 DEF TargetsConflict

\* requests_conflict does not depend on which request came first.
LEMMA ConflictSymmetric ==
    ASSUME NEW R, NEW S, RequestsConflict(R, S)
    PROVE  RequestsConflict(S, R)
BY DEF RequestsConflict, Overlaps

-----------------------------------------------------------------------------
(***************************************************************************)
(* The inductive invariant.                                                *)
(***************************************************************************)

\* Which files a caller may have locked at each point of its call.
FilesFollowCall ==
    \A c \in Clients :
        /\ flocks[c] \subseteq ProcessTargets(req[c])
        /\ pc[c] \in {"idle", "waiting", "failed"} => flocks[c] = {}
        /\ pc[c] = "held" => ProcessTargets(req[c]) \subseteq flocks[c]

\* Advisory file locks exclude each other.
FilesExclude ==
    \A c, d \in Clients : c # d =>
        \A t \in flocks[c], u \in flocks[d] : ~TargetsConflict(t, u)

\* The manager's bookkeeping agrees with where each caller stands.
Bookkeeping ==
    /\ \A c \in Clients : pc[c] = "held" => c \in active[ProcOf[c]]
    /\ \A c \in Clients : pc[c] \in {"trying", "rollback"} => mutex[ProcOf[c]] = c

\* A caller in the critical section has seen no conflicting lease, and nobody
\* else of its process can be granted one before it leaves.
TryingIsClear ==
    \A c, d \in Clients :
        /\ pc[c] = "trying" /\ pc[d] = "held" /\ ProcOf[c] = ProcOf[d]
        => ~RequestsConflict(req[c], req[d])

LocalExclusion ==
    \A c, d \in Clients :
        /\ c # d /\ pc[c] = "held" /\ pc[d] = "held" /\ ProcOf[c] = ProcOf[d]
        => ~RequestsConflict(req[c], req[d])

IInv ==
    /\ Typed /\ FilesFollowCall /\ FilesExclude /\ Bookkeeping /\ TryingIsClear
    /\ LocalExclusion

\* The requests of every call are well formed, since acquire got them so.
LEMMA ReqWellFormed ==
    ASSUME Typed, NEW c \in Clients
    PROVE  WellFormed(req[c])
<1>1. req[c] \in NormalizedInputs
  BY DEF Typed
<1>2. CASE req[c] = {}
  BY <1>2 DEF WellFormed
<1>3. ASSUME NEW R \in Inputs, req[c] = Normalize(R) PROVE WellFormed(req[c])
  BY <1>3, ConstantsAssumption DEF WellFormed, Normalize
<1> QED
  BY <1>1, <1>2, <1>3 DEF NormalizedInputs

\* A target of a current call is a target of some input.
LEMMA TargetTyped ==
    ASSUME Typed, NEW c \in Clients, NEW t \in ProcessTargets(req[c])
    PROVE  t \in InputTargets
<1>1. req[c] \in NormalizedInputs
  BY DEF Typed
<1> QED
  BY <1>1 DEF InputTargets

\* Taking a caller out of a queue leaves a queue.
LEMMA RemovedTyped ==
    ASSUME NEW q \in Seq(Clients), NEW c
    PROVE  Removed(q, c) \in Seq(Clients)
<1>1. CASE \E i \in 1..Len(q) : q[i] = c
  <2> DEFINE i == CHOOSE i \in 1..Len(q) : q[i] = c
  <2>1. i \in 1..Len(q)
    BY <1>1
  <2>2. Removed(q, c) = SubSeq(q, 1, i - 1) \o SubSeq(q, i + 1, Len(q))
    BY <1>1 DEF Removed
  <2> HIDE DEF i
  <2>3. \A j \in 1..(i - 1) : q[j] \in Clients
    BY <2>1
  <2>4. SubSeq(q, 1, i - 1) \in Seq(Clients)
    BY <2>1, <2>3, SubSeqProperties
  <2>5. \A j \in (i + 1)..Len(q) : q[j] \in Clients
    BY <2>1
  <2>6. SubSeq(q, i + 1, Len(q)) \in Seq(Clients)
    BY <2>1, <2>5, SubSeqProperties
  <2> QED
    BY <2>2, <2>4, <2>6
<1>2. CASE ~\E i \in 1..Len(q) : q[i] = c
  BY <1>2 DEF Removed
<1> QED
  BY <1>1, <1>2

\* Every variable keeps its type.
LEMMA TypeInvariant == Typed /\ [Next]_vars => Typed'
<1> SUFFICES ASSUME Typed, [Next]_vars PROVE Typed'
  OBVIOUS
<1> USE ConstantsAssumption DEF Typed
<1>1. ASSUME NEW c \in Clients, Call(c) PROVE Typed'
  <2>1. PICK R \in Inputs : req' = [req EXCEPT ![c] = Normalize(R)]
    BY <1>1 DEF Call
  <2>2. Normalize(R) \in NormalizedInputs
    BY DEF NormalizedInputs
  <2> QED
    BY <1>1, <2>1, <2>2 DEF Call, PCs
<1>2. ASSUME NEW c \in Clients, BeginTry(c) PROVE Typed'
  BY <1>2 DEF BeginTry, PCs
<1>3. ASSUME NEW c \in Clients, TryLockFile(c) PROVE Typed'
  <2>1. PICK t \in NextTargets(c) :
            \/ flocks' = [flocks EXCEPT ![c] = @ \cup {t}] /\ UNCHANGED pc
            \/ pc' = [pc EXCEPT ![c] = "rollback"] /\ UNCHANGED flocks
    BY <1>3 DEF TryLockFile
  <2>2. t \in InputTargets
    BY TargetTyped DEF NextTargets
  <2>3. UNCHANGED <<pending, active, mutex, req>>
    BY <1>3 DEF TryLockFile
  <2>4. CASE flocks' = [flocks EXCEPT ![c] = @ \cup {t}] /\ UNCHANGED pc
    BY <2>2, <2>3, <2>4
  <2>5. CASE pc' = [pc EXCEPT ![c] = "rollback"] /\ UNCHANGED flocks
    BY <2>3, <2>5 DEF PCs
  <2> QED
    BY <2>1, <2>4, <2>5
<1>4. ASSUME NEW c \in Clients, Grant(c) PROVE Typed'
  <2>1. Removed(pending[ProcOf[c]], c) \in Seq(Clients)
    BY RemovedTyped
  <2> QED
    BY <1>4, <2>1 DEF Grant, PCs
<1>5. ASSUME NEW c \in Clients, Unlock(c) PROVE Typed'
  BY <1>5 DEF Unlock
<1>6. ASSUME NEW c \in Clients, RolledBack(c) PROVE Typed'
  BY <1>6 DEF RolledBack, PCs
<1>7. ASSUME NEW c \in Clients, LockIoError(c) PROVE Typed'
  BY <1>7 DEF LockIoError, PCs
<1>8. ASSUME NEW c \in Clients, TimeOut(c) PROVE Typed'
  BY <1>8 DEF TimeOut, PCs
<1>9. ASSUME NEW c \in Clients, DropRegistration(c) PROVE Typed'
  <2>1. Removed(pending[ProcOf[c]], c) \in Seq(Clients)
    BY RemovedTyped
  <2>2. {} \in NormalizedInputs
    BY DEF NormalizedInputs
  <2> QED
    BY <1>9, <2>1, <2>2 DEF DropRegistration, PCs
<1>10. ASSUME NEW c \in Clients, Release(c) PROVE Typed'
  BY <1>10 DEF Release, PCs
<1>11. ASSUME NEW c \in Clients, Released(c) PROVE Typed'
  <2>1. {} \in NormalizedInputs
    BY DEF NormalizedInputs
  <2> QED
    BY <1>11, <2>1 DEF Released, PCs
<1>12. ASSUME NEW p \in Processes, Crash(p) PROVE Typed'
  <2>1. /\ pending' \in [Processes -> Seq(Clients)]
        /\ active' \in [Processes -> SUBSET Clients]
        /\ mutex' \in [Processes -> Clients \cup {NoClient}]
        /\ pc' \in [Clients -> PCs]
    BY <1>12 DEF Crash, PCs
  <2>2. req' \in [Clients -> NormalizedInputs]
    BY <1>12 DEF Crash, NormalizedInputs
  <2>3. flocks' \in [Clients -> SUBSET InputTargets]
    BY <1>12 DEF Crash
  <2> QED
    BY <2>1, <2>2, <2>3
<1>13. CASE UNCHANGED vars
  BY <1>13 DEF vars
<1> QED
  BY <1>1, <1>2, <1>3, <1>4, <1>5, <1>6, <1>7, <1>8, <1>9, <1>10, <1>11, <1>12, <1>13
     DEF Next, Step

\* The initial state satisfies the inductive invariant.
LEMMA InitIInv == Init => IInv
BY ConstantsAssumption
   DEF Init, IInv, Typed, NormalizedInputs, PCs, FilesFollowCall, FilesExclude, Bookkeeping, TryingIsClear,
       LocalExclusion

\* Every step of the manager keeps the inductive invariant.
LEMMA StepIInv == IInv /\ [Next]_vars => IInv'
<1> SUFFICES ASSUME IInv, [Next]_vars PROVE IInv'
  OBVIOUS
<1>0. Typed /\ Typed'
  BY TypeInvariant DEF IInv
<1> DEFINE Rest == FilesFollowCall /\ FilesExclude /\ Bookkeeping /\ TryingIsClear /\ LocalExclusion
<1> USE ConstantsAssumption DEF Typed
<1>1. ASSUME NEW c \in Clients, Call(c) PROVE Rest'
  <2>1. /\ UNCHANGED <<active, mutex, flocks>>
        /\ pc' = [pc EXCEPT ![c] = "waiting"] /\ pc[c] = "idle" /\ flocks[c] = {}
        /\ \A d \in Clients \ {c} : req'[d] = req[d]
    BY <1>0, <1>1 DEF Call, IInv, FilesFollowCall
  <2>2. FilesFollowCall' /\ FilesExclude'
    BY <1>0, <2>1 DEF IInv, FilesFollowCall, FilesExclude
  <2>3. Bookkeeping'
    BY <1>0, <2>1 DEF IInv, Bookkeeping
  <2>4. TryingIsClear' /\ LocalExclusion'
    BY <1>0, <2>1 DEF IInv, TryingIsClear, LocalExclusion
  <2> QED
    BY <2>2, <2>3, <2>4
<1>2. ASSUME NEW c \in Clients, BeginTry(c) PROVE Rest'
  <2>1. /\ UNCHANGED <<pending, active, req, flocks>>
        /\ pc' = [pc EXCEPT ![c] = "trying"] /\ pc[c] = "waiting"
        /\ mutex' = [mutex EXCEPT ![ProcOf[c]] = c] /\ mutex[ProcOf[c]] = NoClient
        /\ \A d \in active[ProcOf[c]] : ~RequestsConflict(req[c], req[d])
    BY <1>2 DEF BeginTry, MutexFree, HasConflict
  <2>2. FilesFollowCall' /\ FilesExclude'
    BY <1>0, <2>1 DEF IInv, FilesFollowCall, FilesExclude
  <2>3. Bookkeeping'
    BY <1>0, <2>1 DEF IInv, Bookkeeping
  <2>4. TryingIsClear' /\ LocalExclusion'
    BY <1>0, <2>1 DEF IInv, TryingIsClear, LocalExclusion, Bookkeeping
  <2> QED
    BY <2>2, <2>3, <2>4
<1>3. ASSUME NEW c \in Clients, TryLockFile(c) PROVE Rest'
  <2>1. PICK t \in NextTargets(c) :
            \/ /\ ~WouldBlock(c, t)
               /\ flocks' = [flocks EXCEPT ![c] = @ \cup {t}] /\ UNCHANGED pc
            \/ pc' = [pc EXCEPT ![c] = "rollback"] /\ UNCHANGED flocks
    BY <1>3 DEF TryLockFile
  <2>2. UNCHANGED <<pending, active, mutex, req>> /\ pc[c] = "trying"
    BY <1>3 DEF TryLockFile
  <2>3. t \in ProcessTargets(req[c])
    BY DEF NextTargets
  <2>4. CASE /\ ~WouldBlock(c, t)
             /\ flocks' = [flocks EXCEPT ![c] = @ \cup {t}] /\ UNCHANGED pc
    <3>1. FilesFollowCall'
      BY <1>0, <2>2, <2>3, <2>4 DEF IInv, FilesFollowCall
    <3>2. FilesExclude'
      <4>1. \A d \in Clients \ {c} : \A u \in flocks[d] :
                ~TargetsConflict(t, u) /\ ~TargetsConflict(u, t)
        BY <2>4 DEF WouldBlock, TargetsConflict
      <4>2. /\ flocks'[c] = flocks[c] \cup {t}
            /\ \A d \in Clients \ {c} : flocks'[d] = flocks[d]
        BY <1>0, <2>4
      <4> SUFFICES ASSUME NEW d \in Clients, NEW e \in Clients, d # e,
                          NEW v \in flocks'[d], NEW w \in flocks'[e]
                   PROVE  ~TargetsConflict(v, w)
        BY DEF FilesExclude, TargetsConflict
      <4>3. CASE v \in flocks[d] /\ w \in flocks[e]
        BY <4>3 DEF IInv, FilesExclude
      <4>4. CASE d = c /\ v = t
        BY <4>1, <4>2, <4>4
      <4>5. CASE e = c /\ w = t
        BY <4>1, <4>2, <4>5
      <4> QED
        BY <4>2, <4>3, <4>4, <4>5
    <3>3. Bookkeeping' /\ TryingIsClear' /\ LocalExclusion'
      BY <2>2, <2>4 DEF IInv, Bookkeeping, TryingIsClear, LocalExclusion
    <3> QED
      BY <3>1, <3>2, <3>3
  <2>5. CASE pc' = [pc EXCEPT ![c] = "rollback"] /\ UNCHANGED flocks
    <3>1. FilesFollowCall' /\ FilesExclude'
      BY <1>0, <2>2, <2>5 DEF IInv, FilesFollowCall, FilesExclude
    <3>2. Bookkeeping' /\ TryingIsClear' /\ LocalExclusion'
      BY <1>0, <2>2, <2>5 DEF IInv, Bookkeeping, TryingIsClear, LocalExclusion
    <3> QED
      BY <3>1, <3>2
  <2> QED
    BY <2>1, <2>4, <2>5
<1>4. ASSUME NEW c \in Clients, Grant(c) PROVE Rest'
  <2>1. /\ UNCHANGED <<req, flocks>>
        /\ pc' = [pc EXCEPT ![c] = "held"] /\ pc[c] = "trying"
        /\ mutex' = [mutex EXCEPT ![ProcOf[c]] = NoClient]
        /\ active' = [active EXCEPT ![ProcOf[c]] = @ \cup {c}]
        /\ ProcessTargets(req[c]) \subseteq flocks[c]
    BY <1>4 DEF Grant
  <2>2. FilesFollowCall' /\ FilesExclude'
    BY <1>0, <2>1 DEF IInv, FilesFollowCall, FilesExclude
  <2>3. mutex[ProcOf[c]] = c
    BY <2>1 DEF IInv, Bookkeeping
  <2>4. Bookkeeping'
    BY <1>0, <2>1, <2>3 DEF IInv, Bookkeeping
  <2>5. \A d \in Clients : pc[d] = "trying" /\ ProcOf[d] = ProcOf[c] => d = c
    BY <2>3 DEF IInv, Bookkeeping
  <2>6. \A d \in Clients : pc[d] = "held" /\ ProcOf[d] = ProcOf[c] =>
            ~RequestsConflict(req[c], req[d]) /\ ~RequestsConflict(req[d], req[c])
    BY <2>1, ConflictSymmetric DEF IInv, TryingIsClear
  <2>7. TryingIsClear'
    BY <1>0, <2>1, <2>5 DEF IInv, TryingIsClear
  <2>8. LocalExclusion'
    BY <1>0, <2>1, <2>6 DEF IInv, LocalExclusion
  <2> QED
    BY <2>2, <2>4, <2>7, <2>8
<1>5. ASSUME NEW c \in Clients, Unlock(c) PROVE Rest'
  <2>1. /\ UNCHANGED <<pending, active, mutex, pc, req>>
        /\ pc[c] \in {"rollback", "releasing"}
        /\ \A d \in Clients \ {c} : flocks'[d] = flocks[d]
        /\ flocks'[c] \subseteq flocks[c]
    BY <1>0, <1>5 DEF Unlock
  <2>2. FilesFollowCall' /\ FilesExclude'
    BY <1>0, <2>1 DEF IInv, FilesFollowCall, FilesExclude
  <2> QED
    BY <2>1, <2>2 DEF IInv, Bookkeeping, TryingIsClear, LocalExclusion
<1>6. ASSUME NEW c \in Clients, RolledBack(c) PROVE Rest'
  <2>1. FilesFollowCall' /\ FilesExclude'
    BY <1>0, <1>6 DEF RolledBack, IInv, FilesFollowCall, FilesExclude
  <2>2. Bookkeeping'
    BY <1>0, <1>6 DEF RolledBack, IInv, Bookkeeping
  <2>3. TryingIsClear' /\ LocalExclusion'
    BY <1>0, <1>6 DEF RolledBack, IInv, TryingIsClear, LocalExclusion
  <2> QED
    BY <2>1, <2>2, <2>3
<1>7. ASSUME NEW c \in Clients, LockIoError(c) PROVE Rest'
  <2>1. FilesFollowCall' /\ FilesExclude'
    BY <1>0, <1>7 DEF LockIoError, IInv, FilesFollowCall, FilesExclude
  <2>2. Bookkeeping'
    BY <1>0, <1>7 DEF LockIoError, IInv, Bookkeeping
  <2>3. TryingIsClear' /\ LocalExclusion'
    BY <1>0, <1>7 DEF LockIoError, IInv, TryingIsClear, LocalExclusion
  <2> QED
    BY <2>1, <2>2, <2>3
<1>8. ASSUME NEW c \in Clients, TimeOut(c) PROVE Rest'
  <2>1. FilesFollowCall' /\ FilesExclude'
    BY <1>0, <1>8 DEF TimeOut, IInv, FilesFollowCall, FilesExclude
  <2>2. Bookkeeping' /\ TryingIsClear' /\ LocalExclusion'
    BY <1>0, <1>8 DEF TimeOut, IInv, Bookkeeping, TryingIsClear, LocalExclusion
  <2> QED
    BY <2>1, <2>2
<1>9. ASSUME NEW c \in Clients, DropRegistration(c) PROVE Rest'
  <2>1. FilesFollowCall' /\ FilesExclude'
    BY <1>0, <1>9 DEF DropRegistration, IInv, FilesFollowCall, FilesExclude
  <2>2. Bookkeeping' /\ TryingIsClear' /\ LocalExclusion'
    BY <1>0, <1>9 DEF DropRegistration, IInv, Bookkeeping, TryingIsClear, LocalExclusion
  <2> QED
    BY <2>1, <2>2
<1>10. ASSUME NEW c \in Clients, Release(c) PROVE Rest'
  <2>1. FilesFollowCall' /\ FilesExclude'
    BY <1>0, <1>10 DEF Release, IInv, FilesFollowCall, FilesExclude
  <2>2. Bookkeeping' /\ TryingIsClear' /\ LocalExclusion'
    BY <1>0, <1>10 DEF Release, IInv, Bookkeeping, TryingIsClear, LocalExclusion
  <2> QED
    BY <2>1, <2>2
<1>11. ASSUME NEW c \in Clients, Released(c) PROVE Rest'
  <2>1. FilesFollowCall' /\ FilesExclude'
    BY <1>0, <1>11 DEF Released, IInv, FilesFollowCall, FilesExclude
  <2>2. Bookkeeping' /\ TryingIsClear' /\ LocalExclusion'
    BY <1>0, <1>11 DEF Released, IInv, Bookkeeping, TryingIsClear, LocalExclusion
  <2> QED
    BY <2>1, <2>2
<1>12. ASSUME NEW p \in Processes, Crash(p) PROVE Rest'
  <2>1. /\ \A c \in Clients : ProcOf[c] = p => pc'[c] = "idle" /\ flocks'[c] = {}
        /\ \A c \in Clients : ProcOf[c] # p =>
              /\ pc'[c] = pc[c] /\ flocks'[c] = flocks[c] /\ req'[c] = req[c]
              /\ mutex'[ProcOf[c]] = mutex[ProcOf[c]] /\ active'[ProcOf[c]] = active[ProcOf[c]]
    BY <1>0, <1>12 DEF Crash
  <2>2. FilesFollowCall' /\ FilesExclude'
    BY <2>1 DEF IInv, FilesFollowCall, FilesExclude
  <2>3. Bookkeeping'
    BY <2>1 DEF IInv, Bookkeeping
  <2>4. TryingIsClear' /\ LocalExclusion'
    BY <2>1 DEF IInv, TryingIsClear, LocalExclusion
  <2> QED
    BY <2>2, <2>3, <2>4
<1>13. ASSUME UNCHANGED vars PROVE Rest'
  BY <1>13 DEF vars, IInv, FilesFollowCall, FilesExclude, Bookkeeping, TryingIsClear,
               LocalExclusion
<1> HIDE DEF Rest
<1>14. Rest'
  BY <1>1, <1>2, <1>3, <1>4, <1>5, <1>6, <1>7, <1>8, <1>9, <1>10, <1>11, <1>12, <1>13
     DEF Next, Step
<1> QED
  BY <1>0, <1>14 DEF IInv, Rest

\* The inductive invariant implies exclusion: inside a process by the check made
\* in the critical section, across processes by the files of both leases.
LEMMA IInvImpliesExclusion == IInv => MutualExclusion
<1> SUFFICES ASSUME IInv, NEW c \in Clients, NEW d \in Clients, c # d,
                    pc[c] = "held", pc[d] = "held",
                    Persistent \/ ProcOf[c] = ProcOf[d],
                    RequestsConflict(req[c], req[d])
             PROVE  FALSE
  BY DEF MutualExclusion
<1>1. CASE ProcOf[c] = ProcOf[d]
  BY <1>1 DEF IInv, LocalExclusion
<1>2. CASE Persistent
  <2>1. WellFormed(req[c]) /\ WellFormed(req[d])
    BY ReqWellFormed DEF IInv
  <2>2. PICK t \in ProcessTargets(req[c]), u \in ProcessTargets(req[d]) : TargetsConflict(t, u)
    BY <1>2, <2>1, FilesAreConservative
  <2>3. t \in flocks[c] /\ u \in flocks[d]
    BY DEF IInv, FilesFollowCall
  <2> QED
    BY <2>2, <2>3 DEF IInv, FilesExclude
<1> QED
  BY <1>1, <1>2

\* Two leases held at once never conflict, for any number of processes and
\* callers and whatever scopes they ask for: ScopeLockManager::acquire and
\* try_process_locks together exclude conflicting nodes.
THEOREM ScopeLockExcludes == Spec => []MutualExclusion
BY InitIInv, StepIInv, IInvImpliesExclusion, PTL DEF Spec
-----------------------------------------------------------------------------
(***************************************************************************)
(* The queue.  A caller is registered exactly while its call is under way, *)
(* once, with its own manager; what else the manager remembers belongs to  *)
(* a lease that is held or to the caller in the critical section.          *)
(***************************************************************************)
Enrolled == {"waiting", "trying", "rollback", "failed"}

QueueIsTrue ==
    /\ \A p \in Processes : \A k \in 1..Len(pending[p]) :
          ProcOf[pending[p][k]] = p /\ pc[pending[p][k]] \in Enrolled
    /\ \A p \in Processes : \A k, l \in 1..Len(pending[p]) : pending[p][k] = pending[p][l] => k = l
    /\ \A c \in Clients : pc[c] \in Enrolled => Registered(c)

GrantsAreTrue ==
    /\ \A p \in Processes : \A c \in active[p] : ProcOf[c] = p /\ pc[c] = "held"
    /\ \A p \in Processes : mutex[p] # NoClient =>
          ProcOf[mutex[p]] = p /\ pc[mutex[p]] \in {"trying", "rollback"}

\* While a caller tries for its files it holds the mutex, so that nobody can
\* register before it and its look at the earlier calls stays true.
TryingIsFirst == \A c \in Clients : pc[c] = "trying" => ~BlockedByEarlier(c)

QInv == IInv /\ QueueIsTrue /\ GrantsAreTrue /\ TryingIsFirst

\* The length of two parts of a queue put together.
LEMMA ConcatLength ==
    ASSUME NEW s \in Seq(Clients), NEW t \in Seq(Clients)
    PROVE  s \o t \in Seq(Clients) /\ Len(s \o t) = Len(s) + Len(t)
BY ConcatProperties

\* Taking out a caller takes out nobody else, and adds nobody.
LEMMA RemovedMembers ==
    ASSUME NEW q \in Seq(Clients), NEW c, \E i \in 1..Len(q) : q[i] = c,
           \A k, l \in 1..Len(q) : q[k] = q[l] => k = l
    PROVE  /\ \A k \in 1..Len(Removed(q, c)) : \E l \in 1..Len(q) : Removed(q, c)[k] = q[l] /\ q[l] # c
           /\ \A l \in 1..Len(q) : q[l] # c => \E k \in 1..Len(Removed(q, c)) : Removed(q, c)[k] = q[l]
           /\ \A k, l \in 1..Len(Removed(q, c)) : Removed(q, c)[k] = Removed(q, c)[l] => k = l
<1> PICK i \in 1..Len(q) : q[i] = c
  OBVIOUS
<1> DEFINE j == CHOOSE j \in 1..Len(q) : q[j] = c
<1>1. j = i
  OBVIOUS
<1>2. Removed(q, c) = SubSeq(q, 1, i - 1) \o SubSeq(q, i + 1, Len(q))
  BY <1>1 DEF Removed
<1> HIDE DEF j
<1>3. /\ Len(SubSeq(q, 1, i - 1)) = i - 1
      /\ \A k \in 1..(i - 1) : SubSeq(q, 1, i - 1)[k] = q[k]
      /\ SubSeq(q, 1, i - 1) \in Seq(Clients)
  OBVIOUS
<1>4. /\ Len(SubSeq(q, i + 1, Len(q))) = Len(q) - i
      /\ \A k \in 1..(Len(q) - i) : SubSeq(q, i + 1, Len(q))[k] = q[i + k]
      /\ SubSeq(q, i + 1, Len(q)) \in Seq(Clients)
  OBVIOUS
<1> DEFINE a == SubSeq(q, 1, i - 1)
           b == SubSeq(q, i + 1, Len(q))
<1>5. a \in Seq(Clients) /\ b \in Seq(Clients) /\ Len(a) = i - 1 /\ Len(b) = Len(q) - i
  BY <1>3, <1>4
<1>6. /\ \A k \in 1..(i - 1) : a[k] = q[k]
      /\ \A k \in 1..(Len(q) - i) : b[k] = q[i + k]
  BY <1>3, <1>4
<1>7. Removed(q, c) = a \o b
  BY <1>2
<1> HIDE DEF a, b
<1>8. /\ Removed(q, c) \in Seq(Clients) /\ Len(Removed(q, c)) = Len(q) - 1
  <2>1. a \o b \in Seq(Clients)
    BY <1>5, ConcatProperties, Zenon
  <2>3. Len(a \o b) = Len(a) + Len(b)
    BY <1>5, ConcatLength, Zenon
  <2>2. (i - 1) + (Len(q) - i) = Len(q) - 1
    OBVIOUS
  <2> QED
    BY <1>5, <1>7, <2>1, <2>2, <2>3
<1>9. ASSUME NEW k \in 1..(Len(q) - 1)
      PROVE  /\ k < i => Removed(q, c)[k] = q[k]
             /\ k >= i => Removed(q, c)[k] = q[k + 1]
  <2>1. CASE k < i
    <3>1. k \in 1..Len(a) /\ k \in 1..(Len(a) + Len(b)) /\ k \in 1..(i - 1)
      BY <1>5, <2>1
    <3>2. Removed(q, c)[k] = a[k]
      BY <1>5, <1>7, <3>1
    <3> QED
      BY <1>6, <2>1, <3>1, <3>2
  <2>2. CASE k >= i
    <3>1. k - Len(a) \in 1..Len(b) /\ k \in 1..(Len(a) + Len(b)) /\ ~(k <= Len(a))
      BY <1>5, <2>2
    <3>2. Removed(q, c)[k] = b[k - Len(a)]
      BY <1>5, <1>7, <3>1
    <3>3. b[k - Len(a)] = q[i + (k - Len(a))] /\ i + (k - Len(a)) = k + 1
      BY <1>5, <1>6, <3>1
    <3> QED
      BY <2>2, <3>2, <3>3
  <2> QED
    BY <2>1, <2>2
<1> DEFINE r == Removed(q, c)
<1>10. /\ r \in Seq(Clients) /\ Len(r) = Len(q) - 1
       /\ \A k \in 1..(Len(q) - 1) : k < i => r[k] = q[k]
       /\ \A k \in 1..(Len(q) - 1) : k >= i => r[k] = q[k + 1]
  BY <1>8, <1>9
<1> HIDE DEF r
<1>11. ASSUME NEW k \in 1..Len(r) PROVE \E l \in 1..Len(q) : r[k] = q[l] /\ q[l] # c
  <2>1. CASE k < i
    <3>1. k \in 1..Len(q) /\ r[k] = q[k] /\ k # i
      BY <1>10, <2>1
    <3> QED
      BY <3>1
  <2>2. CASE k >= i
    <3>1. k + 1 \in 1..Len(q) /\ r[k] = q[k + 1] /\ k + 1 # i
      BY <1>10, <2>2
    <3> QED
      BY <3>1
  <2> QED
    BY <1>10, <2>1, <2>2
<1>12. ASSUME NEW l \in 1..Len(q), q[l] # c PROVE \E k \in 1..Len(r) : r[k] = q[l]
  <2>1. CASE l < i
    <3>1. l \in 1..Len(r) /\ r[l] = q[l]
      BY <1>10, <2>1
    <3> QED
      BY <3>1
  <2>2. CASE l > i
    <3>1. l - 1 \in 1..Len(r) /\ r[l - 1] = q[l]
      BY <1>10, <2>2
    <3> QED
      BY <3>1
  <2> QED
    BY <1>12, <2>1, <2>2
<1>13. ASSUME NEW k \in 1..Len(r), NEW l \in 1..Len(r), r[k] = r[l] PROVE k = l
  <2>1. CASE k < i /\ l < i
    BY <1>10, <1>13, <2>1
  <2>2. CASE k >= i /\ l >= i
    <3>1. r[k] = q[k + 1] /\ r[l] = q[l + 1] /\ k + 1 \in 1..Len(q) /\ l + 1 \in 1..Len(q)
      BY <1>10, <2>2
    <3>2. k + 1 = l + 1
      BY <1>13, <3>1
    <3> QED
      BY <3>2
  <2>3. CASE k < i /\ l >= i
    <3>1. r[k] = q[k] /\ r[l] = q[l + 1] /\ k \in 1..Len(q) /\ l + 1 \in 1..Len(q)
      BY <1>10, <2>3
    <3>2. k = l + 1
      BY <1>13, <3>1
    <3> QED
      BY <2>3, <3>2
  <2>4. CASE k >= i /\ l < i
    <3>1. r[k] = q[k + 1] /\ r[l] = q[l] /\ k + 1 \in 1..Len(q) /\ l \in 1..Len(q)
      BY <1>10, <2>4
    <3>2. k + 1 = l
      BY <1>13, <3>1
    <3> QED
      BY <2>4, <3>2
  <2> QED
    BY <1>10, <2>1, <2>2, <2>3, <2>4
<1> QED
  BY <1>11, <1>12, <1>13 DEF r

\* A step that registers and removes nobody leaves the queue true.
LEMMA QueueUndisturbed ==
    ASSUME Typed, Typed', QueueIsTrue, UNCHANGED pending,
           \A c \in Clients : pc[c] \in Enrolled <=> pc'[c] \in Enrolled
    PROVE  QueueIsTrue'
BY ConstantsAssumption DEF Typed, QueueIsTrue, Registered

\* A step that sends nobody to the lock files leaves those who are there first.
LEMMA FirstUndisturbed ==
    ASSUME TryingIsFirst, UNCHANGED <<pending, req>>,
           \A c \in Clients : pc'[c] = "trying" => pc[c] = "trying"
    PROVE  TryingIsFirst'
BY DEF TryingIsFirst, BlockedByEarlier

\* The end of a registration: the queue of its process loses that caller only.
LEMMA RemovalKeepsQueue ==
    ASSUME Typed, Typed', QueueIsTrue, NEW c \in Clients, pc[c] \in Enrolled, NEW v,
           v \notin Enrolled, pc' = [pc EXCEPT ![c] = v],
           pending' = [pending EXCEPT ![ProcOf[c]] = Removed(@, c)]
    PROVE  QueueIsTrue'
<1> USE ConstantsAssumption
<1> DEFINE p == ProcOf[c]
           q == pending[p]
           r == Removed(q, c)
<1>1. /\ p \in Processes /\ q \in Seq(Clients) /\ \E i \in 1..Len(q) : q[i] = c
      /\ \A k, l \in 1..Len(q) : q[k] = q[l] => k = l
  BY DEF Typed, QueueIsTrue, Registered
<1>2. /\ \A k \in 1..Len(r) : \E l \in 1..Len(q) : r[k] = q[l] /\ q[l] # c
      /\ \A l \in 1..Len(q) : q[l] # c => \E k \in 1..Len(r) : r[k] = q[l]
      /\ \A k, l \in 1..Len(r) : r[k] = r[l] => k = l
  <2> HIDE DEF q
  <2> QED
    BY <1>1, RemovedMembers
<1>3. pending'[p] = r /\ \A o \in Processes \ {p} : pending'[o] = pending[o]
  BY <1>1 DEF Typed
<1>4. pc'[c] = v /\ \A d \in Clients \ {c} : pc'[d] = pc[d]
  BY DEF Typed
<1>5. \A k \in 1..Len(q) : q[k] \in Clients /\ ProcOf[q[k]] = p /\ pc[q[k]] \in Enrolled
  BY <1>1 DEF QueueIsTrue
<1> HIDE DEF p, q, r
<1>6. ASSUME NEW o \in Processes, NEW k \in 1..Len(pending'[o])
      PROVE  ProcOf[pending'[o][k]] = o /\ pc'[pending'[o][k]] \in Enrolled
  <2>1. CASE o = p
    BY <1>2, <1>3, <1>4, <1>5, <2>1
  <2>2. CASE o # p
    <3>1. k \in 1..Len(pending[o]) /\ pending'[o][k] = pending[o][k]
      BY <1>3, <2>2
    <3>2. pending[o][k] \in Clients /\ ProcOf[pending[o][k]] = o /\ pc[pending[o][k]] \in Enrolled
      BY <3>1 DEF Typed, QueueIsTrue
    <3> QED
      BY <1>4, <2>2, <3>1, <3>2 DEF p
  <2> QED
    BY <2>1, <2>2
<1>7. ASSUME NEW o \in Processes, NEW k \in 1..Len(pending'[o]), NEW l \in 1..Len(pending'[o]),
             pending'[o][k] = pending'[o][l]
      PROVE  k = l
  BY <1>2, <1>3, <1>7 DEF QueueIsTrue
<1>8. ASSUME NEW d \in Clients, pc'[d] \in Enrolled PROVE Registered(d)'
  <2>1. d # c /\ pc[d] \in Enrolled
    BY <1>4, <1>8
  <2>2. PICK k \in 1..Len(pending[ProcOf[d]]) : pending[ProcOf[d]][k] = d
    BY <2>1 DEF QueueIsTrue, Registered
  <2>3. CASE ProcOf[d] = p
    BY <1>2, <1>3, <2>1, <2>2, <2>3 DEF Registered, q
  <2>4. CASE ProcOf[d] # p
    BY <1>3, <2>2, <2>4 DEF Registered
  <2> QED
    BY <2>3, <2>4
<1> QED
  BY <1>6, <1>7, <1>8 DEF QueueIsTrue

\* A new registration goes to the tail of its process's queue.
LEMMA CallKeepsQueue ==
    ASSUME Typed, Typed', QueueIsTrue, NEW c \in Clients, pc[c] = "idle",
           pc' = [pc EXCEPT ![c] = "waiting"],
           pending' = [pending EXCEPT ![ProcOf[c]] = Append(@, c)]
    PROVE  QueueIsTrue'
<1> USE ConstantsAssumption
<1> DEFINE p == ProcOf[c]
           q == pending[p]
           r == Append(q, c)
<1>1. /\ p \in Processes /\ q \in Seq(Clients)
      /\ \A k, l \in 1..Len(q) : q[k] = q[l] => k = l
  BY DEF Typed, QueueIsTrue
<1>2. \A k \in 1..Len(q) : q[k] \in Clients /\ ProcOf[q[k]] = p /\ pc[q[k]] \in Enrolled /\ q[k] # c
  BY <1>1 DEF QueueIsTrue, Enrolled
<1>3. pending'[p] = r /\ \A o \in Processes \ {p} : pending'[o] = pending[o]
  BY <1>1 DEF Typed
<1>4. pc'[c] = "waiting" /\ \A d \in Clients \ {c} : pc'[d] = pc[d]
  BY DEF Typed
<1>5. Len(r) = Len(q) + 1 /\ r[Len(q) + 1] = c /\ \A k \in 1..Len(q) : r[k] = q[k]
  BY <1>1
<1> HIDE DEF p, q, r
<1>6. ASSUME NEW o \in Processes, NEW k \in 1..Len(pending'[o])
      PROVE  ProcOf[pending'[o][k]] = o /\ pc'[pending'[o][k]] \in Enrolled
  <2>1. CASE o = p
    <3>1. k = Len(q) + 1 \/ k \in 1..Len(q)
      BY <1>1, <1>3, <1>5, <2>1
    <3> QED
      BY <1>2, <1>3, <1>4, <1>5, <2>1, <3>1 DEF p, Enrolled
  <2>2. CASE o # p
    <3>1. k \in 1..Len(pending[o]) /\ pending'[o][k] = pending[o][k]
      BY <1>3, <2>2
    <3>2. pending[o][k] \in Clients /\ ProcOf[pending[o][k]] = o /\ pc[pending[o][k]] \in Enrolled
      BY <3>1 DEF Typed, QueueIsTrue
    <3> QED
      BY <1>4, <2>2, <3>1, <3>2 DEF p
  <2> QED
    BY <2>1, <2>2
<1>7. ASSUME NEW o \in Processes, NEW k \in 1..Len(pending'[o]), NEW l \in 1..Len(pending'[o]),
             pending'[o][k] = pending'[o][l]
      PROVE  k = l
  <2>1. CASE o = p
    <3>1. (k = Len(q) + 1 \/ k \in 1..Len(q)) /\ (l = Len(q) + 1 \/ l \in 1..Len(q))
      BY <1>1, <1>3, <1>5, <2>1
    <3>2. r[k] = r[l]
      BY <1>3, <1>7, <2>1
    <3>3. CASE k \in 1..Len(q) /\ l \in 1..Len(q)
      BY <1>1, <1>5, <3>2, <3>3
    <3>4. CASE k = Len(q) + 1 /\ l \in 1..Len(q)
      BY <1>2, <1>5, <3>2, <3>4
    <3>5. CASE k \in 1..Len(q) /\ l = Len(q) + 1
      BY <1>2, <1>5, <3>2, <3>5
    <3> QED
      BY <3>1, <3>3, <3>4, <3>5
  <2>2. CASE o # p
    BY <1>3, <1>7, <2>2 DEF QueueIsTrue
  <2> QED
    BY <2>1, <2>2
<1>8. ASSUME NEW d \in Clients, pc'[d] \in Enrolled PROVE Registered(d)'
  <2>1. CASE d = c
    <3>1. Len(q) + 1 \in 1..Len(r)
      BY <1>1, <1>5
    <3> QED
      BY <1>3, <1>5, <2>1, <3>1 DEF Registered, p
  <2>2. CASE d # c
    <3>1. PICK k \in 1..Len(pending[ProcOf[d]]) : pending[ProcOf[d]][k] = d
      BY <1>4, <1>8, <2>2 DEF QueueIsTrue, Registered
    <3>2. CASE ProcOf[d] = p
      <4>1. k \in 1..Len(r) /\ r[k] = d
        BY <1>1, <1>5, <3>1, <3>2 DEF q
      <4> QED
        BY <1>3, <3>2, <4>1 DEF Registered
    <3>3. CASE ProcOf[d] # p
      BY <1>3, <3>1, <3>3 DEF Registered
    <3> QED
      BY <3>2, <3>3
  <2> QED
    BY <2>1, <2>2
<1> QED
  BY <1>6, <1>7, <1>8 DEF QueueIsTrue

\* While the mutex of a process is free, or passes from its holder to nobody,
\* no caller of the process is at the lock files afterwards.
LEMMA FirstElsewhere ==
    ASSUME Typed, Typed', QueueIsTrue, TryingIsFirst, NEW c \in Clients,
           \A d \in Clients : pc'[d] = "trying" => pc[d] = "trying" /\ ProcOf[d] # ProcOf[c],
           \A o \in Processes \ {ProcOf[c]} : pending'[o] = pending[o],
           \A d \in Clients \ {c} : req'[d] = req[d]
    PROVE  TryingIsFirst'
<1> USE ConstantsAssumption
<1> SUFFICES ASSUME NEW d \in Clients, pc'[d] = "trying" PROVE ~BlockedByEarlier(d)'
  BY DEF TryingIsFirst
<1> DEFINE q == pending[ProcOf[d]]
<1>1. pc[d] = "trying" /\ ProcOf[d] # ProcOf[c] /\ d # c /\ ProcOf[d] \in Processes
  BY DEF Typed
<1>2. pending'[ProcOf[d]] = q /\ req'[d] = req[d]
  BY <1>1
<1>3. \A k \in 1..Len(q) : q[k] \in Clients /\ q[k] # c
  BY <1>1 DEF Typed, QueueIsTrue
<1>4. \A k \in 1..Len(q) : req'[q[k]] = req[q[k]]
  BY <1>3
<1>5. \A i, j \in 1..Len(q) : ~(i < j /\ q[j] = d /\ RequestsConflict(req[d], req[q[i]]))
  BY <1>1 DEF TryingIsFirst, BlockedByEarlier
<1> HIDE DEF q
<1> QED
  BY <1>2, <1>4, <1>5 DEF BlockedByEarlier

LEMMA InitQInv == Init => QInv
<1> SUFFICES ASSUME Init PROVE QInv
  OBVIOUS
<1>1. IInv
  BY InitIInv
<1>2. /\ pending = [p \in Processes |-> <<>>] /\ active = [p \in Processes |-> {}]
      /\ mutex = [p \in Processes |-> NoClient] /\ pc = [c \in Clients |-> "idle"]
  BY DEF Init
<1>3. QueueIsTrue
  BY <1>2 DEF QueueIsTrue, Enrolled
<1>4. GrantsAreTrue
  BY <1>2 DEF GrantsAreTrue
<1>5. TryingIsFirst
  BY <1>2 DEF TryingIsFirst
<1> QED
  BY <1>1, <1>3, <1>4, <1>5 DEF QInv

\* Every operation keeps the queue, the grants and the order.
LEMMA StepQInv == QInv /\ [Next]_vars => QInv'
<1> SUFFICES ASSUME QInv, [Next]_vars PROVE QInv'
  OBVIOUS
<1> DEFINE Rest == QueueIsTrue /\ GrantsAreTrue /\ TryingIsFirst
<1>0. IInv /\ IInv' /\ Typed /\ Typed' /\ Bookkeeping
  BY StepIInv DEF QInv, IInv
<1>a. QueueIsTrue /\ GrantsAreTrue /\ TryingIsFirst
  BY DEF QInv
<1>b. \A c, d \in Clients : mutex[ProcOf[c]] = NoClient /\ pc[d] = "trying" => ProcOf[d] # ProcOf[c]
  BY <1>0, ConstantsAssumption DEF Bookkeeping
<1>c. \A c, d \in Clients : pc[c] \in {"trying", "rollback"} /\ pc[d] = "trying" /\ d # c
                               => ProcOf[d] # ProcOf[c]
  BY <1>0 DEF Bookkeeping
<1> USE ConstantsAssumption
<1>1. ASSUME NEW c \in Clients, Call(c) PROVE Rest'
  <2>1. /\ UNCHANGED <<active, mutex>> /\ pc' = [pc EXCEPT ![c] = "waiting"] /\ pc[c] = "idle"
        /\ pending' = [pending EXCEPT ![ProcOf[c]] = Append(@, c)]
        /\ mutex[ProcOf[c]] = NoClient
        /\ \A d \in Clients \ {c} : req'[d] = req[d]
    BY <1>0, <1>1 DEF Call, MutexFree, Typed
  <2>2. QueueIsTrue'
    BY <1>0, <1>a, <2>1, CallKeepsQueue
  <2>3. GrantsAreTrue'
    BY <1>0, <1>a, <2>1 DEF GrantsAreTrue, Typed
  <2>4. TryingIsFirst'
    <3>1. \A d \in Clients : pc'[d] = "trying" => pc[d] = "trying" /\ ProcOf[d] # ProcOf[c]
      BY <1>0, <1>b, <2>1 DEF Typed
    <3>2. \A o \in Processes \ {ProcOf[c]} : pending'[o] = pending[o]
      BY <1>0, <2>1 DEF Typed
    <3> QED
      BY <1>0, <1>a, <2>1, <3>1, <3>2, FirstElsewhere
  <2> QED
    BY <2>2, <2>3, <2>4
<1>2. ASSUME NEW c \in Clients, BeginTry(c) PROVE Rest'
  <2>1. /\ UNCHANGED <<pending, active, req>> /\ pc' = [pc EXCEPT ![c] = "trying"] /\ pc[c] = "waiting"
        /\ mutex' = [mutex EXCEPT ![ProcOf[c]] = c] /\ ~BlockedByEarlier(c)
    BY <1>2 DEF BeginTry
  <2>2. QueueIsTrue'
    BY <1>0, <1>a, <2>1, QueueUndisturbed DEF Typed, Enrolled
  <2>3. GrantsAreTrue'
    BY <1>0, <1>a, <2>1 DEF GrantsAreTrue, Typed
  <2>4. TryingIsFirst'
    BY <1>0, <1>a, <2>1 DEF TryingIsFirst, BlockedByEarlier, Typed
  <2> QED
    BY <2>2, <2>3, <2>4
<1>3. ASSUME NEW c \in Clients, TryLockFile(c) PROVE Rest'
  <2>1. /\ UNCHANGED <<pending, active, mutex, req>> /\ pc[c] = "trying"
        /\ pc' = [pc EXCEPT ![c] = "rollback"] \/ UNCHANGED pc
    BY <1>3 DEF TryLockFile
  <2>2. QueueIsTrue'
    BY <1>0, <1>a, <2>1, QueueUndisturbed DEF Typed, Enrolled
  <2>3. GrantsAreTrue'
    <3>1. CASE UNCHANGED pc
      BY <1>a, <2>1, <3>1 DEF GrantsAreTrue
    <3>2. CASE pc' = [pc EXCEPT ![c] = "rollback"]
      BY <1>0, <1>a, <2>1, <3>2 DEF GrantsAreTrue, Typed
    <3> QED
      BY <2>1, <3>1, <3>2
  <2>4. TryingIsFirst'
    BY <1>0, <1>a, <2>1, FirstUndisturbed DEF Typed
  <2> QED
    BY <2>2, <2>3, <2>4
<1>4. ASSUME NEW c \in Clients, Grant(c) PROVE Rest'
  <2>1. /\ pc' = [pc EXCEPT ![c] = "held"] /\ pc[c] = "trying" /\ UNCHANGED req
        /\ pending' = [pending EXCEPT ![ProcOf[c]] = Removed(@, c)]
        /\ active' = [active EXCEPT ![ProcOf[c]] = @ \cup {c}]
        /\ mutex' = [mutex EXCEPT ![ProcOf[c]] = NoClient]
    BY <1>4 DEF Grant
  <2>2. QueueIsTrue'
    BY <1>0, <1>a, <2>1, RemovalKeepsQueue DEF Enrolled
  <2>3. GrantsAreTrue'
    BY <1>0, <1>a, <2>1 DEF GrantsAreTrue, Typed, Bookkeeping
  <2>4. TryingIsFirst'
    <3>1. \A d \in Clients : pc'[d] = "trying" => pc[d] = "trying" /\ ProcOf[d] # ProcOf[c]
      BY <1>0, <1>c, <2>1 DEF Typed
    <3>2. \A o \in Processes \ {ProcOf[c]} : pending'[o] = pending[o]
      BY <1>0, <2>1 DEF Typed
    <3> QED
      BY <1>0, <1>a, <2>1, <3>1, <3>2, FirstElsewhere
  <2> QED
    BY <2>2, <2>3, <2>4
<1>5. ASSUME NEW c \in Clients, Unlock(c) PROVE Rest'
  <2>1. UNCHANGED <<pending, active, mutex, pc, req>>
    BY <1>5 DEF Unlock
  <2> QED
    BY <1>a, <2>1 DEF QueueIsTrue, GrantsAreTrue, TryingIsFirst, Registered, BlockedByEarlier
<1>6. ASSUME NEW c \in Clients, RolledBack(c) PROVE Rest'
  <2>1. /\ UNCHANGED <<pending, active, req>> /\ pc' = [pc EXCEPT ![c] = "waiting"] /\ pc[c] = "rollback"
        /\ mutex' = [mutex EXCEPT ![ProcOf[c]] = NoClient]
    BY <1>6 DEF RolledBack
  <2>2. QueueIsTrue'
    BY <1>0, <1>a, <2>1, QueueUndisturbed DEF Typed, Enrolled
  <2>3. GrantsAreTrue'
    BY <1>0, <1>a, <2>1 DEF GrantsAreTrue, Typed, Bookkeeping
  <2>4. TryingIsFirst'
    BY <1>0, <1>a, <2>1, FirstUndisturbed DEF Typed
  <2> QED
    BY <2>2, <2>3, <2>4
<1>7. ASSUME NEW c \in Clients, LockIoError(c) PROVE Rest'
  <2>1. /\ UNCHANGED <<pending, active, req>> /\ pc' = [pc EXCEPT ![c] = "failed"] /\ pc[c] = "trying"
        /\ mutex' = [mutex EXCEPT ![ProcOf[c]] = NoClient]
    BY <1>7 DEF LockIoError
  <2>2. QueueIsTrue'
    BY <1>0, <1>a, <2>1, QueueUndisturbed DEF Typed, Enrolled
  <2>3. GrantsAreTrue'
    BY <1>0, <1>a, <2>1 DEF GrantsAreTrue, Typed, Bookkeeping
  <2>4. TryingIsFirst'
    BY <1>0, <1>a, <2>1, FirstUndisturbed DEF Typed
  <2> QED
    BY <2>2, <2>3, <2>4
<1>8. ASSUME NEW c \in Clients, TimeOut(c) PROVE Rest'
  <2>1. /\ UNCHANGED <<pending, active, mutex, req>> /\ pc' = [pc EXCEPT ![c] = "failed"]
        /\ pc[c] = "waiting"
    BY <1>8 DEF TimeOut
  <2>2. QueueIsTrue'
    BY <1>0, <1>a, <2>1, QueueUndisturbed DEF Typed, Enrolled
  <2>3. GrantsAreTrue'
    BY <1>0, <1>a, <2>1 DEF GrantsAreTrue, Typed
  <2>4. TryingIsFirst'
    BY <1>0, <1>a, <2>1, FirstUndisturbed DEF Typed
  <2> QED
    BY <2>2, <2>3, <2>4
<1>9. ASSUME NEW c \in Clients, DropRegistration(c) PROVE Rest'
  <2>1. /\ pc' = [pc EXCEPT ![c] = "idle"] /\ pc[c] = "failed" /\ UNCHANGED <<active, mutex>>
        /\ pending' = [pending EXCEPT ![ProcOf[c]] = Removed(@, c)]
        /\ req' = [req EXCEPT ![c] = {}] /\ mutex[ProcOf[c]] = NoClient
    BY <1>9 DEF DropRegistration, MutexFree
  <2>2. QueueIsTrue'
    BY <1>0, <1>a, <2>1, RemovalKeepsQueue DEF Enrolled
  <2>3. GrantsAreTrue'
    BY <1>0, <1>a, <2>1 DEF GrantsAreTrue, Typed
  <2>4. TryingIsFirst'
    <3>1. \A d \in Clients : pc'[d] = "trying" => pc[d] = "trying" /\ ProcOf[d] # ProcOf[c]
      BY <1>0, <1>b, <2>1 DEF Typed
    <3>2. /\ \A o \in Processes \ {ProcOf[c]} : pending'[o] = pending[o]
          /\ \A d \in Clients \ {c} : req'[d] = req[d]
      BY <1>0, <2>1 DEF Typed
    <3> QED
      BY <1>0, <1>a, <3>1, <3>2, FirstElsewhere
  <2> QED
    BY <2>2, <2>3, <2>4
<1>10. ASSUME NEW c \in Clients, Release(c) PROVE Rest'
  <2>1. /\ UNCHANGED <<pending, mutex, req>> /\ pc' = [pc EXCEPT ![c] = "releasing"] /\ pc[c] = "held"
        /\ active' = [active EXCEPT ![ProcOf[c]] = @ \ {c}]
    BY <1>10 DEF Release
  <2>2. QueueIsTrue'
    BY <1>0, <1>a, <2>1, QueueUndisturbed DEF Typed, Enrolled
  <2>3. GrantsAreTrue'
    BY <1>0, <1>a, <2>1 DEF GrantsAreTrue, Typed
  <2>4. TryingIsFirst'
    BY <1>0, <1>a, <2>1, FirstUndisturbed DEF Typed
  <2> QED
    BY <2>2, <2>3, <2>4
<1>11. ASSUME NEW c \in Clients, Released(c) PROVE Rest'
  <2>1. /\ UNCHANGED <<pending, active, mutex>> /\ pc' = [pc EXCEPT ![c] = "idle"] /\ pc[c] = "releasing"
        /\ req' = [req EXCEPT ![c] = {}]
    BY <1>11 DEF Released
  <2>2. QueueIsTrue'
    BY <1>0, <1>a, <2>1, QueueUndisturbed DEF Typed, Enrolled
  <2>3. GrantsAreTrue'
    BY <1>0, <1>a, <2>1 DEF GrantsAreTrue, Typed
  <2>4. TryingIsFirst'
    <3> SUFFICES ASSUME NEW d \in Clients, pc'[d] = "trying" PROVE ~BlockedByEarlier(d)'
      BY DEF TryingIsFirst
    <3>1. pc[d] = "trying" /\ d # c /\ ProcOf[d] \in Processes
      BY <1>0, <2>1 DEF Typed
    <3>2. \A k \in 1..Len(pending[ProcOf[d]]) :
             pending[ProcOf[d]][k] \in Clients /\ pending[ProcOf[d]][k] # c
      BY <1>0, <1>a, <2>1, <3>1 DEF Typed, QueueIsTrue, Enrolled
    <3>3. req'[d] = req[d] /\ \A e \in Clients \ {c} : req'[e] = req[e]
      BY <1>0, <2>1, <3>1 DEF Typed
    <3> QED
      BY <1>a, <2>1, <3>1, <3>2, <3>3 DEF TryingIsFirst, BlockedByEarlier
  <2> QED
    BY <2>2, <2>3, <2>4
<1>12. ASSUME NEW p \in Processes, Crash(p) PROVE Rest'
  <2>1. /\ pending' = [pending EXCEPT ![p] = <<>>] /\ active' = [active EXCEPT ![p] = {}]
        /\ mutex' = [mutex EXCEPT ![p] = NoClient]
        /\ pc' = [c \in Clients |-> IF ProcOf[c] = p THEN "idle" ELSE pc[c]]
        /\ req' = [c \in Clients |-> IF ProcOf[c] = p THEN {} ELSE req[c]]
    BY <1>12 DEF Crash
  <2>2. /\ pending'[p] = <<>> /\ \A o \in Processes \ {p} : pending'[o] = pending[o]
        /\ \A c \in Clients : ProcOf[c] = p => pc'[c] = "idle"
        /\ \A c \in Clients : ProcOf[c] # p => pc'[c] = pc[c] /\ req'[c] = req[c]
    BY <1>0, <2>1 DEF Typed
  <2>3. QueueIsTrue'
    <3>1. ASSUME NEW o \in Processes, NEW k \in 1..Len(pending'[o])
          PROVE  o # p /\ ProcOf[pending'[o][k]] = o /\ pc'[pending'[o][k]] \in Enrolled
      <4>1. o # p /\ pending'[o] = pending[o] /\ k \in 1..Len(pending[o])
        BY <2>2, <3>1
      <4>2. pending[o][k] \in Clients /\ ProcOf[pending[o][k]] = o /\ pc[pending[o][k]] \in Enrolled
        BY <1>0, <1>a, <4>1 DEF Typed, QueueIsTrue
      <4> QED
        BY <2>2, <4>1, <4>2
    <3>2. ASSUME NEW o \in Processes, NEW k \in 1..Len(pending'[o]), NEW l \in 1..Len(pending'[o]),
                 pending'[o][k] = pending'[o][l]
          PROVE  k = l
      BY <1>a, <2>2, <3>1, <3>2 DEF QueueIsTrue
    <3>3. ASSUME NEW c \in Clients, pc'[c] \in Enrolled PROVE Registered(c)'
      <4>1. ProcOf[c] # p /\ pc[c] \in Enrolled /\ ProcOf[c] \in Processes
        BY <2>2, <3>3 DEF Enrolled
      <4> QED
        BY <1>a, <2>2, <4>1 DEF QueueIsTrue, Registered
    <3> QED
      BY <3>1, <3>2, <3>3 DEF QueueIsTrue
  <2>4. GrantsAreTrue'
    BY <1>0, <1>a, <2>1, <2>2 DEF GrantsAreTrue, Typed
  <2>5. TryingIsFirst'
    <3> SUFFICES ASSUME NEW d \in Clients, pc'[d] = "trying" PROVE ~BlockedByEarlier(d)'
      BY DEF TryingIsFirst
    <3>1. pc[d] = "trying" /\ ProcOf[d] # p /\ ProcOf[d] \in Processes /\ req'[d] = req[d]
      BY <2>2
    <3>2. \A k \in 1..Len(pending[ProcOf[d]]) : req'[pending[ProcOf[d]][k]] = req[pending[ProcOf[d]][k]]
      BY <1>0, <1>a, <2>2, <3>1 DEF Typed, QueueIsTrue
    <3> QED
      BY <1>a, <2>2, <3>1, <3>2 DEF TryingIsFirst, BlockedByEarlier
  <2> QED
    BY <2>3, <2>4, <2>5
<1>13. ASSUME UNCHANGED vars PROVE Rest'
  <2>1. UNCHANGED <<pending, active, mutex, pc, req>>
    BY <1>13 DEF vars
  <2>2. QueueIsTrue'
    BY <1>a, <2>1 DEF QueueIsTrue, Registered
  <2>3. GrantsAreTrue' /\ TryingIsFirst'
    BY <1>a, <2>1 DEF GrantsAreTrue, TryingIsFirst, BlockedByEarlier
  <2> QED
    BY <2>2, <2>3
<1> HIDE DEF Rest
<1>14. Rest'
  BY <1>1, <1>2, <1>3, <1>4, <1>5, <1>6, <1>7, <1>8, <1>9, <1>10, <1>11, <1>12, <1>13
     DEF Next, Step
<1> QED
  BY <1>0, <1>14 DEF QInv, Rest

\* The variables of every reachable state have their types, a manager knows of
\* its own callers only, and nobody has locked a file that its call does not ask
\* for: the entry of a lease and its files always belong to one call.
THEOREM ScopeLockTypeCorrect == Spec => []TypeOK
<1>1. QInv => TypeOK
  <2> SUFFICES ASSUME QInv PROVE TypeOK
    OBVIOUS
  <2>1. Typed /\ \A c \in Clients : flocks[c] \subseteq ProcessTargets(req[c])
    BY DEF QInv, IInv, FilesFollowCall
  <2>2. ASSUME NEW p \in Processes, NEW k \in 1..Len(pending[p]) PROVE pending[p][k] \in CallersOf(p)
    BY <2>1 DEF QInv, QueueIsTrue, CallersOf, Typed
  <2>3. ASSUME NEW p \in Processes
        PROVE  active[p] \subseteq CallersOf(p) /\ mutex[p] \in CallersOf(p) \cup {NoClient}
    BY <2>1 DEF QInv, GrantsAreTrue, CallersOf, Typed
  <2> QED
    BY <2>1, <2>2, <2>3 DEF TypeOK
<1> QED
  BY <1>1, InitQInv, StepQInv, PTL DEF Spec

\* No queue entry, lease or lock file outlives the call that made it, for any
\* number of callers and any mix of time-outs, I/O errors, refused attempts and
\* crashes: PendingRegistration::drop and release_inner clean up all there is.
THEOREM ScopeLockNothingLeaks == Spec => []NothingLeaks
<1>1. QInv => NothingLeaks
  <2> SUFFICES ASSUME QInv, NEW c \in Clients, pc[c] = "idle"
               PROVE  /\ flocks[c] = {} /\ c \notin active[ProcOf[c]]
                      /\ ~Registered(c) /\ mutex[ProcOf[c]] # c
    BY DEF NothingLeaks
  <2> USE ConstantsAssumption DEF QInv
  <2>1. flocks[c] = {}
    BY DEF IInv, FilesFollowCall
  <2>2. c \notin active[ProcOf[c]] /\ mutex[ProcOf[c]] # c
    BY DEF GrantsAreTrue
  <2>3. ~Registered(c)
    BY DEF QueueIsTrue, Registered, Enrolled
  <2> QED
    BY <2>1, <2>2, <2>3
<1> QED
  BY <1>1, InitQInv, StepQInv, PTL DEF Spec

\* FIFO among conflicting calls of a process, for any number of callers: the
\* look at the earlier registrations is still true when the lease is granted,
\* since the mutex is held from that look to the grant.
THEOREM ScopeLockNoOvertaking == Spec => NoOvertaking
<1> DEFINE Overtaken(c, d) ==
        /\ pc[c] = "trying" /\ pc'[c] = "held"
        /\ ProcOf[c] = ProcOf[d] /\ pc[d] = "waiting"
        /\ RequestsConflict(req[c], req[d])
    InOrder(c, d) ==
        \E i, j \in 1..Len(pending[ProcOf[c]]) :
            /\ i < j
            /\ pending[ProcOf[c]][i] = c /\ pending[ProcOf[c]][j] = d
<1>1. QInv /\ [Next]_vars => [\A c, d \in Clients : Overtaken(c, d) => InOrder(c, d)]_vars
  <2> SUFFICES ASSUME QInv, NEW c \in Clients, NEW d \in Clients, Overtaken(c, d) PROVE InOrder(c, d)
    BY Zenon
  <2>1. pc[c] \in Enrolled /\ pc[d] \in Enrolled /\ c # d
    BY DEF Enrolled
  <2>2. PICK i \in 1..Len(pending[ProcOf[c]]) : pending[ProcOf[c]][i] = c
    BY <2>1 DEF QInv, QueueIsTrue, Registered
  <2>3. PICK j \in 1..Len(pending[ProcOf[c]]) : pending[ProcOf[c]][j] = d
    BY <2>1 DEF QInv, QueueIsTrue, Registered
  <2>4. ~(j < i)
    BY <2>2, <2>3 DEF QInv, TryingIsFirst, BlockedByEarlier
  <2>5. i # j
    BY <2>1, <2>2, <2>3
  <2>6. i < j
    BY <2>4, <2>5
  <2> QED
    BY <2>2, <2>3, <2>6
<1>2. QInv /\ [Next]_vars => QInv'
  BY StepQInv
<1>3. Spec => [][\A c, d \in Clients : Overtaken(c, d) => InOrder(c, d)]_vars
  <2> HIDE DEF Overtaken, InOrder
  <2> QED
    BY <1>1, <1>2, InitQInv, PTL DEF Spec
<1> QED
  BY <1>3 DEF NoOvertaking
=============================================================================
