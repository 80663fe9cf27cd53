----------------------------- MODULE ScopeLock -----------------------------
(***************************************************************************)
(* ScopeLockManager: atomic, conflict-aware acquisition of a set of        *)
(* hierarchical scopes.  One manager per runtime process keeps an active   *)
(* map and a FIFO of pending calls under a mutex (the exact tier); with a  *)
(* lock root, a grant also takes one advisory file lock per coarse target, *)
(* which is what excludes the managers of other processes.                 *)
(*                                                                         *)
(* Source: crates/runtime/src/execution_core/graph/resources/scope_lock.rs *)
(***************************************************************************)
EXTENDS Integers, Sequences, FiniteSets

CONSTANTS
    Processes,   \* runtime processes, each with its own ScopeLockManager
    Clients,     \* concurrent callers of acquire
    ProcOf,      \* the process a caller runs in
    Inputs,      \* request sets a caller may pass to acquire
    Persistent,  \* TRUE iff the managers share a lock root
    KeyRank,     \* position of a lock-file key in the sorted order of keys
    NoClient     \* the mutex is free

Modes == {"Read", "Write"}

\* A caller passes sets of scope and mode pairs; a path is a list of names.
IsRequest(r) ==
    /\ r.mode \in Modes
    /\ r.scope.kind \in {"workspace", "object", "resource"}
    /\ r.scope.kind = "object" => r.scope.path \in Seq(STRING)

ASSUME ConstantsAssumption ==
    /\ ProcOf \in [Clients -> Processes]
    /\ NoClient \notin Clients
    /\ Persistent \in BOOLEAN
    /\ \A R \in Inputs : \A r \in R : IsRequest(r)

(***************************************************************************)
(* A scope is a record: a workspace, an object of a workspace (its path    *)
(* the sequence of its components, empty for a repository root) or a       *)
(* resource named by a namespace and a key.                                *)
(***************************************************************************)
IsWorkspace(s) == s.kind = "workspace"
IsObject(s)    == s.kind = "object"
IsResource(s)  == s.kind = "resource"

\* The empty path is a prefix of itself only: a suffix must start with '/'.
PathIsPrefix(p, q) ==
    \/ p = q
    \/ /\ p # <<>>
       /\ Len(p) < Len(q)
       /\ \A i \in 1..Len(p) : p[i] = q[i]

Overlaps(s, t) ==
    \/ IsWorkspace(s) /\ IsWorkspace(t) /\ s.ws = t.ws
    \/ /\ IsObject(s) /\ IsObject(t)
       /\ s.ws = t.ws /\ s.repo = t.repo
       /\ PathIsPrefix(s.path, t.path) \/ PathIsPrefix(t.path, s.path)
    \/ IsWorkspace(s) /\ IsObject(t) /\ s.ws = t.ws
    \/ IsObject(s) /\ IsWorkspace(t) /\ s.ws = t.ws
    \/ IsResource(s) /\ IsResource(t) /\ s.ns = t.ns /\ s.key = t.key

RequestsConflict(R, S) ==
    \E r \in R, s \in S :
        /\ Overlaps(r.scope, s.scope)
        /\ r.mode = "Write" \/ s.mode = "Write"

\* The strongest mode asked for a scope is the one acquired.
Normalize(R) ==
    {r \in R : r.mode = "Write" \/ [scope |-> r.scope, mode |-> "Write"] \notin R}

(***************************************************************************)
(* The process-shared tier.  A target is a lock-file key and a mode.       *)
(***************************************************************************)
Target(k, m)    == [key |-> k, mode |-> m]
AllKey(w)       == <<"all", w>>
WritersKey(w)   == <<"writers", w>>
\* Variant: the zone of a file is taken from its parent directory.
ZoneOfParent(p) == IF Len(p) <= 1 THEN "." ELSE p[1]
Zone(p)         == IF p = <<>> THEN "." ELSE p[1]
ObjectKey(s)    == <<"object", s.ws, s.repo, Zone(s.path)>>
ResourceKey(s)  == <<"resource", s.ns, s.key>>

RequestTargets(r) ==
    CASE IsWorkspace(r.scope) ->
            {Target(AllKey(r.scope.ws), r.mode)} \cup
            (IF r.mode = "Read" THEN {Target(WritersKey(r.scope.ws), "Write")} ELSE {})
      [] IsObject(r.scope) ->
            {Target(AllKey(r.scope.ws), "Read"), Target(ObjectKey(r.scope), r.mode)} \cup
            (IF r.mode = "Write" THEN {Target(WritersKey(r.scope.ws), "Read")} ELSE {})
      [] OTHER -> {Target(ResourceKey(r.scope), r.mode)}

RawTargets(R) == UNION {RequestTargets(r) : r \in R}

\* merge_process_target: one target per key, in the strongest mode.
ProcessTargets(R) ==
    IF Persistent
      THEN {t \in RawTargets(R) :
                t.mode = "Write" \/ Target(t.key, "Write") \notin RawTargets(R)}
      ELSE {}

VARIABLES
    pending,  \* per process: callers registered and not yet granted, oldest first
    active,   \* per process: callers that hold a lease
    mutex,    \* per process: the caller inside the manager's critical section
    pc,       \* per caller: where its call to acquire or release stands
    req,      \* per caller: the normalized requests of its current call
    flocks    \* per caller: the targets whose files it has locked

vars == <<pending, active, mutex, pc, req, flocks>>

PCs == {"idle", "waiting", "trying", "rollback", "failed", "held", "releasing"}

Init ==
    /\ pending = [p \in Processes |-> <<>>]
    /\ active  = [p \in Processes |-> {}]
    /\ mutex   = [p \in Processes |-> NoClient]
    /\ pc      = [c \in Clients |-> "idle"]
    /\ req     = [c \in Clients |-> {}]
    /\ flocks  = [c \in Clients |-> {}]

-----------------------------------------------------------------------------
MutexFree(c) == mutex[ProcOf[c]] = NoClient

\* The queue without caller c, which is registered at most once.
Removed(q, c) ==
    IF \E i \in 1..Len(q) : q[i] = c
      THEN LET i == CHOOSE i \in 1..Len(q) : q[i] = c
           IN  SubSeq(q, 1, i - 1) \o SubSeq(q, i + 1, Len(q))
      ELSE q

\* Variant: only the waiter right before c is looked at.
BlockedByPrevious(c) ==
    LET q == pending[ProcOf[c]]
    IN  \E j \in 2..Len(q) : q[j] = c /\ RequestsConflict(req[c], req[q[j - 1]])

\* Variant: earlier waiters are ignored.
NeverBlocked(c) == FALSE

\* Some call registered before c's conflicts with c's.
BlockedByEarlier(c) ==
    LET q == pending[ProcOf[c]]
    IN  \E i, j \in 1..Len(q) :
            i < j /\ q[j] = c /\ RequestsConflict(req[c], req[q[i]])

HasConflict(c) == \E d \in active[ProcOf[c]] : RequestsConflict(req[c], req[d])

Registered(c) == \E i \in 1..Len(pending[ProcOf[c]]) : pending[ProcOf[c]][i] = c

\* Variant: the requests are registered as they came.
CallUnnormalized(c) ==
    /\ pc[c] = "idle" /\ MutexFree(c)
    /\ \E R \in Inputs : req' = [req EXCEPT ![c] = R]
    /\ pending' = [pending EXCEPT ![ProcOf[c]] = Append(@, c)]
    /\ pc' = [pc EXCEPT ![c] = "waiting"]
    /\ UNCHANGED <<active, mutex, flocks>>

\* acquire: normalize and register at the tail.
Call(c) ==
    /\ pc[c] = "idle" /\ MutexFree(c)
    /\ \E R \in Inputs : req' = [req EXCEPT ![c] = Normalize(R)]
    /\ pending' = [pending EXCEPT ![ProcOf[c]] = Append(@, c)]
    /\ pc' = [pc EXCEPT ![c] = "waiting"]
    /\ UNCHANGED <<active, mutex, flocks>>

\* The check of one iteration of the loop that passes: the caller enters the
\* critical section and starts on the lock files.  One that does not pass
\* waits for a notification or 5 ms and changes nothing.
BeginTry(c) ==
    /\ pc[c] = "waiting" /\ MutexFree(c)
    /\ Registered(c)
    /\ ~BlockedByEarlier(c) /\ ~HasConflict(c)
    /\ mutex' = [mutex EXCEPT ![ProcOf[c]] = c]
    /\ pc' = [pc EXCEPT ![c] = "trying"]
    /\ UNCHANGED <<pending, active, req, flocks>>

\* Variant: the targets are not sorted.
UnsortedTargets(c) == ProcessTargets(req[c]) \ flocks[c]

\* Lock files are tried in the sorted order of their keys.
NextTargets(c) ==
    {t \in ProcessTargets(req[c]) \ flocks[c] :
        \A u \in ProcessTargets(req[c]) \ flocks[c] : KeyRank[t.key] <= KeyRank[u.key]}

\* An advisory lock of another open file denies the target.
WouldBlock(c, t) ==
    \E d \in Clients \ {c} : \E u \in flocks[d] :
        u.key = t.key /\ (u.mode = "Write" \/ t.mode = "Write")

TryLockFile(c) ==
    /\ pc[c] = "trying"
    /\ \E t \in NextTargets(c) :
          IF WouldBlock(c, t)
            THEN /\ pc' = [pc EXCEPT ![c] = "rollback"]
                 /\ UNCHANGED flocks
            ELSE /\ flocks' = [flocks EXCEPT ![c] = @ \cup {t}]
                 /\ UNCHANGED pc
    /\ UNCHANGED <<pending, active, mutex, req>>

Grant(c) ==
    /\ pc[c] = "trying" /\ ProcessTargets(req[c]) \subseteq flocks[c]
    /\ pending' = [pending EXCEPT ![ProcOf[c]] = Removed(@, c)]
    /\ active' = [active EXCEPT ![ProcOf[c]] = @ \cup {c}]
    /\ mutex' = [mutex EXCEPT ![ProcOf[c]] = NoClient]
    /\ pc' = [pc EXCEPT ![c] = "held"]
    /\ UNCHANGED <<req, flocks>>

\* One file is unlocked, by a refused attempt or by a release.
Unlock(c) ==
    /\ pc[c] \in {"rollback", "releasing"}
    /\ \E t \in flocks[c] :
          /\ \A u \in flocks[c] : KeyRank[u.key] <= KeyRank[t.key]
          /\ flocks' = [flocks EXCEPT ![c] = @ \ {t}]
    /\ UNCHANGED <<pending, active, mutex, pc, req>>

RolledBack(c) ==
    /\ pc[c] = "rollback" /\ flocks[c] = {}
    /\ pc' = [pc EXCEPT ![c] = "waiting"]
    /\ mutex' = [mutex EXCEPT ![ProcOf[c]] = NoClient]
    /\ UNCHANGED <<pending, active, req, flocks>>

\* Opening or locking a file fails: the files locked so far are closed.
LockIoError(c) ==
    /\ pc[c] = "trying" /\ NextTargets(c) # {}
    /\ flocks' = [flocks EXCEPT ![c] = {}]
    /\ mutex' = [mutex EXCEPT ![ProcOf[c]] = NoClient]
    /\ pc' = [pc EXCEPT ![c] = "failed"]
    /\ UNCHANGED <<pending, active, req>>

\* The wait times out, or the caller drops the future while it waits.
TimeOut(c) ==
    /\ pc[c] = "waiting"
    /\ pc' = [pc EXCEPT ![c] = "failed"]
    /\ UNCHANGED <<pending, active, mutex, req, flocks>>

\* Variant: a caller that gives up stays registered.
KeepRegistration(c) ==
    /\ pc[c] = "failed" /\ MutexFree(c)
    /\ pc' = [pc EXCEPT ![c] = "idle"]
    /\ req' = [req EXCEPT ![c] = {}]
    /\ UNCHANGED <<pending, active, mutex, flocks>>

\* PendingRegistration::drop.
DropRegistration(c) ==
    /\ pc[c] = "failed" /\ MutexFree(c)
    /\ pending' = [pending EXCEPT ![ProcOf[c]] = Removed(@, c)]
    /\ pc' = [pc EXCEPT ![c] = "idle"]
    /\ req' = [req EXCEPT ![c] = {}]
    /\ UNCHANGED <<active, mutex, flocks>>

\* release_inner: out of the active map first, then the files, then notify.
Release(c) ==
    /\ pc[c] = "held" /\ MutexFree(c)
    /\ active' = [active EXCEPT ![ProcOf[c]] = @ \ {c}]
    /\ pc' = [pc EXCEPT ![c] = "releasing"]
    /\ UNCHANGED <<pending, mutex, req, flocks>>

Released(c) ==
    /\ pc[c] = "releasing" /\ flocks[c] = {}
    /\ pc' = [pc EXCEPT ![c] = "idle"]
    /\ req' = [req EXCEPT ![c] = {}]
    /\ UNCHANGED <<pending, active, mutex, flocks>>

\* A process dies: the operating system closes its files.
Crash(p) ==
    /\ pending' = [pending EXCEPT ![p] = <<>>]
    /\ active' = [active EXCEPT ![p] = {}]
    /\ mutex' = [mutex EXCEPT ![p] = NoClient]
    /\ pc' = [c \in Clients |-> IF ProcOf[c] = p THEN "idle" ELSE pc[c]]
    /\ flocks' = [c \in Clients |-> IF ProcOf[c] = p THEN {} ELSE flocks[c]]
    /\ req' = [c \in Clients |-> IF ProcOf[c] = p THEN {} ELSE req[c]]

Step(c) ==
    \/ Call(c) \/ BeginTry(c) \/ TryLockFile(c) \/ Grant(c) \/ Unlock(c)
    \/ RolledBack(c) \/ LockIoError(c) \/ TimeOut(c) \/ DropRegistration(c)
    \/ Release(c) \/ Released(c)

Next == (\E c \in Clients : Step(c)) \/ (\E p \in Processes : Crash(p))

Spec == Init /\ [][Next]_vars

\* Steps that give up on a call: nothing bounds how often they happen.
GiveUp == (\E c \in Clients : TimeOut(c) \/ LockIoError(c)) \/ (\E p \in Processes : Crash(p))

(***************************************************************************)
(* The task of every caller is scheduled (a waiter polls every 5 ms), the  *)
(* state mutex lets every caller that blocks on it in eventually, and each *)
(* lease is released in the end: it is dropped with its owner.  Nothing is *)
(* assumed about new calls, time-outs, I/O errors and crashes.             *)
(***************************************************************************)
Fairness ==
    \A c \in Clients :
        /\ WF_vars(TryLockFile(c) \/ Grant(c) \/ Unlock(c) \/ RolledBack(c) \/ Released(c))
        /\ SF_vars(BeginTry(c) \/ DropRegistration(c) \/ Release(c))

FairSpec == Spec /\ Fairness

\* Callers that give up for ever let nobody in: progress across processes
\* assumes that they stop.
PatientSpec == FairSpec /\ <>[][~GiveUp]_vars

-----------------------------------------------------------------------------
(***************************************************************************)
(* Properties                                                              *)
(***************************************************************************)

NormalizedInputs == {Normalize(R) : R \in Inputs} \cup {{}}
InputTargets     == UNION {ProcessTargets(R) : R \in NormalizedInputs}

Typed ==
    /\ pending \in [Processes -> Seq(Clients)]
    /\ active \in [Processes -> SUBSET Clients]
    /\ mutex \in [Processes -> Clients \cup {NoClient}]
    /\ pc \in [Clients -> PCs]
    /\ req \in [Clients -> NormalizedInputs]
    /\ flocks \in [Clients -> SUBSET InputTargets]

CallersOf(p) == {c \in Clients : ProcOf[c] = p}

\* Every variable has its type, and what the managers and the lock files keep
\* is about the calls of their own: the registrations, the grants and the mutex
\* of a process name callers of this process, and the files a caller has locked
\* are targets of the requests of its current call.
TypeOK ==
    /\ Typed
    /\ \A p \in Processes :
          /\ \A k \in 1..Len(pending[p]) : pending[p][k] \in CallersOf(p)
          /\ active[p] \subseteq CallersOf(p)
          /\ mutex[p] \in CallersOf(p) \cup {NoClient}
    /\ \A c \in Clients : flocks[c] \subseteq ProcessTargets(req[c])

\* Two leases held at once never conflict: neither inside one process (the
\* in-memory check) nor, with a shared lock root, across processes, where only
\* the coarse lock files stand between them.
MutualExclusion ==
    \A c, d \in Clients :
        /\ c # d /\ pc[c] = "held" /\ pc[d] = "held"
        /\ Persistent \/ ProcOf[c] = ProcOf[d]
        => ~RequestsConflict(req[c], req[d])

\* No lock file or queue entry outlives the call that made it: a caller that
\* is idle is in no queue, in no active map, and holds no file, whatever mix
\* of time-outs, refused attempts, I/O errors and crashes came before.
NothingLeaks ==
    \A c \in Clients :
        pc[c] = "idle" =>
            /\ flocks[c] = {}
            /\ c \notin active[ProcOf[c]]
            /\ ~Registered(c)
            /\ mutex[ProcOf[c]] # c

\* FIFO among conflicting calls: a call is granted before an earlier registered
\* conflicting one only if that one has given up.
NoOvertaking ==
    [][\A c, d \in Clients :
          /\ pc[c] = "trying" /\ pc'[c] = "held"
          /\ ProcOf[c] = ProcOf[d] /\ pc[d] = "waiting"
          /\ RequestsConflict(req[c], req[d])
          => \E i, j \in 1..Len(pending[ProcOf[c]]) :
                /\ i < j
                /\ pending[ProcOf[c]][i] = c /\ pending[ProcOf[c]][j] = d]_vars

Wanting(c) == pc[c] \in {"waiting", "trying", "rollback"}

\* Without a lock root no waiter starves: the FIFO rule lets it in once the
\* leases before it are released, however many calls arrive later.
NoStarvation == \A c \in Clients : (pc[c] = "waiting") ~> (pc[c] # "waiting")

\* With a lock root callers that take the same files in several processes never
\* refuse each other for ever: while someone waits, someone gets a lease (or
\* all of them give up).
SomeoneProceeds ==
    (\E c \in Clients : Wanting(c))
        ~> ((\E c \in Clients : pc[c] = "held") \/ (\A c \in Clients : ~Wanting(c)))
=============================================================================
